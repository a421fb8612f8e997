------------------------ MODULE GroundingGate_proofs ------------------------
(***************************************************************************)
(* Proofs about GroundingGate, for every set of claims and every floor.    *)
(***************************************************************************)
EXTENDS GroundingGate, FiniteSetTheorems, TLAPS

-----------------------------------------------------------------------------
(* The inductive invariant *)

Undecided == {"entry", "prune", "regenerate", "repair", "coverage",
              "relevance", "relevance_repair"}

(* The types; how many rewrites there may be is the last part's.            *)
Typed ==
    /\ pc \in Undecided \cup {"decided", "failed"}
    /\ supported \subseteq Claims /\ onTopic \subseteq Claims
    /\ required \subseteq Claims /\ expected \subseteq Claims
    /\ route \in Routes /\ verifying \in BOOLEAN /\ repaired \in BOOLEAN
    /\ reason \in Reasons /\ pruned \subseteq Claims
    /\ draft \in Answers /\ draft.uncited \subseteq draft.claims
    /\ grounded \in BOOLEAN
    /\ rewrites \in Nat

(* A draft is marked grounded only after a verification of that very draft, *)
(* or with verification off, and the two states that rewrite a grounded     *)
(* draft are entered with one.                                              *)
Verified ==
    /\ pc \in {"entry", "prune", "repair"} => ~grounded
    /\ pc \in {"regenerate", "relevance_repair"} => grounded
    /\ grounded /\ reason # "DISABLED" => Supported(draft)
    /\ reason = "DISABLED" => pc \in {"decided", "failed"} /\ ~verifying
    /\ pc # "decided" => reason # "EXTRACT_VERIFIED"
    /\ AcceptedFromModel => Addresses(draft)

(* The shortfall is noted before the draft is scored for relevance.         *)
Noted ==
    /\ pc \in {"relevance", "relevance_repair"} /\ CoverageMissing(draft) # {} =>
          "shortfall" \in draft.notes
    /\ ShortfallDisclosed

(* One rewrite before the relevance check, and none after a repair that     *)
(* grounded the draft.                                                      *)
Bounded ==
    /\ pc \in {"entry", "prune", "repair", "regenerate"} => rewrites = 0
    /\ pc \notin {"decided", "failed"} => rewrites <= 1
    /\ pc = "regenerate" => pruned # {}
    /\ pc \in Undecided /\ rewrites = 1 /\ grounded =>
          pruned # {} \/ reason = "REPAIRED_SUPPORTED"
    /\ pc = "relevance_repair" => reason # "REPAIRED_SUPPORTED"
    /\ RewritesBounded

(* What made the answer complete still holds of it, wherever it is now; a   *)
(* regeneration starts from a complete remainder.                           *)
Whole ==
    /\ pc = "regenerate" => MissingRequirements(draft) = {}
    /\ grounded /\ reason \in {"CLAIMS_REMOVED_SUPPORTED", "REPAIRED_SUPPORTED",
             "CLAIMS_REMOVED_REGENERATION_REJECTED", "RELEVANCE_REPAIRED_SUPPORTED"}
       => MissingRequirements(draft) = {}

(* The note of a removal stays with the answer, and a summary of an         *)
(* enumerated population is no longer grounded after the coverage check.    *)
Remembered ==
    /\ pc \in {"entry", "prune", "repair"} => pruned = {}
    /\ pc # "decided" => reason # "RELEVANCE_REPAIRED_SUPPORTED"
    /\ pruned # {} /\ reason # "RELEVANCE_REPAIRED_SUPPORTED" =>
          "removed" \in draft.notes
    /\ pc \in {"relevance", "relevance_repair"} /\ grounded /\ expected # {} =>
          ~draft.summary
    /\ AcceptedFromModel /\ reason # "RELEVANCE_REPAIRED_SUPPORTED"
          /\ expected # {} => ~draft.summary

GateInv == Typed /\ Verified /\ Noted /\ Bounded /\ Whole /\ Remembered

-----------------------------------------------------------------------------
(* Facts about answers *)

(* What the model writes is an answer without notes, and a note changes     *)
(* nothing else of the answer it is added to.                               *)
LEMMA WrittenFacts ==
    \A a \in Written : a \in Answers /\ a.uncited \subseteq a.claims
BY DEF Written

LEMMA NoteFacts ==
    ASSUME NEW a \in Answers, NEW n \in Notes
    PROVE  /\ Note(a, n) \in Answers
           /\ Note(a, n).claims = a.claims /\ Note(a, n).uncited = a.uncited
           /\ n \in Note(a, n).notes /\ a.notes \subseteq Note(a, n).notes
           /\ Note(a, n).summary = a.summary
BY DEF Note, Answers

(* Removing the sentences the verifier names leaves an answer it supports,  *)
(* and removes something whenever it changes the draft.                     *)
LEMMA RemainderFacts ==
    ASSUME Typed
    PROVE  /\ Remainder \in Answers /\ Remainder.uncited = {}
           /\ Remainder.claims = Sound(draft)
           /\ Sound(Remainder) = Remainder.claims
           /\ Remainder # draft => draft.claims \ Remainder.claims # {}
<1>1. Remainder \in Answers /\ Remainder.uncited = {}
      /\ Remainder.claims = Sound(draft)
  BY DEF Typed, Remainder, Answers, Sound
<1>2. Sound(Remainder) = Remainder.claims
  BY <1>1 DEF Sound
<1>3. ASSUME draft.claims \ Remainder.claims = {} PROVE Remainder = draft
  <2>1. draft.uncited = {} /\ draft.claims = Sound(draft)
    BY <1>1, <1>3 DEF Typed, Sound
  <2>2. QED
    BY <2>1 DEF Typed, Remainder, Answers
<1>4. QED
  BY <1>1, <1>2, <1>3

(* A remainder that is kept is not empty.                                   *)
LEMMA PruneKeepsClaims ==
    ASSUME Typed, PruneTried
    PROVE  Remainder.claims # {}
<1>1. CASE Remainder.claims = {}
  <2>1. Cardinality(Remainder.claims) = 0
    BY <1>1, FS_EmptySet
  <2>2. QED
    BY <2>1, MinimumAssumption DEF PruneTried
<1>2. QED
  BY <1>1

-----------------------------------------------------------------------------
(* One lemma per part of the invariant, one case per action.               *)

(* Every rewrite is an answer whose uncited claims are its own.             *)
LEMMA TypedStep ==
    ASSUME GateInv, Next
    PROVE  Typed'
<1> USE DEF GateInv, Typed, Undecided, question, Decided, Routes, Reasons
<1>1. CASE RefuseTyped
  BY <1>1 DEF RefuseTyped
<1>2. CASE RefuseSubstanceOrAuthority
  BY <1>2 DEF RefuseSubstanceOrAuthority
<1>3. CASE AcceptExtract
  BY <1>3 DEF AcceptExtract
<1>4. CASE DecideInventory
  BY <1>4 DEF DecideInventory
<1>5. CASE AcceptUnverified
  BY <1>5 DEF AcceptUnverified
<1>6. CASE Verify
  BY <1>6 DEF Verify
<1>7. CASE Prune
  <2>1. draft' \in Answers /\ draft'.uncited \subseteq draft'.claims
    BY <1>7, RemainderFacts, NoteFacts DEF Prune, Notes
  <2>2. pruned' \subseteq Claims
    BY <1>7 DEF Prune, Answers
  <2>3. QED
    BY <1>7, <2>1, <2>2 DEF Prune
<1>8. CASE PruneRejected
  BY <1>8 DEF PruneRejected, AfterRejection
<1>9. CASE Regenerate
  BY <1>9, WrittenFacts, NoteFacts DEF Regenerate, Notes
<1>10. CASE Repair
  <2>1. PICK a \in Written :
          IF ~CitationsValid(a) THEN UNCHANGED <<draft, grounded, reason>>
          ELSE /\ draft' = a
               /\ grounded' = (Supported(a) /\ MissingRequirements(a) = {})
    BY <1>10 DEF Repair
  <2>2. draft' \in {draft, a} /\ grounded' \in BOOLEAN
    BY <2>1
  <2>3. pc' = "coverage" /\ rewrites' = rewrites + 1 /\ UNCHANGED <<question, pruned>>
        /\ repaired' \in BOOLEAN /\ reason' \in Reasons
    BY <1>10 DEF Repair
  <2>4. QED
    BY <2>2, <2>3, WrittenFacts
<1>11. CASE Coverage
  BY <1>11, NoteFacts DEF Coverage, Disclosed, Notes
<1>12. CASE Relevance
  BY <1>12 DEF Relevance
<1>13. CASE RelevanceRepair
  <2>1. PICK a \in Written : draft' \in {draft, a} /\ grounded' \in BOOLEAN
    BY <1>13 DEF RelevanceRepair
  <2>2. pc' = "decided" /\ rewrites' = rewrites + 1 /\ UNCHANGED <<question, pruned>>
        /\ repaired' \in BOOLEAN /\ reason' \in Reasons
    BY <1>13 DEF RelevanceRepair
  <2>3. QED
    BY <2>1, <2>2, WrittenFacts
<1>14. CASE Fail
  BY <1>14 DEF Fail
<1>15. CASE Ended
  BY <1>15 DEF Ended, vars
<1>16. QED
  BY <1>1, <1>2, <1>3, <1>4, <1>5, <1>6, <1>7, <1>8, <1>9, <1>10,
     <1>11, <1>12, <1>13, <1>14, <1>15 DEF Next, Step

(* A draft is only ever grounded by a verification of that draft.           *)
LEMMA VerifiedStep ==
    ASSUME GateInv, Next
    PROVE  Verified'
<1> USE
     DEF GateInv, Typed, Verified, Undecided, question, Decided, Supported,
         Sound, Accepted, Passed, AcceptedFromModel, Addresses
<1>1. CASE RefuseTyped
  BY <1>1 DEF RefuseTyped
<1>2. CASE RefuseSubstanceOrAuthority
  BY <1>2 DEF RefuseSubstanceOrAuthority
<1>3. CASE AcceptExtract
  BY <1>3 DEF AcceptExtract
<1>4. CASE DecideInventory
  BY <1>4 DEF DecideInventory
<1>5. CASE AcceptUnverified
  BY <1>5 DEF AcceptUnverified
<1>6. CASE Verify
  BY <1>6 DEF Verify
<1>7. CASE Prune
  BY <1>7, RemainderFacts, PruneKeepsClaims, NoteFacts
       DEF Prune, Notes, PruneAllowed
<1>8. CASE PruneRejected
  BY <1>8 DEF PruneRejected, AfterRejection
<1>9. CASE Regenerate
  BY <1>9, WrittenFacts, NoteFacts DEF Regenerate, Notes, Regenerated
<1>10. CASE Repair
  BY <1>10 DEF Repair
<1>11. CASE Coverage
  BY <1>11, NoteFacts DEF Coverage, Disclosed, Notes
<1>12. CASE Relevance
  BY <1>12 DEF Relevance, NeedsRelevanceRepair
<1>13. CASE RelevanceRepair
  BY <1>13, WrittenFacts DEF RelevanceRepair, RelevanceRepaired
<1>14. CASE Fail
  BY <1>14 DEF Fail
<1>15. CASE Ended
  BY <1>15 DEF Ended, vars
<1>16. QED
  BY <1>1, <1>2, <1>3, <1>4, <1>5, <1>6, <1>7, <1>8, <1>9, <1>10,
     <1>11, <1>12, <1>13, <1>14, <1>15 DEF Next, Step

(* Coverage notes the shortfall, and only a rewrite without one drops it.   *)
LEMMA NotedStep ==
    ASSUME GateInv, Next
    PROVE  Noted'
<1> USE
     DEF GateInv, Typed, Verified, Noted, Undecided, question, Decided,
         Accepted, Passed, AcceptedFromModel, ShortfallDisclosed, CoverageMissing
<1>1. CASE RefuseTyped
  BY <1>1 DEF RefuseTyped
<1>2. CASE RefuseSubstanceOrAuthority
  BY <1>2 DEF RefuseSubstanceOrAuthority
<1>3. CASE AcceptExtract
  BY <1>3 DEF AcceptExtract
<1>4. CASE DecideInventory
  BY <1>4 DEF DecideInventory
<1>5. CASE AcceptUnverified
  BY <1>5 DEF AcceptUnverified
<1>6. CASE Verify
  BY <1>6 DEF Verify
<1>7. CASE Prune
  BY <1>7 DEF Prune
<1>8. CASE PruneRejected
  BY <1>8 DEF PruneRejected, AfterRejection
<1>9. CASE Regenerate
  BY <1>9 DEF Regenerate
<1>10. CASE Repair
  BY <1>10 DEF Repair
<1>11. CASE Coverage
  BY <1>11, NoteFacts DEF Coverage, Disclosed, Notes
<1>12. CASE Relevance
  BY <1>12 DEF Relevance, NeedsRelevanceRepair
<1>13. CASE RelevanceRepair
  BY <1>13 DEF RelevanceRepair, RelevanceRepaired
<1>14. CASE Fail
  BY <1>14 DEF Fail
<1>15. CASE Ended
  BY <1>15 DEF Ended, vars
<1>16. QED
  BY <1>1, <1>2, <1>3, <1>4, <1>5, <1>6, <1>7, <1>8, <1>9, <1>10,
     <1>11, <1>12, <1>13, <1>14, <1>15 DEF Next, Step

(* A second rewrite is only reached after a pruning.                        *)
LEMMA BoundedStep ==
    ASSUME GateInv, Next
    PROVE  Bounded'
<1> USE
     DEF GateInv, Typed, Verified, Bounded, Undecided, question, Decided,
         RewritesBounded
<1>1. CASE RefuseTyped
  BY <1>1 DEF RefuseTyped
<1>2. CASE RefuseSubstanceOrAuthority
  BY <1>2 DEF RefuseSubstanceOrAuthority
<1>3. CASE AcceptExtract
  BY <1>3 DEF AcceptExtract
<1>4. CASE DecideInventory
  BY <1>4 DEF DecideInventory
<1>5. CASE AcceptUnverified
  BY <1>5 DEF AcceptUnverified
<1>6. CASE Verify
  BY <1>6 DEF Verify
<1>7. CASE Prune
  BY <1>7, RemainderFacts DEF Prune, PruneAllowed, PruneTried
<1>8. CASE PruneRejected
  BY <1>8 DEF PruneRejected, AfterRejection
<1>9. CASE Regenerate
  BY <1>9 DEF Regenerate
<1>10. CASE Repair
  BY <1>10 DEF Repair
<1>11. CASE Coverage
  BY <1>11 DEF Coverage
<1>12. CASE Relevance
  BY <1>12 DEF Relevance, NeedsRelevanceRepair
<1>13. CASE RelevanceRepair
  BY <1>13 DEF RelevanceRepair
<1>14. CASE Fail
  BY <1>14 DEF Fail
<1>15. CASE Ended
  BY <1>15 DEF Ended, vars
<1>16. QED
  BY <1>1, <1>2, <1>3, <1>4, <1>5, <1>6, <1>7, <1>8, <1>9, <1>10,
     <1>11, <1>12, <1>13, <1>14, <1>15 DEF Next, Step

(* Removing, regenerating and repairing keep the items asked for, or        *)
(* record a reason that does not promise them.                              *)
LEMMA WholeStep ==
    ASSUME GateInv, Next
    PROVE  Whole'
<1> USE
     DEF GateInv, Typed, Verified, Whole, Undecided, question, Decided,
         MissingRequirements
<1>1. CASE RefuseTyped
  BY <1>1 DEF RefuseTyped
<1>2. CASE RefuseSubstanceOrAuthority
  BY <1>2 DEF RefuseSubstanceOrAuthority
<1>3. CASE AcceptExtract
  BY <1>3 DEF AcceptExtract
<1>4. CASE DecideInventory
  BY <1>4 DEF DecideInventory
<1>5. CASE AcceptUnverified
  BY <1>5 DEF AcceptUnverified
<1>6. CASE Verify
  BY <1>6 DEF Verify
<1>7. CASE Prune
  BY <1>7, RemainderFacts, NoteFacts DEF Prune, PruneAllowed, PruneTried, Notes
<1>8. CASE PruneRejected
  BY <1>8 DEF PruneRejected, AfterRejection
<1>9. CASE Regenerate
  BY <1>9, WrittenFacts, NoteFacts DEF Regenerate, Regenerated, Notes
<1>10. CASE Repair
  BY <1>10 DEF Repair
<1>11. CASE Coverage
  BY <1>11, NoteFacts DEF Coverage, Disclosed, Notes
<1>12. CASE Relevance
  BY <1>12 DEF Relevance, NeedsRelevanceRepair
<1>13. CASE RelevanceRepair
  BY <1>13 DEF RelevanceRepair, RelevanceRepaired
<1>14. CASE Fail
  BY <1>14 DEF Fail
<1>15. CASE Ended
  BY <1>15 DEF Ended, vars
<1>16. QED
  BY <1>1, <1>2, <1>3, <1>4, <1>5, <1>6, <1>7, <1>8, <1>9, <1>10,
     <1>11, <1>12, <1>13, <1>14, <1>15 DEF Next, Step

(* A note is lost only with the answer it belongs to, and only the          *)
(* relevance repair replaces one that has a note.                           *)
LEMMA RememberedStep ==
    ASSUME GateInv, Next
    PROVE  Remembered'
<1> USE
     DEF GateInv, Typed, Verified, Remembered, Undecided, question, Decided,
         Accepted, Passed, AcceptedFromModel
<1>1. CASE RefuseTyped
  BY <1>1 DEF RefuseTyped
<1>2. CASE RefuseSubstanceOrAuthority
  BY <1>2 DEF RefuseSubstanceOrAuthority
<1>3. CASE AcceptExtract
  BY <1>3 DEF AcceptExtract
<1>4. CASE DecideInventory
  BY <1>4 DEF DecideInventory
<1>5. CASE AcceptUnverified
  BY <1>5 DEF AcceptUnverified
<1>6. CASE Verify
  BY <1>6 DEF Verify
<1>7. CASE Prune
  BY <1>7, RemainderFacts, NoteFacts DEF Prune, PruneAllowed, PruneTried, Notes
<1>8. CASE PruneRejected
  BY <1>8 DEF PruneRejected, AfterRejection
<1>9. CASE Regenerate
  BY <1>9, WrittenFacts, NoteFacts DEF Regenerate, Regenerated, Notes
<1>10. CASE Repair
  BY <1>10 DEF Repair
<1>11. CASE Coverage
  BY <1>11, NoteFacts DEF Coverage, Disclosed, Notes
<1>12. CASE Relevance
  BY <1>12 DEF Relevance, NeedsRelevanceRepair
<1>13. CASE RelevanceRepair
  BY <1>13 DEF RelevanceRepair, RelevanceRepaired
<1>14. CASE Fail
  BY <1>14 DEF Fail
<1>15. CASE Ended
  BY <1>15 DEF Ended, vars
<1>16. QED
  BY <1>1, <1>2, <1>3, <1>4, <1>5, <1>6, <1>7, <1>8, <1>9, <1>10,
     <1>11, <1>12, <1>13, <1>14, <1>15 DEF Next, Step

-----------------------------------------------------------------------------
(* The theorems *)

(* A draft that reaches the gate satisfies the inductive invariant.         *)
LEMMA InitGateInv == Init => GateInv
<1> SUFFICES ASSUME Init PROVE GateInv
  OBVIOUS
<1>1. draft \in Answers /\ draft.uncited \subseteq draft.claims
  BY DEF Init, Written, Answers
<1>2. Typed
  BY <1>1 DEF Init, Typed, Undecided, Reasons
<1>3. QED
  BY <1>2
     DEF Init, GateInv, Verified, Noted, Bounded, Whole, Remembered,
         Accepted, Passed,
         AcceptedFromModel, ShortfallDisclosed, RewritesBounded

(* Every step, and stuttering, preserves the inductive invariant.           *)
LEMMA NextGateInv == GateInv /\ [Next]_vars => GateInv'
<1> SUFFICES ASSUME GateInv, [Next]_vars PROVE GateInv'
  OBVIOUS
<1>1. CASE Next
  BY <1>1, TypedStep, VerifiedStep, NotedStep, BoundedStep,
     WholeStep, RememberedStep DEF GateInv
<1>2. CASE UNCHANGED vars
  BY <1>2
     DEF vars, question, GateInv, Typed, Verified, Noted, Bounded, Whole,
         Remembered, Accepted, Passed, AcceptedFromModel, ShortfallDisclosed,
         RewritesBounded, Supported, Sound, Addresses, CoverageMissing,
         MissingRequirements
<1>3. QED
  BY <1>1, <1>2

(* The inductive invariant holds of every state of the gate.                *)
THEOREM GateInvariant == Spec => []GateInv
<1>1. QED
  BY InitGateInv, NextGateInv, PTL DEF Spec

(* Every claim of an accepted answer is cited and supported, and an answer  *)
(* the model wrote addresses the question, whatever was pruned, regenerated *)
(* or repaired on the way; only the setting lets one through unverified.    *)
THEOREM OnlyGroundedIsAccepted == Spec => []AcceptedIsGrounded
<1>1. GateInv => AcceptedIsGrounded
  BY DEF GateInv, Verified, AcceptedIsGrounded, Accepted, Passed
<1>2. QED
  BY <1>1, GateInvariant, PTL

(* An accepted answer that misses a member of the population says so.       *)
THEOREM ShortfallIsDisclosed == Spec => []ShortfallDisclosed
<1>1. GateInv => ShortfallDisclosed
  BY DEF GateInv, Noted
<1>2. QED
  BY <1>1, GateInvariant, PTL

(* An answer the gate rewrote or cut still has every item the question      *)
(* asked for, whatever the order of the rewrites, at most two of them.      *)
THEOREM RewritesStayComplete == Spec => []RewrittenIsComplete
<1>1. GateInv => RewrittenIsComplete
  BY DEF GateInv, Bounded, Whole, RewrittenIsComplete, Accepted, Passed
<1>2. QED
  BY <1>1, GateInvariant, PTL

(* An accepted answer says what was removed from it and summarises no       *)
(* population, unless the relevance repair replaced it.                     *)
THEOREM OnlyRepairForgets == Spec => []OnlyRelevanceRepairForgets
<1>1. GateInv => OnlyRelevanceRepairForgets
  BY DEF GateInv, Remembered, OnlyRelevanceRepairForgets
<1>2. QED
  BY <1>1, GateInvariant, PTL

(* Every variable keeps its shape, and the gate asks the model for two      *)
(* drafts at most, the second only of a pruned answer.                      *)
THEOREM TypeCorrect == Spec => []TypeOK
<1>1. GateInv => TypeOK
  BY DEF GateInv, Typed, Undecided, Bounded, TypeOK
<1>2. QED
  BY <1>1, GateInvariant, PTL

-----------------------------------------------------------------------------
(* Refinement *)

(* A decision of the gate is one of the contract's, and everything before   *)
(* it is a step the contract does not see.                                  *)
LEMMA StepRefines ==
    ASSUME GateInv, GateInv', Next
    PROVE  Contract!Next \/ UNCHANGED Contract!cvars
<1>1. UNCHANGED <<supported, onTopic, verifying>>
  BY DEF Next, Step, Ended, Fail, question, vars, RefuseTyped,
         RefuseSubstanceOrAuthority, AcceptExtract, DecideInventory,
         AcceptUnverified, Verify, Prune, PruneRejected, Regenerate, Repair, Coverage, Relevance,
         RelevanceRepair
<1>2. CASE Ended
  BY <1>2 DEF Ended, vars, question, Contract!cvars, Accepted, Passed
<1>3. CASE pc \in Undecided /\ pc' \in Undecided
  BY <1>1, <1>3 DEF Undecided, Contract!cvars, Accepted, Passed
<1>4. CASE pc \in Undecided /\ pc' = "failed"
  BY <1>1, <1>4
     DEF Undecided, Accepted, Passed, Contract!Next, Contract!Fail,
         Contract!Decide
<1>5. CASE pc \in Undecided /\ pc' = "decided"
  <2>1. CASE ~grounded'
    BY <1>1, <1>5, <2>1
       DEF Undecided, Accepted, Passed, Contract!Next, Contract!Reject,
           Contract!Decide
  <2>2. CASE grounded' /\ reason' = "EXTRACT_VERIFIED"
    <3>1. draft'.claims \subseteq supported /\ draft'.claims # {}
      BY <1>1, <2>2 DEF GateInv, Verified, Supported, Sound
    <3>2. Contract!Decide("accepted_extract", draft'.claims)
      BY <1>1, <1>5, <2>2 DEF Undecided, Accepted, Passed, Contract!Decide
    <3>3. QED
      BY <3>1, <3>2 DEF Contract!Next, Contract!AcceptExtract
  <2>3. CASE grounded' /\ reason' = "DISABLED"
    <3>1. draft'.claims \in SUBSET Claims /\ ~verifying
      BY <1>1, <2>3 DEF GateInv, Typed, Verified, Answers
    <3>2. Contract!Decide("accepted_unverified", draft'.claims)
      BY <1>1, <1>5, <2>3 DEF Undecided, Accepted, Passed, Contract!Decide
    <3>3. QED
      BY <3>1, <3>2 DEF Contract!Next, Contract!AcceptUnverified
  <2>4. CASE grounded' /\ reason' \notin {"EXTRACT_VERIFIED", "DISABLED"}
    <3>1. draft'.claims \subseteq supported /\ draft'.claims \cap onTopic # {}
      BY <1>1, <1>5, <2>4
         DEF GateInv, Verified, Supported, Sound, Accepted, Passed,
             AcceptedFromModel,
             Addresses
    <3>2. Contract!Decide("accepted", draft'.claims)
      BY <1>1, <1>5, <2>4 DEF Undecided, Accepted, Passed, Contract!Decide
    <3>3. QED
      BY <3>1, <3>2 DEF Contract!Next, Contract!AcceptModelAnswer
  <2>5. QED
    BY <2>1, <2>2, <2>3, <2>4 DEF GateInv, Typed
<1>6. QED
  <2>1. Ended \/ pc \in Undecided
    BY DEF Next, Step, Fail, Undecided, GateInv, Typed, RefuseTyped,
           RefuseSubstanceOrAuthority, AcceptExtract, DecideInventory,
           AcceptUnverified, Verify, Prune, PruneRejected, Regenerate, Repair, Coverage, Relevance,
           RelevanceRepair
  <2>2. pc' \in Undecided \cup {"decided", "failed"}
    BY DEF GateInv, Typed
  <2>3. QED
    BY <2>1, <2>2, <1>2, <1>3, <1>4, <1>5

(* Every behaviour of the gate is one the contract allows: the safety part  *)
(* of ImplementsContract, for every set of claims.                          *)
THEOREM GateRefinesContract ==
    Spec => Contract!Init /\ [][Contract!Next]_(Contract!cvars)
<1>1. Init => Contract!Init
  BY DEF Init, Contract!Init, Accepted, Passed
<1>2. GateInv /\ GateInv' /\ [Next]_vars => [Contract!Next]_(Contract!cvars)
  <2>1. ASSUME GateInv, GateInv', Next PROVE [Contract!Next]_(Contract!cvars)
    BY <2>1, StepRefines
  <2>2. ASSUME UNCHANGED vars PROVE UNCHANGED Contract!cvars
    BY <2>2 DEF vars, question, Contract!cvars, Accepted, Passed
  <2>3. QED
    BY <2>1, <2>2
<1>3. QED
  BY <1>1, <1>2, GateInvariant, PTL DEF Spec
=============================================================================
