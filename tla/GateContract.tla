---------------------------- MODULE GateContract ----------------------------
(***************************************************************************)
(* What verify_grounding promises to the rest of the workflow, without the *)
(* way it gets there: one decision, and the claims it lets through are     *)
(* supported by the evidence and address the question, unless verification *)
(* is switched off.  GroundingGate implements it; the VerifyGrounding      *)
(* action of RagWorkflow relies on it, with verification on.               *)
(***************************************************************************)
EXTENDS FiniteSets

CONSTANT Claims      \* the material sentences an answer can be made of

VARIABLES
    supported,       \* the claims the retrieved documents entail
    onTopic,         \* the claims that address the question
    verifying,       \* the setting grounding_verification_enabled
    verdict,         \* "pending" until the gate decides
    released         \* the claims of the accepted answer

cvars == <<supported, onTopic, verifying, verdict, released>>

Init ==
    /\ supported \in SUBSET Claims
    /\ onTopic \in SUBSET Claims
    /\ verifying \in BOOLEAN
    /\ verdict = "pending"
    /\ released = {}

Decide(v, claims) ==
    /\ verdict = "pending"
    /\ verdict' = v
    /\ released' = claims
    /\ UNCHANGED <<supported, onTopic, verifying>>

(* An answer a model wrote: every claim supported, and about the question.  *)
AcceptModelAnswer ==
    \E claims \in SUBSET supported :
        claims \cap onTopic # {} /\ Decide("accepted", claims)

(* An answer assembled from the documents themselves is compared with what  *)
(* they yield, and is not scored for topicality.                            *)
AcceptExtract ==
    \E claims \in SUBSET supported :
        claims # {} /\ Decide("accepted_extract", claims)

(* Without verification nothing is promised of the claims.                  *)
AcceptUnverified ==
    /\ ~verifying
    /\ \E claims \in SUBSET Claims : Decide("accepted_unverified", claims)

Reject == Decide("rejected", {})
Fail == Decide("failed", {})

Next ==
    AcceptModelAnswer \/ AcceptExtract \/ AcceptUnverified \/ Reject \/ Fail

Spec == Init /\ [][Next]_cvars /\ WF_cvars(Next)
=============================================================================
