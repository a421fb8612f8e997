----------------------------- MODULE Generation -----------------------------
(***************************************************************************)
(* The generate node and the model calls under it: generate_model_answer,  *)
(* its fallbacks and its bounded repairs (workflow_nodes/answering.py),    *)
(* the streaming and the buffered generator (llm.py), transient retries    *)
(* (retry.py), the model slot that every call holds, and the accelerator   *)
(* threads that score claims (grounding.py, accelerator.py).               *)
(*                                                                         *)
(* A claim of the stream is scored while the stream holds the model slot,  *)
(* on a thread that a cancelled await does not stop: the slot, the pool of *)
(* threads and the timeouts of several requests meet here.                 *)
(***************************************************************************)
EXTENDS Integers, Sequences, FiniteSets

CONSTANTS
    Requests,
    Slots,          \* local_max_concurrency
    Capacity,       \* accelerator_max_concurrency
    Attempts,       \* llm_retry_attempts
    MaxRepairs,     \* max_answer_repairs
    MaxPasses,      \* max_retrieval_attempts
    Sentences       \* cited sentences the model can write: a bound of the model

ASSUME SizesAssumption ==
    /\ Slots \in Nat \ {0} /\ Capacity \in Nat \ {0}
    /\ Attempts \in Nat \ {0} /\ MaxPasses \in Nat \ {0}
    /\ MaxRepairs \in Nat /\ Sentences \in Nat

VARIABLES
    live,           \* the incremental stream is active, by request
    supported,      \* the claims the evidence supports
    pc,             \* where each request is
    holders,        \* the requests inside a model slot
    text,           \* how much prose has arrived (see Claims)
    emitted,        \* claims given to the sentence callback
    verified,       \* claims it accepted, in order
    tries, calls,   \* of the current model call; of the current pass
    answer,         \* what `generated' is
    truncated,      \* generator.last_stream_truncated
    budget,         \* repairs_remaining
    shaped,         \* the repairs made
    pass,           \* retrieval_attempt
    thread,         \* the scoring thread a request awaits
    orphans         \* scoring threads nobody awaits any more

streamVars == <<text, emitted, verified>>
callVars == <<tries, calls>>
shapeVars == <<budget, shaped>>
poolVars == <<thread, orphans>>
vars == <<live, supported, pc, holders, streamVars, callVars, answer,
          truncated, shapeVars, pass, poolVars>>

Places == {"start", "slot", "stream", "classify", "invoke", "fallback",
           "shape", "repair_slot", "repair", "align",
           "generated", "failed"}
Ended == {"generated", "failed"}
ModelCalls == {"classify", "invoke", "repair"}
UnderSlot == ModelCalls \cup {"stream"}

Answers == {"none", "extracted", "prose", "partial", "empty", "declined",
            "timeout", "canonical", "repaired"}

(* The shaping repairs, in the order the node tries them.                   *)
Transformation == 1
Listing == 2
Table == 3
Overview == 4
Shapes == {Transformation, Listing, Table, Overview}

(* Prose grows by thirds of a sentence: its words, its citation, and its    *)
(* full stop.  A claim is a sentence whose text ends with its citation;     *)
(* the callback is keyed by that text, so one without its stop is another.  *)
Claims == [sentence: 1..Sentences, whole: BOOLEAN]
ClaimsIn(t) ==
    {c \in Claims : IF c.whole THEN 3 * c.sentence <= t ELSE 3 * c.sentence = t + 1}

TypeOK ==
    /\ live \in [Requests -> BOOLEAN]
    /\ supported \subseteq Claims
    /\ pc \in [Requests -> Places]
    /\ holders \subseteq Requests
    /\ text \in [Requests -> 0 .. 3 * Sentences]
    /\ emitted \in [Requests -> SUBSET Claims]
    /\ verified \in [Requests -> Seq(Claims)]
    /\ tries \in [Requests -> 0..Attempts]
    /\ calls \in [Requests -> Nat]
    /\ answer \in [Requests -> Answers]
    /\ truncated \in [Requests -> BOOLEAN]
    /\ budget \in [Requests -> 0..MaxRepairs]
    /\ shaped \in [Requests -> SUBSET Shapes]
    /\ pass \in [Requests -> 1..MaxPasses]
    /\ thread \in [Requests -> {"none", "queued", "running"}]
    /\ orphans \in [{"queued", "running"} -> Nat]

Init ==
    /\ live \in [Requests -> BOOLEAN]
    /\ supported \in SUBSET Claims
    /\ pc = [r \in Requests |-> "start"]
    /\ holders = {}
    /\ text = [r \in Requests |-> 0]
    /\ emitted = [r \in Requests |-> {}]
    /\ verified = [r \in Requests |-> <<>>]
    /\ tries = [r \in Requests |-> 0]
    /\ calls = [r \in Requests |-> 0]
    /\ answer = [r \in Requests |-> "none"]
    /\ truncated = [r \in Requests |-> FALSE]
    /\ budget = [r \in Requests |-> MaxRepairs]
    /\ shaped = [r \in Requests |-> {}]
    /\ pass = [r \in Requests |-> 1]
    /\ thread = [r \in Requests |-> "none"]
    /\ orphans = [s \in {"queued", "running"} |-> 0]

-----------------------------------------------------------------------------
Goto(r, place) == pc' = [pc EXCEPT ![r] = place]

(* Leaving the slot's block, whatever the way, releases it (__aexit__).     *)
LeaveSlot(r) == holders' = holders \ {r}

(* A cancelled await leaves its thread behind, queued or running.           *)
Abandon(r) ==
    /\ thread' = [thread EXCEPT ![r] = "none"]
    /\ orphans' = IF thread[r] = "none" THEN orphans
                  ELSE [orphans EXCEPT ![thread[r]] = @ + 1]

(* The locals of the stream die with it, those of the node with the node.   *)
DropStream(r) ==
    /\ text' = [text EXCEPT ![r] = 0]
    /\ emitted' = [emitted EXCEPT ![r] = {}]

DropCounters(r) ==
    /\ tries' = [tries EXCEPT ![r] = 0]
    /\ calls' = [calls EXCEPT ![r] = 0]
    /\ budget' = [budget EXCEPT ![r] = MaxRepairs]
    /\ shaped' = [shaped EXCEPT ![r] = {}]

DropLocals(r) ==
    /\ DropStream(r) /\ DropCounters(r)
    /\ verified' = [verified EXCEPT ![r] = <<>>]
    /\ answer' = [answer EXCEPT ![r] = "none"]

(* An exception nobody catches, or CancelledError, ends the request.        *)
Fail(r) ==
    /\ Goto(r, "failed") /\ LeaveSlot(r) /\ Abandon(r) /\ DropLocals(r)
    /\ UNCHANGED <<live, supported, truncated, pass>>

-----------------------------------------------------------------------------
(* _generate chooses between the deterministic extractors and the model.    *)
Extract(r) ==
    /\ pc[r] = "start"
    /\ Goto(r, "shape")
    /\ answer' = [answer EXCEPT ![r] = "extracted"]
    /\ UNCHANGED <<live, supported, holders, streamVars, callVars, truncated,
                   shapeVars, pass, poolVars>>

Ask(r) ==
    /\ pc[r] = "start"
    /\ Goto(r, "slot")
    /\ UNCHANGED <<live, supported, holders, streamVars, callVars, answer,
                   truncated, shapeVars, pass, poolVars>>

(* _model_slot.__aenter__: a call waits load_shed_wait_seconds for a slot.  *)
EnterSlot(r) ==
    /\ pc[r] \in {"slot", "repair_slot"}
    /\ Cardinality(holders) < Slots
    /\ holders' = holders \cup {r}
    /\ Goto(r, CASE pc[r] = "repair_slot" -> "repair"
                 [] pc[r] = "slot" /\ live[r] -> "stream"
                 [] OTHER -> "invoke")
    /\ tries' = [tries EXCEPT ![r] = 1]
    /\ calls' = [calls EXCEPT ![r] = @ + 1]
    /\ UNCHANGED <<live, supported, streamVars, answer, truncated, shapeVars,
                   pass, poolVars>>

(* ModelSlotUnavailableError is no TimeoutError: no fallback catches it.    *)
Shed(r) ==
    /\ pc[r] \in {"slot", "repair_slot"}
    /\ Cardinality(holders) >= Slots
    /\ Fail(r)

-----------------------------------------------------------------------------
(* _stream_plain_answer_with_usage *)

Pending(r) == ClaimsIn(text[r]) \ emitted[r]
NextClaim(r) ==
    CHOOSE c \in Pending(r) : \A d \in Pending(r) : c.sentence <= d.sentence

(* A chunk carries any amount of text; the next one is awaited once every   *)
(* claim of this one went through the callback.                             *)
Chunk(r) ==
    /\ pc[r] = "stream" /\ Pending(r) = {}
    /\ \E t \in (text[r] + 1) .. (3 * Sentences) : text' = [text EXCEPT ![r] = t]
    /\ UNCHANGED <<live, supported, pc, holders, emitted, verified, callVars,
                   answer, truncated, shapeVars, pass, poolVars>>

(* verify_and_publish scores the claim on a thread; so does, once the       *)
(* answer is complete, attach_missing_citations.                            *)
StartScoring(r) ==
    /\ \/ pc[r] = "stream" /\ Pending(r) # {}
       \/ pc[r] = "align"
    /\ thread[r] = "none"
    /\ thread' = [thread EXCEPT ![r] = "queued"]
    /\ UNCHANGED <<live, supported, pc, holders, streamVars, callVars, answer,
                   truncated, shapeVars, pass, orphans>>

Verdict_Lenient(r) ==
    /\ emitted' = [emitted EXCEPT ![r] = @ \cup {NextClaim(r)}]
    /\ verified' = [verified EXCEPT ![r] = Append(@, NextClaim(r))]

(* Its verdict: a rejected claim is remembered but not kept.  Scores cached *)
(* for this pass need no thread.                                            *)
Verdict(r) ==
    /\ emitted' = [emitted EXCEPT ![r] = @ \cup {NextClaim(r)}]
    /\ verified' = [verified EXCEPT
                      ![r] = IF NextClaim(r) \in supported
                             THEN Append(@, NextClaim(r)) ELSE @]

ClaimScored(r) ==
    /\ pc[r] = "stream" /\ Pending(r) # {} /\ thread[r] # "queued"
    /\ Verdict(r)
    /\ thread' = [thread EXCEPT ![r] = "none"]
    /\ UNCHANGED <<live, supported, pc, holders, text, callVars, answer,
                   truncated, shapeVars, pass, orphans>>

StreamEnds(r) ==
    /\ pc[r] = "stream" /\ Pending(r) = {}
    /\ Goto(r, "classify")
    /\ answer' = [answer EXCEPT ![r] = IF text[r] = 0 THEN "empty" ELSE "prose"]
    /\ DropStream(r) /\ verified' = [verified EXCEPT ![r] = <<>>]
    /\ tries' = [tries EXCEPT ![r] = 1]
    /\ calls' = [calls EXCEPT ![r] = @ + 1]
    /\ UNCHANGED <<live, supported, holders, truncated, shapeVars, pass, poolVars>>

(* The first-chunk, the idle or the total timeout: the claims verified so   *)
(* far are the answer.  The total one also interrupts the callback.         *)
StreamTimesOut(r) ==
    /\ pc[r] = "stream" /\ verified[r] # <<>>
    /\ Abandon(r) /\ DropStream(r)
    /\ Goto(r, "classify")
    /\ answer' = [answer EXCEPT ![r] = "partial"]
    /\ truncated' = [truncated EXCEPT ![r] = TRUE]
    /\ tries' = [tries EXCEPT ![r] = 1]
    /\ calls' = [calls EXCEPT ![r] = @ + 1]
    /\ UNCHANGED <<live, supported, holders, verified, shapeVars, pass>>

StreamTimesOutEmpty_KeepsSlot(r) ==
    /\ pc[r] = "stream" /\ verified[r] = <<>>
    /\ Abandon(r) /\ DropStream(r)
    /\ Goto(r, "fallback")
    /\ answer' = [answer EXCEPT ![r] = "timeout"]
    /\ UNCHANGED <<live, supported, holders, verified, callVars, truncated,
                   shapeVars, pass>>

(* With nothing verified the timeout is raised out of the slot.             *)
StreamTimesOutEmpty(r) ==
    /\ pc[r] = "stream" /\ verified[r] = <<>>
    /\ Abandon(r) /\ LeaveSlot(r) /\ DropStream(r)
    /\ Goto(r, "fallback")
    /\ answer' = [answer EXCEPT ![r] = "timeout"]
    /\ UNCHANGED <<live, supported, verified, callVars, truncated, shapeVars, pass>>

(* The provider's error, or the accelerator's, raised from the callback.    *)
StreamFails(r) ==
    /\ pc[r] = "stream"
    /\ Fail(r)

-----------------------------------------------------------------------------
(* _invoke_with_usage: with_transient_retry around one structured call.     *)

RetryCall_Unbounded(r) ==
    /\ pc[r] \in ModelCalls
    /\ tries' = [tries EXCEPT ![r] = IF @ < Attempts THEN @ + 1 ELSE 1]
    /\ UNCHANGED <<live, supported, pc, holders, streamVars, calls, answer,
                   truncated, shapeVars, pass, poolVars>>

RetryCall(r) ==
    /\ pc[r] \in ModelCalls
    /\ tries[r] < Attempts
    /\ tries' = [tries EXCEPT ![r] = @ + 1]
    /\ calls' = [calls EXCEPT ![r] = @ + 1]
    /\ UNCHANGED <<live, supported, pc, holders, streamVars, answer, truncated,
                   shapeVars, pass, poolVars>>

(* Only the generation is inside the `except TimeoutError' of _generate.    *)
CallTimesOut(r) ==
    /\ pc[r] \in {"classify", "invoke"}
    /\ tries[r] = Attempts
    /\ LeaveSlot(r)
    /\ Goto(r, "fallback")
    /\ answer' = [answer EXCEPT ![r] = "timeout"]
    /\ UNCHANGED <<live, supported, streamVars, callVars, truncated, shapeVars,
                   pass, poolVars>>

(* Not transient, or the last attempt of a repair.                          *)
CallFails(r) ==
    /\ pc[r] \in ModelCalls
    /\ Fail(r)

(* The disposition changes no prose: normalize_streamed_answer_outcome.     *)
Classified(r) ==
    /\ pc[r] = "classify"
    /\ LeaveSlot(r)
    /\ Goto(r, "fallback")
    /\ UNCHANGED <<live, supported, streamVars, callVars, answer, truncated,
                   shapeVars, pass, poolVars>>

(* The buffered generator.  "declined": explicit missing information and no *)
(* citation.                                                                *)
Invoked(r) ==
    /\ pc[r] = "invoke"
    /\ LeaveSlot(r)
    /\ Goto(r, "fallback")
    /\ \E a \in {"prose", "empty", "declined"} : answer' = [answer EXCEPT ![r] = a]
    /\ UNCHANGED <<live, supported, streamVars, callVars, truncated, shapeVars,
                   pass, poolVars>>

-----------------------------------------------------------------------------
(* The canonical quote *)

(* _model_fallback_reason, and STREAM_TIMEOUT                               *)
Unusable == {"timeout", "empty", "declined"}

KeepAnswer(r) ==
    /\ pc[r] = "fallback"
    /\ answer[r] # "timeout"
    /\ Goto(r, "shape")
    /\ UNCHANGED <<live, supported, holders, streamVars, callVars, answer,
                   truncated, shapeVars, pass, poolVars>>

(* The documents hold a route match that quotes as an answer.               *)
QuoteCanonical(r) ==
    /\ pc[r] = "fallback"
    /\ answer[r] \in Unusable
    /\ Goto(r, "shape")
    /\ answer' = [answer EXCEPT ![r] = "canonical"]
    /\ UNCHANGED <<live, supported, holders, streamVars, callVars, truncated,
                   shapeVars, pass, poolVars>>

(* They do not, and the timeout is raised again.                            *)
RaiseTimeout(r) ==
    /\ pc[r] = "fallback"
    /\ answer[r] = "timeout"
    /\ Fail(r)

-----------------------------------------------------------------------------
(* The shaping repairs share one budget.  Whether the answer needs a shape  *)
(* depends on its text and on the request.                                  *)

Deterministic_ExtractorsOnly(r) == answer[r] = "extracted"

Deterministic(r) == answer[r] \in {"extracted", "canonical"}

StartRepair(r) ==
    /\ pc[r] = "shape"
    /\ budget[r] > 0 /\ ~Deterministic(r)
    /\ \E s \in Shapes :
          /\ \A earlier \in shaped[r] : earlier < s
          /\ s = Overview => Transformation \notin shaped[r]
          /\ shaped' = [shaped EXCEPT ![r] = @ \cup {s}]
    /\ Goto(r, "repair_slot")
    /\ UNCHANGED <<live, supported, holders, streamVars, callVars, answer,
                   truncated, budget, pass, poolVars>>

Repaired(r) ==
    /\ pc[r] = "repair"
    /\ LeaveSlot(r)
    /\ Goto(r, "shape")
    /\ answer' = [answer EXCEPT ![r] = "repaired"]
    /\ budget' = [budget EXCEPT ![r] = @ - 1]
    /\ UNCHANGED <<live, supported, streamVars, callVars, truncated, shaped,
                   pass, poolVars>>

ShapesDone(r) ==
    /\ pc[r] = "shape"
    /\ Goto(r, "align")
    /\ UNCHANGED <<live, supported, holders, streamVars, callVars, answer,
                   truncated, shapeVars, pass, poolVars>>

(* attach_missing_citations returns; the node's result joins the state.     *)
Aligned(r) ==
    /\ pc[r] = "align" /\ thread[r] # "queued"
    /\ Goto(r, "generated")
    /\ DropCounters(r)
    /\ thread' = [thread EXCEPT ![r] = "none"]
    /\ UNCHANGED <<live, supported, holders, streamVars, answer, truncated,
                   pass, orphans>>

AlignmentFails(r) ==
    /\ pc[r] = "align" /\ thread[r] = "running"
    /\ thread' = [thread EXCEPT ![r] = "none"]
    /\ Goto(r, "failed") /\ DropLocals(r)
    /\ UNCHANGED <<live, supported, holders, truncated, pass, orphans>>

(* A completeness repair runs the node again.  Its locals start afresh; the *)
(* generator object, and what it remembers of the last stream, does not.    *)
NextPass(r) ==
    /\ pc[r] = "generated"
    /\ pass[r] < MaxPasses
    /\ Goto(r, "start")
    /\ pass' = [pass EXCEPT ![r] = @ + 1]
    /\ DropLocals(r)
    /\ UNCHANGED <<live, supported, holders, truncated, poolVars>>

(* request_timeout_seconds, or the client left.                             *)
Cancel(r) ==
    /\ pc[r] \notin Ended
    /\ Fail(r)

-----------------------------------------------------------------------------
(* accelerator_request, on a thread of the default executor: the semaphore  *)
(* is shared by every thread of the process, awaited or not.  A socket      *)
(* timeout bounds each request.                                             *)

Running ==
    Cardinality({r \in Requests : thread[r] = "running"}) + orphans["running"]

ThreadStarts(r) ==
    /\ thread[r] = "queued" /\ Running < Capacity
    /\ thread' = [thread EXCEPT ![r] = "running"]
    /\ UNCHANGED <<live, supported, pc, holders, streamVars, callVars, answer,
                   truncated, shapeVars, pass, orphans>>

OrphanStarts ==
    /\ orphans["queued"] > 0 /\ Running < Capacity
    /\ orphans' = [orphans EXCEPT !["queued"] = @ - 1, !["running"] = @ + 1]
    /\ UNCHANGED <<live, supported, pc, holders, streamVars, callVars, answer,
                   truncated, shapeVars, pass, thread>>

OrphanEnds ==
    /\ orphans["running"] > 0
    /\ orphans' = [orphans EXCEPT !["running"] = @ - 1]
    /\ UNCHANGED <<live, supported, pc, holders, streamVars, callVars, answer,
                   truncated, shapeVars, pass, thread>>

-----------------------------------------------------------------------------
Streaming(r) ==
    \/ Chunk(r) \/ StartScoring(r) \/ ThreadStarts(r) \/ ClaimScored(r)
    \/ StreamEnds(r) \/ StreamTimesOut(r) \/ StreamTimesOutEmpty(r) \/ StreamFails(r)

Calling(r) ==
    \/ RetryCall(r) \/ CallTimesOut(r) \/ CallFails(r) \/ Classified(r)
    \/ Invoked(r) \/ Repaired(r)

Deciding(r) ==
    \/ Extract(r) \/ Ask(r) \/ EnterSlot(r) \/ Shed(r)
    \/ KeepAnswer(r) \/ QuoteCanonical(r) \/ RaiseTimeout(r)
    \/ StartRepair(r) \/ ShapesDone(r) \/ Aligned(r) \/ AlignmentFails(r)

Progress(r) == Streaming(r) \/ Calling(r) \/ Deciding(r)

Server == OrphanStarts \/ OrphanEnds \/ \E r \in Requests : Progress(r)

Next == Server \/ \E r \in Requests : NextPass(r) \/ Cancel(r)

Spec == Init /\ [][Next]_vars

(* The event loop runs while a task can: an await of a model or of a thread *)
(* returns, or times out on a timer of its own.  That the outer request     *)
(* timeout ever fires is not assumed.                                       *)
Fairness == WF_vars(Server)

FairSpec == Spec /\ Fairness

-----------------------------------------------------------------------------
(* Properties *)

(* A slot is held by the requests inside a model call and by no other, and  *)
(* never by more than there are: every way out of a call, a timeout inside  *)
(* a verification included, gives it back.                                  *)
SlotHeldWhileModelWorks ==
    /\ holders = {r \in Requests : pc[r] \in UnderSlot}
    /\ Cardinality(holders) <= Slots

(* What is left of a stream that timed out holds supported claims only, and *)
(* it is always released with the ANSWER_STREAM_TRUNCATED degradation.      *)
PartialIsVerified ==
    \A r \in Requests : answer[r] = "partial" =>
        /\ truncated[r]
        /\ verified[r] # <<>>
        /\ \A i \in DOMAIN verified[r] : verified[r][i] \in supported

(* One pass makes no more model calls than the validator of config.py       *)
(* budgets: every attempt of one generation and of max_answer_repairs, and  *)
(* one stream, which is never retried.                                      *)
CallsWithinBudget ==
    \A r \in Requests :
        calls[r] <= (IF live[r] THEN 1 ELSE 0) + Attempts * (1 + MaxRepairs)

(* Text copied from the evidence is not handed to the model to be reshaped. *)
ExtractedNeverRewritten ==
    [][\A r \in Requests :
          answer[r] \in {"extracted", "canonical"} => answer'[r] \in {answer[r], "none"}]_vars

(* Threads left behind by cancelled requests still count against the        *)
(* accelerator's bound: a timeout never lets one more request through.      *)
AcceleratorBounded ==
    Cardinality({r \in Requests : thread[r] = "running"}) + orphans["running"] <= Capacity

(* What is scarce is given back and counted rightly, whatever times out.   *)
ResourcesKept ==
    TypeOK /\ SlotHeldWhileModelWorks /\ CallsWithinBudget /\ AcceleratorBounded

(* Every request ends by the timers of its own calls, whatever the others   *)
(* hold and however many threads were left behind.                          *)
EveryRequestEnds == <>[](\A r \in Requests : pc[r] \in Ended)
=============================================================================
