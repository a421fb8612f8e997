--------------------------- MODULE JsonTransform ---------------------------
(***************************************************************************)
(* The conversion answered before the graph (json_transform.py): whether a *)
(* message is one (detect_json_transform_request), the span of it taken    *)
(* for the payload, and the bounded rounds of _decode over that span.      *)
(*                                                                         *)
(* A message is its prose, in a number of words before and after, and its  *)
(* body, which may be encoded a number of times as a JSON string.  What    *)
(* asks for a conversion is one of the words before or after, and a string *)
(* that is cut takes the rest of the message.  Words may stand in the body *)
(* too.  A token that is no word is short: only words count as prose.      *)
(***************************************************************************)
EXTENDS JsonText, TLC

CONSTANTS
    Messages,        \* [asked, fenced : BOOLEAN, before, after, encoded : Nat, body : Seq(kinds)]
    MAX_UNWRAP_ROUNDS,
    MAX_NESTING_DEPTH,
    BareProse        \* MAX_BARE_PAYLOAD_PROSE_CHARACTERS, in words

(* The pattern of a quoted span allows for two encodings.                   *)
ASSUME MessagesAssumption == \A m \in Messages :
    /\ m.asked => m.before + m.after > 0
    /\ m.encoded > 0 /\ ~m.fenced =>
          /\ m.encoded <= 2 /\ Head(m.body) \in Openers /\ Last(m.body) \in Closers
          /\ ToSet(m.body) \cap {"held", "prose"} = {}
    /\ Last(m.body) = "cut" => m.after = 0
ASSUME BoundsAssumption == MAX_UNWRAP_ROUNDS \in Nat \ {0} /\ MAX_NESTING_DEPTH \in Nat

VARIABLES
    message,
    payload,         \* current: [text |-> the tokens to parse,
                     \*           encoded |-> the string encodings around them]
    round, repaired, \* the rounds of _decode, those that ended in a repair
    outcome

vars == <<message, payload, round, repaired, outcome>>

-----------------------------------------------------------------------------
(* The message as tokens: prose, body, prose. *)

Prose(n) == [i \in 1..n |-> [k |-> "prose", at |-> 0]]
Body(m) == [i \in DOMAIN m.body |-> [k |-> m.body[i], at |-> i]]
Written(m) == Prose(m.before) \o Body(m) \o Prose(m.after)

(* What a scan for brackets sees of the message from a place on.  The quotes *)
(* in an encoded text are escaped, so the first string never ends for it.   *)
Legible(m, start) ==
    LET written == Written(m)
        strings == {i \in start..Len(written) : Kind(written, i) \in Strings}
    IN  IF m.encoded = 0 \/ strings = {} THEN written
        ELSE SubSeq(written, 1, Min(strings) - 1)

(* The scan of _widest_structural_span from `start', counting only the      *)
(* brackets of the kind that opened it; 0 when they never balance. Once     *)
(* balanced it goes on over a sibling that opens at once.                   *)
SpanEnd(written, start) ==
    LET opener == Kind(written, start)
        scan[i \in (start - 1)..Len(written)] ==
            IF i < start THEN [depth |-> 0, end |-> 0, over |-> FALSE]
            ELSE LET before == scan[i - 1]
                     depth == CASE Kind(written, i) = opener -> before.depth + 1
                                [] Kind(written, i) = CloserOf(opener) -> before.depth - 1
                                [] OTHER -> before.depth
                     closes == depth = 0 /\ Kind(written, i) = CloserOf(opener)
                 IN  IF before.over THEN before
                     ELSE [depth |-> depth,
                           end |-> IF closes THEN i ELSE before.end,
                           over |-> closes /\ Kind(written, i + 1) # opener]
    IN  scan[Len(written)].end

(* Where a bracket first occurs, be it in the text of a string.             *)
FirstOf(written, k) ==
    SelectInSeq(written, LAMBDA t : t.k = k \/ (k = "[" /\ t.k = "held"))

(* The spans tried, whichever delimiter opens first: the brackets a string  *)
(* holds, the balanced span, or all of a text that starts with the bracket. *)
SpanFrom(m, start) ==
    LET seen == Legible(m, start)
        end == SpanEnd(seen, start)
    IN  IF Kind(seen, start) = "held" THEN <<[seen[start] EXCEPT !.k = "opaque"]>>
        ELSE IF end > 0 THEN SubSeq(seen, start, end)
        ELSE IF start = 1 /\ m.encoded = 0 THEN Written(m)
        ELSE <<>>

StructuralSpan(m) ==
    LET starts == {FirstOf(Written(m), k) : k \in Openers} \ {0}
        spans == [s \in starts |-> SpanFrom(m, s)]
        found == {s \in starts : spans[s] # <<>>}
    IN  IF found = {} THEN <<>> ELSE spans[Min(found)]

(* The quotes of token i are at 2 * i, where it opens, and 2 * i + 1.  Here *)
(* are those a bracket follows, and those that follow one.                  *)
QuotesBefore(written) ==
    {2 * i : i \in {h \in DOMAIN written : written[h].k = "held"}}
    \cup {2 * i + 1 : i \in {s \in DOMAIN written :
            written[s].k \in Strings /\ Kind(written, s + 1) \in Openers \cup {"held"}}}
QuotesAfter(written) ==
    {2 * i + 1 : i \in {h \in DOMAIN written : written[h].k = "held"}}
    \cup {2 * i : i \in {s \in DOMAIN written :
            written[s].k \in Strings \cup {"cut"}
            /\ Kind(written, s - 1) \in Closers \cup {"held"}}}

(* _widest_quoted_span: from the first of them to the last.  From a string  *)
(* to a string it is tokens; from the end of one to the beginning of the    *)
(* next it is a string of what stands between them; else it is neither.     *)
QuotedSpan(written) ==
    LET opening == Min(QuotesBefore(written))
        closing == Max(QuotesAfter(written))
        tokens == SubSeq(written, (opening + 1) \div 2, (closing - 1) \div 2)
        outside == opening % 2 = 0 /\ closing % 2 = 1
        between == /\ opening % 2 = 1 /\ closing % 2 = 0
                   /\ \A i \in DOMAIN tokens : tokens[i].k \notin Strings
    IN  IF QuotesBefore(written) = {} \/ QuotesAfter(written) = {} \/ opening > closing
        THEN [text |-> <<>>, encoded |-> 0]
        ELSE [text |-> IF outside \/ between THEN tokens ELSE <<Added("opaque")>> \o tokens,
              encoded |-> IF between THEN 1 ELSE 0]

(* _payload_candidates: a fence holds the body, and nothing else is tried.  *)
Candidates(m) ==
    LET whole == [text |-> Body(m), encoded |-> m.encoded]
        structural == [text |-> StructuralSpan(m), encoded |-> 0]
        quoted == IF m.encoded > 0 THEN whole ELSE QuotedSpan(Written(m))
    IN  IF m.fenced THEN <<whole>>
        ELSE SelectSeq(<<structural, quoted>>, LAMBDA c : c.text # <<>>)

-----------------------------------------------------------------------------
(* A round of _decode over a payload: it unwraps a string that holds a      *)
(* document, or a string that does; it has the value, a document or the     *)
(* string that is none; or else it repairs the text.                        *)
Unwraps(c) == c.encoded > 1 \/ (c.encoded = 1 /\ IsDocument(c.text))
HasValue(c) == \/ c.encoded = 0 /\ Accepts(c.text)
               \/ c.encoded = 1 /\ ~IsDocument(c.text)
TooDeep(c) == c.encoded = 0 /\ Depth(c.text) > MAX_NESTING_DEPTH

(* transform_json(payload).ok, which holds too when it formats None.        *)
Formats(c) ==
    LET Round(d) == IF Unwraps(d) THEN [d EXCEPT !.encoded = @ - 1]
                    ELSE [d EXCEPT !.text = Repaired(@)]
        after[r \in 0..MAX_UNWRAP_ROUNDS] ==
            IF r = 0 THEN c
            ELSE IF HasValue(after[r - 1]) THEN after[r - 1] ELSE Round(after[r - 1])
        rounds == 0..(MAX_UNWRAP_ROUNDS - 1)
    IN  \/ \E r \in rounds : HasValue(after[r]) /\ ~TooDeep(after[r])
        \/ \A r \in rounds : Unwraps(after[r])

(* The words around the payload; brackets around it are too short to count. *)
ProseAround(m, c) ==
    LET words(s) == Len(SelectSeq(s, LAMBDA t : t.k = "prose"))
    IN  words(Written(m)) - words(c.text)

(* A message that asks has its candidates tried by decoding them; one that  *)
(* does not is a payload with next to nothing around it (_bare_payload).    *)
Fits(m, c) ==
    IF m.asked THEN Formats(c)
    ELSE ProseAround(m, c) <= (IF m.fenced THEN 0 ELSE BareProse)

Fitting(m) == {i \in DOMAIN Candidates(m) : Fits(m, Candidates(m)[i])}

Converts_AnyProse(m) == Candidates(m) # <<>>

Converts(m) == Candidates(m) # <<>> /\ (m.asked \/ Fitting(m) # {})

(* The first that fits; else the first, for the error its user is given.    *)
Payload(m) ==
    Candidates(m)[IF Fitting(m) = {} THEN 1 ELSE Min(Fitting(m))]

-----------------------------------------------------------------------------
Init ==
    /\ message \in Messages
    /\ payload = [text |-> <<>>, encoded |-> 0]
    /\ round = 0 /\ repaired = 0 /\ outcome = "new"

(* detect_json_transform_request: anything else goes to the graph. *)
Detect ==
    /\ outcome = "new"
    /\ IF Converts(message)
       THEN outcome' = "decoding" /\ payload' = Payload(message)
       ELSE outcome' = "retrieval" /\ UNCHANGED payload
    /\ UNCHANGED <<message, round, repaired>>

InRound == outcome = "decoding" /\ round < MAX_UNWRAP_ROUNDS

Unwrap ==
    /\ InRound /\ Unwraps(payload)
    /\ payload' = [payload EXCEPT !.encoded = @ - 1] /\ round' = round + 1
    /\ UNCHANGED <<message, repaired, outcome>>

Format ==
    /\ InRound /\ HasValue(payload)
    /\ outcome' = IF TooDeep(payload) THEN "too_deep" ELSE "formatted"
    /\ UNCHANGED <<message, payload, round, repaired>>

Repair ==
    /\ InRound /\ ~Unwraps(payload) /\ ~HasValue(payload)
    /\ IF Repaired(payload.text) = payload.text
       THEN outcome' = "invalid" /\ UNCHANGED <<payload, round, repaired>>
       ELSE /\ payload' = [payload EXCEPT !.text = Repaired(@)]
            /\ round' = round + 1 /\ repaired' = repaired + 1
            /\ UNCHANGED outcome
    /\ UNCHANGED message

(* The rounds are over: None and the last parse error, and without an       *)
(* error transform_json formats the None.                                   *)
Exhaust ==
    /\ outcome = "decoding" /\ round = MAX_UNWRAP_ROUNDS
    /\ outcome' = IF repaired > 0 THEN "invalid" ELSE "null"
    /\ UNCHANGED <<message, payload, round, repaired>>

Ended == outcome \notin {"new", "decoding"} /\ UNCHANGED vars

Next == Detect \/ Unwrap \/ Format \/ Repair \/ Exhaust \/ Ended

Spec == Init /\ [][Next]_vars /\ WF_vars(Next)

-----------------------------------------------------------------------------
(* Properties *)

Text == payload.text
Kept == {t.at : t \in {Text[i] : i \in {j \in DOMAIN Text : Text[j].at > 0}}}

(* What is formatted is what was written, in its order, with brackets and   *)
(* commas added and no value: and a null nobody wrote is answered only for  *)
(* a document encoded as a string as many times as there are rounds.        *)
NothingInvented ==
    /\ outcome = "formatted" =>
          /\ \A i \in DOMAIN Text : Text[i].at = 0 => Text[i].k \notin Scalars
          /\ \A i, j \in DOMAIN Text :
                i < j /\ Text[i].at > 0 /\ Text[j].at > 0 => Text[i].at < Text[j].at
    /\ outcome = "null" => message.encoded >= MAX_UNWRAP_ROUNDS

(* The body alone, as a strict JSON document cut at some place. *)
Truncated(m) ==
    /\ m.encoded = 0 /\ m.before = 0 /\ m.after = 0
    /\ LET cut == Kind(Body(m), Len(m.body)) = "cut"
           whole == IF cut THEN Front(Body(m)) ELSE Body(m)
       IN  /\ Parsed(whole).want # "dead" /\ Kind(whole, 1) \in Openers
           /\ cut => Parsed(whole).want \in {"value", "first_element", "key", "first_key"}

Salvageable(m, n) ==
    Parsed(SubSeq(Body(m), 1, n)).want \in {"more", "first_key", "first_element", "end"}

(* A payload that simply stops is formatted up to the end of its last       *)
(* complete element. Two cuts do worse: after a comma, the string before it *)
(* goes, for it could be a key; and just after a key nothing is formatted.  *)
KeepsCompleteElements ==
    Truncated(message) /\ outcome \in {"formatted", "invalid"} =>
        LET body == Body(message)
            longest == Max({n \in DOMAIN body : Salvageable(message, n)})
            stringBeforeComma == Last(body).k = "," /\ body[Len(body) - 1].k \in Strings
        IN  CASE Parsed(body).want = "colon" -> outcome = "invalid"
              [] stringBeforeComma -> outcome = "formatted" /\ Kept \subseteq 1..longest
              [] OTHER -> outcome = "formatted" /\ Kept = 1..longest

(* A word is loose unless it stands in a bracket, or between two brackets   *)
(* that a string holds or touches.                                          *)
LooseWords(m) ==
    LET written == Written(m)
        enclosed(p) == \E i, j \in DOMAIN written :
            /\ i < p /\ p < j /\ written[i].k \in Openers
            /\ written[j].k = CloserOf(written[i].k) /\ SpanEnd(written, i) >= j
        quoted(p) == \E s \in QuotesBefore(written), e \in QuotesAfter(written) :
            s < 2 * p /\ 2 * p < e
    IN  Cardinality({p \in DOMAIN written :
            written[p].k = "prose" /\ ~enclosed(p) /\ ~quoted(p)})

StartsUnclosed(m) ==
    /\ Kind(Written(m), 1) \in Openers /\ m.encoded = 0
    /\ SpanEnd(Written(m), 1) = 0

(* The scan for brackets finds a part of an encoded document: an array in   *)
(* it that closes before its first string.                                  *)
PartFound(m) ==
    /\ m.encoded > 0 /\ ~m.fenced
    /\ StructuralSpan(m) \notin {<<>>, Body(m)}

(* A question with a snippet in it goes to the graph, unless its words are  *)
(* within brackets or quoted ones, or it starts with a bracket it never     *)
(* closes.  A document in a message that asks for the conversion, encoded   *)
(* or not, is what is converted, whole and whatever is around it, unless    *)
(* the scan takes a part of it, or a string of one that is too deep is.     *)
OnlyConversionsIntercepted ==
    LET m == message
    IN  /\ ~m.asked /\ ~m.fenced /\ LooseWords(m) > BareProse
              /\ outcome \notin {"new", "retrieval"} =>
            StartsUnclosed(m)
        /\ m.asked /\ Accepts(Body(m)) /\ outcome \notin {"new", "decoding"} =>
            \/ outcome \in {"formatted", "too_deep"} /\ Text = Body(m)
            \/ outcome = "null" /\ m.encoded >= MAX_UNWRAP_ROUNDS
            \/ outcome = "formatted" /\ PartFound(m) /\ Text = StructuralSpan(m)
            \/ outcome = "formatted" /\ Depth(Body(m)) > MAX_NESTING_DEPTH
               /\ "held" \in ToSet(m.body)
=============================================================================
