------------------------------ MODULE JsonText ------------------------------
(***************************************************************************)
(* A JSON text as the sequence of its tokens, the strict parser that       *)
(* json_transform.py calls (json.loads), and the repairs of _repair.       *)
(*                                                                         *)
(* A token is a record of its kind and of its place in the message; a      *)
(* token a repair adds has place 0.  The kinds:                            *)
(*   { } [ ] , :                                                           *)
(*   str     a string whose text no repair touches                         *)
(*   none    a string whose text contains the word None                    *)
(*   held    a string whose text is in square brackets and no document     *)
(*   num     a number               word    true, false or null            *)
(*   bare    another name           python  None, True or False            *)
(*   nan     NaN or Infinity        single  a single-quoted string         *)
(*   comment a comment              cut     a string the text ends in      *)
(*   altered a string whose text a repair rewrote                          *)
(*   prose   a word                opaque  text that no repair makes JSON  *)
(***************************************************************************)
EXTENDS Naturals, Sequences, FiniteSetsExt, SequencesExt

Strings == {"str", "none", "held", "altered"}
Scalars == Strings \cup {"num", "word"}
Openers == {"{", "["}
Closers == {"}", "]"}

CloserOf(opener) == IF opener = "{" THEN "}" ELSE "]"
Added(k) == [k |-> k, at |-> 0]
Kind(text, i) == IF i \in DOMAIN text THEN text[i].k ELSE ""

-----------------------------------------------------------------------------
(* json.loads: the containers still open and what may come next. *)

Beginning == [open |-> <<>>, want |-> "value"]
AfterValue(open) == [open |-> open, want |-> IF open = <<>> THEN "end" ELSE "more"]

Read(state, k, scalars) ==
    LET open == state.open
        want == state.want
    IN  CASE want \in {"value", "first_element"} /\ k \in scalars -> AfterValue(open)
          [] want \in {"value", "first_element"} /\ k \in Openers ->
                [open |-> Append(open, k),
                 want |-> IF k = "{" THEN "first_key" ELSE "first_element"]
          [] want \in {"key", "first_key"} /\ k \in Strings -> [state EXCEPT !.want = "colon"]
          [] want = "colon" /\ k = ":" -> [state EXCEPT !.want = "value"]
          [] want = "more" /\ k = "," ->
                [state EXCEPT !.want = IF Last(open) = "{" THEN "key" ELSE "value"]
          [] want \in {"more", "first_key", "first_element"} /\ k = CloserOf(Last(open)) ->
                AfterValue(Front(open))
          [] OTHER -> [state EXCEPT !.want = "dead"]

Parsed(text) == FoldLeft(LAMBDA s, t : Read(s, t.k, Scalars), Beginning, text)
ParsedLoosely(text) ==
    FoldLeft(LAMBDA s, t : Read(s, t.k, Scalars \cup {"nan"}), Beginning, text)

Accepts(text) == Parsed(text).want = "end"

(* _is_json_document: parsed without the rejection of NaN. *)
IsDocument(text) ==
    /\ Kind(text, 1) \in Openers \cup Strings
    /\ ParsedLoosely(text).want = "end"

(* _depth of a value, from its text: a scalar is one below its container. *)
Depth(text) ==
    LET nest[i \in 0..Len(text)] ==
            IF i = 0 THEN 0
            ELSE CASE Kind(text, i) \in Openers -> nest[i - 1] + 1
                   [] Kind(text, i) \in Closers -> nest[i - 1] - 1
                   [] OTHER -> nest[i - 1]
    IN  Max({nest[i] + (IF Kind(text, i) \in Scalars THEN 1 ELSE 0) : i \in DOMAIN text})

-----------------------------------------------------------------------------
(* The steps of _repair, in their order. *)

StripComments(text) == SelectSeq(text, LAMBDA t : t.k # "comment")

Rekind(text, from, to) == [i \in DOMAIN text |->
    IF text[i].k = from THEN [text[i] EXCEPT !.k = to] ELSE text[i]]

(* The expression also matches inside the strings. *)
PythonLiterals(text) == Rekind(Rekind(text, "python", "word"), "none", "altered")

NonFiniteNumbers(text) == Rekind(text, "nan", "word")

SingleQuotes(text) == Rekind(text, "single", "str")

UnquotedKeys(text) == [i \in DOMAIN text |->
    IF text[i].k \in {"bare", "word"} /\ Kind(text, i - 1) \in {"{", ","} /\ Kind(text, i + 1) = ":"
    THEN [text[i] EXCEPT !.k = "str"] ELSE text[i]]

TrailingCommas(text) ==
    LET kept == SelectSeq([i \in DOMAIN text |-> i],
                          LAMBDA i : ~(Kind(text, i) = "," /\ Kind(text, i + 1) \in Closers))
    IN  [j \in DOMAIN kept |-> text[kept[j]]]

(* _wrap_concatenated_objects; behind a string that is cut, the closing     *)
(* bracket becomes part of the string.                                      *)
Concatenated(text) ==
    LET seam(i) == Kind(text, i) = "}" /\ Kind(text, i + 1) = "{"
        part[i \in 0..Len(text)] ==
            IF i = 0 THEN <<Added("[")>>
            ELSE part[i - 1] \o (IF seam(i) THEN <<text[i], Added(",")>> ELSE <<text[i]>>)
        close == IF Last(text).k = "cut" THEN <<>> ELSE <<Added("]")>>
    IN  IF \E i \in DOMAIN text : seam(i) THEN part[Len(text)] \o close ELSE text

-----------------------------------------------------------------------------
(* _complete_truncated *)

(* By container still open: its opener, and how many tokens are safe. *)
MarkSafe(stack, n) ==
    IF stack = <<>> THEN stack ELSE [stack EXCEPT ![Len(stack)].safe = n]

ScanToken(stack, k, i) ==
    CASE k \in Openers -> Append(stack, [opener |-> k, safe |-> i])
      [] k \in Closers -> MarkSafe(IF stack = <<>> THEN stack ELSE Front(stack), i)
      [] k = "," -> MarkSafe(stack, i - 1)
      [] k \in Strings /\ stack # <<>> /\ Last(stack).opener = "[" -> MarkSafe(stack, i)
      [] OTHER -> stack

OpenAtEnd(text) ==
    LET scan[i \in 0..Len(text)] ==
            IF i = 0 THEN <<>> ELSE ScanToken(scan[i - 1], Kind(text, i), i)
    IN  scan[Len(text)]

(* The head without the commas and colons it ends in; a string before one   *)
(* of them is taken for a key without its value, and goes too.              *)
Trimmed(text, length) ==
    LET beforeCommas[n \in 0..length] ==
            IF n > 0 /\ Kind(text, n) = "," THEN beforeCommas[n - 1] ELSE n
        trim[n \in 0..length] ==
            CASE Kind(text, n) \notin {",", ":"} -> n
              [] Kind(text, n) \in {",", ":"} /\ Kind(text, n - 1) \in Strings ->
                    trim[beforeCommas[n - 2]]
              [] OTHER -> trim[n - 1]
    IN  trim[length]

CompleteTruncated_Whole(text) ==
    LET open == OpenAtEnd(text)
    IN  text \o [i \in DOMAIN open |-> Added(CloserOf(Reverse(open)[i].opener))]

CompleteTruncated_Fills(text) ==
    LET open == OpenAtEnd(text)
    IN  text \o (IF Last(text).k = ":" THEN <<Added("word")>> ELSE <<>>)
             \o [i \in DOMAIN open |-> Added(CloserOf(Reverse(open)[i].opener))]

CompleteTruncated(text) ==
    LET open == OpenAtEnd(text)
        cut == Kind(text, Len(text)) = "cut"
        length == IF cut THEN Last(open).safe ELSE Len(text)
    IN  IF open = <<>> THEN Rekind(text, "cut", "str")
        ELSE SubSeq(text, 1, Trimmed(text, length))
             \o [i \in DOMAIN open |-> Added(CloserOf(Reverse(open)[i].opener))]

-----------------------------------------------------------------------------
Repaired(text) ==
    CompleteTruncated(Concatenated(TrailingCommas(UnquotedKeys(SingleQuotes(
        NonFiniteNumbers(PythonLiterals(StripComments(text))))))))
=============================================================================
