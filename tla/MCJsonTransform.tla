--------------------------- MODULE MCJsonTransform ---------------------------
(* TLC instances of JsonTransform. *)
EXTENDS JsonTransform

Alphabet == {"{", "}", "[", "]", ",", ":", "str", "num"}
Rare == {"none", "held", "bare", "python", "nan", "single", "comment", "word"}

(* Bodies of n tokens that start with a bracket, and the same ending in a   *)
(* string that is cut.                                                      *)
Plain(n) == {<<k>> \o b : k \in Openers, b \in [1..(n - 1) -> Alphabet]}
Cut(n) == {Append(b, "cut") : b \in Plain(n - 1)}

(* Bodies of n tokens with one rare token after the first.                  *)
WithRare(n) == {[b EXCEPT ![i] = k] : b \in Plain(n), i \in 2..n, k \in Rare}

Bodies(n) == UNION {Plain(i) : i \in 1..n} \cup UNION {Cut(i) : i \in 2..n}
Odd(n) == UNION {WithRare(i) : i \in 2..n}

(* Longer ones: a container, or what is left of it, after a first key or a  *)
(* first element, and pairs after a first pair.                             *)
Nested ==
    {first \o b : first \in {<<"{", "str", ":">>, <<"[", "str", ",">>, <<"{", "str", ":", "num", ",">>},
                  b \in Bodies(4)}
        \cup {<<"{", "str", ":", "str", ",", "str">> \o b :
                  b \in {<<>>, <<":">>, <<":", "str">>, <<":", "cut">>, <<":", "str", ",">>, <<"}">>}}

(* Brackets among words and quotes: quoted ones with a question between     *)
(* them, beside strings, in a document that is too deep.                    *)
Noisy == {
    <<"held">>, <<"held", "str">>, <<"str", "held">>,
    <<"held", "prose", "prose", "held">>, <<"held", "prose", "held", "prose", "prose">>,
    <<"[", "prose", "prose", "]">>, <<"[", "num", "]", "prose", "prose", "[", "num", "]">>,
    <<"str", "[", "num", "]", "str">>, <<"str", "[", "num", "]", "held">>,
    <<"str", "[", "num", "]", "prose", "prose", "[", "num", "]", "str">>,
    <<"[", "[", "[", "[", "held", "]", "]", "]", "]">>}

(* Documents and others to be encoded.                                      *)
Encodable ==
    {b \in Bodies(4) \cup Odd(3) : Last(b) \in Closers /\ "held" \notin ToSet(b)}
    \cup {<<"{", "str", ":", "num", "}">>, <<"{", "str", ":", "[", "num", "]", "}">>,
          <<"[", "[", "num", "]", ",", "str", "]">>, <<"[", "str", ",", "[", "]", "]">>}

Message(asked, fenced, before, after, encodings, bodies) ==
    [asked : asked, fenced : fenced, before : before, after : after,
     encoded : encodings, body : bodies]

MCMessages ==
    LET short == Bodies(4) \cup Odd(3)
        closed == {b \in short : Last(b) # "cut"}
        fenced == Bodies(3) \cup Odd(3)
    IN  Message({FALSE}, {FALSE}, {0}, {0}, {0}, Bodies(5) \cup Odd(4) \cup Nested)
        \cup Message({FALSE}, {FALSE}, 0..2, {0}, {0}, short)
        \cup Message({FALSE}, {FALSE}, 0..2, 1..2, {0}, closed)
        \cup Message({TRUE}, {FALSE}, {1}, {0}, {0}, short)
        \cup Message({TRUE}, {FALSE}, 0..1, {1}, {0}, closed)
        \cup Message({FALSE}, {TRUE}, 0..1, {0}, 0..6, fenced)
        \cup Message({TRUE}, {TRUE}, {1}, {0}, {0, 1, 5}, fenced)
        \cup Message({FALSE}, {FALSE}, 0..2, 0..1, {0}, Noisy)
        \cup Message({TRUE}, {FALSE}, {1}, 0..1, {0}, Noisy)
        \cup Message({FALSE}, {FALSE}, 0..2, {0}, 1..2, Encodable)
        \cup Message({TRUE}, {FALSE}, {1}, 0..1, 1..2, Encodable)
=============================================================================
