-------------------------- MODULE MCSearchEndpoint --------------------------
(* SearchEndpoint on small instances. *)
EXTENDS SearchEndpoint, TLC

CONSTANTS c1, c2

Text(c, k, n, lower) == [code |-> c, kind |-> k, seps |-> n, odd |-> 0, lower |-> lower]

(* Two searches that fold to one key, the same words with another limit, and *)
(* other words.                                                              *)
SomeQueries ==
    {[words |-> "taupe", spelling |-> "la taupe", limit |-> 1],
     [words |-> "taupe", spelling |-> "La  Taupe", limit |-> 1],
     [words |-> "taupe", spelling |-> "la taupe", limit |-> 2],
     [words |-> "", spelling |-> "   ", limit |-> 1]}

(* Works with an ISBN-10 before the ISBN-13, with an ISBN-10 only, and with *)
(* no usable ISBN.                                                          *)
BothLengths == <<Text(c1, "isbn10", 3, FALSE), Text(c2, "ean13", 4, FALSE)>>
TenOnly     == <<Text(c2, "other", 0, FALSE), Text(c1, "isbn10", 0, TRUE)>>
Unusable    == <<Text(c1, "other", 0, FALSE)>>
SomeAnswers == {<<BothLengths>>, <<Unusable>>, <<TenOnly, BothLengths>>}

(* Works whose ISBN list holds ten bytes that are no ISBN: ten other      *)
(* characters, and nine characters with a tab.                            *)
TenCharacters == <<Text(c1, "ten", 0, FALSE)>>
NineAndTab    == <<[Text(c2, "ten", 1, FALSE) EXCEPT !.odd = 1]>>
OddAnswers == {<<TenCharacters>>, <<NineAndTab>>, <<BothLengths>>}

Interchangeable == Permutations(Searches)
=============================================================================
