-------------------------------- MODULE Isbn --------------------------------
(***************************************************************************)
(* ISBNs as text: canonicalISBN of internal/books/isbn.go, pickISBN of     *)
(* internal/enrich/openlibrary.go and the check of migration 0004, which   *)
(* each strip separators and test the shape in a way of their own.         *)
(*                                                                         *)
(* A text is what is left once every separator is gone (`code`, of the     *)
(* shape `kind`) and how it is spelled: `seps` hyphens and spaces, `odd`   *)
(* tabs and no-break spaces, a check character x in lower case.  Nine      *)
(* digits and a tab are no ISBN and ten bytes: kind "ten", odd 1.          *)
(***************************************************************************)
EXTENDS Naturals, Sequences, FiniteSetsExt

CONSTANT Codes      \* the characters of a text without separators and case

ShapedKinds ==
    {"ean13",       \* 13 digits beginning 978 or 979
     "digits13",    \* 13 other digits
     "isbn10"}      \* 9 digits and a digit or X

Kinds == ShapedKinds \cup
    {"ten",         \* no ISBN, but 10 bytes for pickISBN, which keeps tabs and such
     "blank",       \* nothing, or nothing but separators
     "other"}       \* anything else

Texts == [code : Codes, kind : Kinds, seps : Nat, odd : Nat, lower : BOOLEAN]

(* The empty string, which Go returns for no ISBN. *)
NoText == [code |-> "", kind |-> "blank", seps |-> 0, odd |-> 0, lower |-> FALSE]

-----------------------------------------------------------------------------
(* isbn.go *)

(* isbnShape, on a text without separators. *)
IsbnShape(t) == t.kind \in ShapedKinds

(* Faulty variant: no-break spaces and tabs from a paste are kept. *)
StripISBNSeparatorsAscii(t) == [t EXCEPT !.seps = 0]

StripISBNSeparators(t) == [t EXCEPT !.seps = 0, !.odd = 0]

(* canonicalISBN; NoText stands for ErrInvalidISBN. *)
CanonicalISBN(t) ==
    IF IsbnShape(t) THEN [StripISBNSeparators(t) EXCEPT !.lower = FALSE] ELSE NoText

(* The minLength and maxLength of the request bodies, which huma enforces  *)
(* before a handler runs.  The tabs of a "ten" are among its ten; the      *)
(* length of an "other" is any, and canonicalISBN refuses it afterwards.   *)
LengthOf(t) ==
    (CASE t.kind \in {"ean13", "digits13"} -> 13 + t.odd
       [] t.kind = "isbn10" -> 10 + t.odd
       [] t.kind = "blank" -> t.odd
       [] OTHER -> 10) + t.seps
SchemaAccepts(t) == LengthOf(t) \in 10..17

(* What POST /books makes of a text. *)
InputISBN(t) == IF SchemaAccepts(t) THEN CanonicalISBN(t) ELSE NoText

-----------------------------------------------------------------------------
(* Migration 0004 *)

(* btrim(isbn) = '': only spaces, or nothing. *)
Ghost(t) == t.kind = "blank" /\ t.odd = 0

(* Faulty variant: the check is made on the text as it is. *)
BooksIsbnShapeUnstripped(t) == IsbnShape(t) /\ t.seps = 0 /\ t.odd = 0

(* books_isbn_shape: only hyphens and spaces are stripped. *)
BooksIsbnShape(t) == IsbnShape(t) /\ t.odd = 0

-----------------------------------------------------------------------------
(* openlibrary.go *)

(* The replacer and ToUpper of pickISBN: hyphens and spaces only. *)
Replaced(t) == [t EXCEPT !.seps = 0, !.lower = FALSE]

IsIsbn13(t)  == t.kind = "ean13" /\ t.odd = 0

(* len(isbn) == 10: ten bytes, of whatever characters. *)
IsTenLong(t) == t.kind = "ten" \/ (t.kind = "isbn10" /\ t.odd = 0)

(* Where a work lists them. *)
ThirteensOf(candidates) == {k \in DOMAIN candidates : IsIsbn13(candidates[k])}
TensOf(candidates)      == {k \in DOMAIN candidates : IsTenLong(candidates[k])}

(* Faulty variant: the candidate is returned as it was written. *)
PickISBNRaw(candidates) ==
    CASE ThirteensOf(candidates) # {} -> candidates[Min(ThirteensOf(candidates))]
      [] ThirteensOf(candidates) = {} /\ TensOf(candidates) # {} ->
            candidates[Min(TensOf(candidates))]
      [] OTHER -> NoText

(* pickISBN: the first ISBN-13, else the first ten bytes. *)
PickISBN(candidates) ==
    CASE ThirteensOf(candidates) # {} ->
            Replaced(candidates[Min(ThirteensOf(candidates))])
      [] ThirteensOf(candidates) = {} /\ TensOf(candidates) # {} ->
            Replaced(candidates[Min(TensOf(candidates))])
      [] OTHER -> NoText
=============================================================================
