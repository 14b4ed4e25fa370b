----------------------------- MODULE IsbnProofs -----------------------------
(***************************************************************************)
(* What the ISBN rules of isbn.go, migration 0004 and openlibrary.go have  *)
(* in common, for every text.                                              *)
(***************************************************************************)
EXTENDS Isbn, WellFoundedInduction, TLAPS

(* canonicalISBN keeps the characters and drops the spelling. *)
LEMMA CanonicalFacts ==
    ASSUME NEW t \in Texts, IsbnShape(t)
    PROVE  /\ CanonicalISBN(t) = [code |-> t.code, kind |-> t.kind,
                                  seps |-> 0, odd |-> 0, lower |-> FALSE]
           /\ CanonicalISBN(t) \in Texts
           /\ CanonicalISBN(t) # NoText
<1>1. CanonicalISBN(t) = [code |-> t.code, kind |-> t.kind,
                          seps |-> 0, odd |-> 0, lower |-> FALSE]
    BY DEF CanonicalISBN, StripISBNSeparators, Texts
<1>2. t.kind # "blank"
    BY DEF IsbnShape, ShapedKinds
<1>3. CanonicalISBN(t) \in Texts
    BY <1>1 DEF Texts
<1>4. CanonicalISBN(t).kind # NoText.kind
    BY <1>1, <1>2 DEF NoText
<1> QED
    BY <1>1, <1>3, <1>4

(* A text that canonicalISBN refuses has no ISBN shape, and the empty      *)
(* string is refused.                                                      *)
LEMMA RefusedFacts ==
    /\ \A t \in Texts : CanonicalISBN(t) = NoText <=> ~IsbnShape(t)
    /\ CanonicalISBN(NoText) = NoText
<1>1. ASSUME NEW t \in Texts PROVE CanonicalISBN(t) = NoText <=> ~IsbnShape(t)
  <2>1. CASE IsbnShape(t)
      BY <2>1, CanonicalFacts
  <2>2. CASE ~IsbnShape(t)
      BY <2>2 DEF CanonicalISBN
  <2> QED
      BY <2>1, <2>2
<1>2. CanonicalISBN(NoText) = NoText
    BY DEF CanonicalISBN, IsbnShape, ShapedKinds, NoText
<1> QED
    BY <1>1, <1>2

(* isbn.go: "Two spellings of the same ISBN would otherwise create two     *)
(* editions": texts of ISBN shape have one canonical form exactly if they  *)
(* are the same ISBN, the form is its own, and the check of migration 0004 *)
(* accepts it.                                                             *)
THEOREM CanonicalIsCanonical ==
    \A t, u \in Texts : IsbnShape(t) /\ IsbnShape(u) =>
        /\ CanonicalISBN(t) = CanonicalISBN(u) <=> t.code = u.code /\ t.kind = u.kind
        /\ CanonicalISBN(CanonicalISBN(t)) = CanonicalISBN(t)
        /\ BooksIsbnShape(CanonicalISBN(t))
<1> TAKE t, u \in Texts
<1> HAVE IsbnShape(t) /\ IsbnShape(u)
<1>1. /\ CanonicalISBN(t) = [code |-> t.code, kind |-> t.kind,
                             seps |-> 0, odd |-> 0, lower |-> FALSE]
      /\ CanonicalISBN(u) = [code |-> u.code, kind |-> u.kind,
                             seps |-> 0, odd |-> 0, lower |-> FALSE]
      /\ CanonicalISBN(t) \in Texts
    BY CanonicalFacts
<1>2. CanonicalISBN(t) = CanonicalISBN(u) <=> t.code = u.code /\ t.kind = u.kind
  <2>1. CanonicalISBN(t).code = t.code /\ CanonicalISBN(t).kind = t.kind
      BY <1>1
  <2>2. CanonicalISBN(u).code = u.code /\ CanonicalISBN(u).kind = u.kind
      BY <1>1
  <2> QED
      BY <1>1, <2>1, <2>2
<1>3. IsbnShape(CanonicalISBN(t)) /\ BooksIsbnShape(CanonicalISBN(t))
    BY <1>1 DEF IsbnShape, BooksIsbnShape
<1>4. CanonicalISBN(CanonicalISBN(t)) = CanonicalISBN(t)
  <2>1. CanonicalISBN(CanonicalISBN(t)) =
            [code |-> CanonicalISBN(t).code, kind |-> CanonicalISBN(t).kind,
             seps |-> 0, odd |-> 0, lower |-> FALSE]
      BY <1>1, <1>3, CanonicalFacts
  <2> QED
      BY <1>1, <2>1
<1> QED
    BY <1>2, <1>3, <1>4

-----------------------------------------------------------------------------
(* pickISBN *)

(* A set of natural numbers that is not empty has a least member, which is *)
(* what Min picks.                                                         *)
LEMMA LeastNumber ==
    ASSUME NEW T \in SUBSET Nat, T # {}
    PROVE  Min(T) \in T /\ \A y \in T : Min(T) <= y
<1> DEFINE R == {ss \in Nat \X Nat : ss[1] < ss[2]}
<1>1. IsWellFoundedOn(R, Nat)
    BY NatLessThanWellFounded DEF OpToRel
<1>2. PICK x \in T : \A y \in T : ~(<<y, x>> \in R)
    BY <1>1, WFMin
<1>3. \A y \in T : x <= y
  <2> TAKE y \in T
  <2>1. x \in Nat /\ y \in Nat /\ (<<y, x>> \in R <=> y < x)
      OBVIOUS
  <2> HIDE DEF R
  <2> QED
      BY <1>2, <2>1
<1> QED
    BY <1>3 DEF Min

(* What every suggestion looks like: no hyphens or spaces, upper case, of  *)
(* one of the lengths that pickISBN takes, and if it is an ISBN no other   *)
(* separator either.                                                       *)
Clean(t) ==
    /\ t \in Texts
    /\ t.seps = 0 /\ ~t.lower
    /\ t.kind \in {"ean13", "isbn10", "ten"}
    /\ t.kind # "ten" => t.odd = 0

(* pickISBN answers with a clean text or with the empty string. *)
LEMMA PickFacts ==
    ASSUME NEW candidates \in Seq(Texts)
    PROVE  PickISBN(candidates) = NoText \/ Clean(PickISBN(candidates))
<1>1. ASSUME NEW t \in Texts, IsIsbn13(t) \/ IsTenLong(t)
      PROVE  Clean(Replaced(t))
  <2>1. Replaced(t) = [code |-> t.code, kind |-> t.kind, seps |-> 0,
                       odd |-> t.odd, lower |-> FALSE]
    <3> DEFINE bare == [t EXCEPT !.seps = 0]
    <3>1. t = [code |-> t.code, kind |-> t.kind, seps |-> t.seps,
               odd |-> t.odd, lower |-> t.lower]
        BY DEF Texts
    <3>2. bare = [code |-> t.code, kind |-> t.kind, seps |-> 0,
                  odd |-> t.odd, lower |-> t.lower]
        BY <3>1
    <3>3. Replaced(t) = [bare EXCEPT !.lower = FALSE]
        BY Zenon DEF Replaced
    <3> HIDE DEF bare
    <3> QED
        BY <3>2, <3>3
  <2>2. t.kind \in {"ean13", "isbn10", "ten"} /\ (t.kind # "ten" => t.odd = 0)
      BY <1>1 DEF IsIsbn13, IsTenLong
  <2> QED
      BY <2>1, <2>2 DEF Clean, Texts
<1>2. /\ ThirteensOf(candidates) \in SUBSET Nat
      /\ TensOf(candidates) \in SUBSET Nat
    BY DEF ThirteensOf, TensOf
<1>3. CASE ThirteensOf(candidates) # {}
  <2> DEFINE t == candidates[Min(ThirteensOf(candidates))]
  <2>1. Min(ThirteensOf(candidates)) \in ThirteensOf(candidates)
      BY <1>2, <1>3, LeastNumber
  <2>2. t \in Texts /\ IsIsbn13(t)
      BY <2>1 DEF ThirteensOf
  <2>3. PickISBN(candidates) = Replaced(t)
      BY <1>3 DEF PickISBN
  <2> QED
      BY <1>1, <2>2, <2>3
<1>4. CASE ThirteensOf(candidates) = {} /\ TensOf(candidates) # {}
  <2> DEFINE t == candidates[Min(TensOf(candidates))]
  <2>1. Min(TensOf(candidates)) \in TensOf(candidates)
      BY <1>2, <1>4, LeastNumber
  <2>2. t \in Texts /\ IsTenLong(t)
      BY <2>1 DEF TensOf
  <2>3. PickISBN(candidates) = Replaced(t)
      BY <1>4 DEF PickISBN
  <2> QED
      BY <1>1, <2>2, <2>3
<1>5. CASE ThirteensOf(candidates) = {} /\ TensOf(candidates) = {}
    BY <1>5 DEF PickISBN
<1> QED
    BY <1>3, <1>4, <1>5

(* What pickISBN answers with is of the kind of a text of its list. *)
LEMMA PickKind ==
    ASSUME NEW candidates \in Seq(Texts), PickISBN(candidates) # NoText
    PROVE  \E k \in DOMAIN candidates : PickISBN(candidates).kind = candidates[k].kind
<1>1. \A t \in Texts : Replaced(t).kind = t.kind
    BY DEF Replaced, Texts
<1>2. /\ ThirteensOf(candidates) \in SUBSET Nat
      /\ TensOf(candidates) \in SUBSET Nat
    BY DEF ThirteensOf, TensOf
<1>3. PICK k : k \in DOMAIN candidates /\ PickISBN(candidates) = Replaced(candidates[k])
  <2>1. CASE ThirteensOf(candidates) # {}
    <3>1. Min(ThirteensOf(candidates)) \in DOMAIN candidates
        BY <1>2, <2>1, LeastNumber DEF ThirteensOf
    <3>2. PickISBN(candidates) = Replaced(candidates[Min(ThirteensOf(candidates))])
        BY <2>1 DEF PickISBN
    <3> QED
        BY <3>1, <3>2
  <2>2. CASE ThirteensOf(candidates) = {} /\ TensOf(candidates) # {}
    <3>1. Min(TensOf(candidates)) \in DOMAIN candidates
        BY <1>2, <2>2, LeastNumber DEF TensOf
    <3>2. PickISBN(candidates) = Replaced(candidates[Min(TensOf(candidates))])
        BY <2>2 DEF PickISBN
    <3> QED
        BY <3>1, <3>2
  <2>3. CASE ThirteensOf(candidates) = {} /\ TensOf(candidates) = {}
      BY <2>3 DEF PickISBN
  <2> QED
      BY <2>1, <2>2, <2>3
<1>4. candidates[k] \in Texts
    BY <1>3
<1> QED
    BY <1>1, <1>3, <1>4

(* A clean text of ISBN shape is accepted. *)
LEMMA CleanIsAccepted ==
    ASSUME NEW t, Clean(t), t.kind # "ten"
    PROVE  InputISBN(t) # NoText
<1>1. t \in Texts /\ t.kind \in {"ean13", "isbn10"} /\ t.seps = 0 /\ t.odd = 0
    BY DEF Clean
<1>2. CASE t.kind = "ean13"
  <2>1. LengthOf(t) = 13
      BY <1>1, <1>2 DEF LengthOf
  <2> QED
      BY <1>1, <1>2, <2>1, CanonicalFacts DEF InputISBN, SchemaAccepts, IsbnShape, ShapedKinds
<1>3. CASE t.kind = "isbn10"
  <2>1. LengthOf(t) = 10
      BY <1>1, <1>3 DEF LengthOf
  <2> QED
      BY <1>1, <1>3, <2>1, CanonicalFacts DEF InputISBN, SchemaAccepts, IsbnShape, ShapedKinds
<1> QED
    BY <1>1, <1>2, <1>3

(* A clean text that POST /books accepts is stored as it is, and migration *)
(* 0004 accepts it too.                                                    *)
LEMMA CleanIsStored ==
    ASSUME NEW t, Clean(t), InputISBN(t) # NoText
    PROVE  InputISBN(t) = t /\ BooksIsbnShape(InputISBN(t))
<1>1. t \in Texts /\ InputISBN(t) = CanonicalISBN(t)
    BY DEF Clean, InputISBN
<1>2. IsbnShape(t)
    BY <1>1, RefusedFacts
<1>3. CanonicalISBN(t) = [code |-> t.code, kind |-> t.kind,
                          seps |-> 0, odd |-> 0, lower |-> FALSE]
    BY <1>1, <1>2, CanonicalFacts
<1>4. CanonicalISBN(t) = t
  <2>1. t = [code |-> t.code, kind |-> t.kind,
             seps |-> t.seps, odd |-> t.odd, lower |-> t.lower]
      BY <1>1 DEF Texts
  <2>2. t.lower \in BOOLEAN
      BY <1>1 DEF Texts
  <2>3. t.seps = 0 /\ t.odd = 0 /\ t.lower = FALSE
      BY <1>2, <2>2 DEF Clean, IsbnShape, ShapedKinds
  <2> QED
      BY <1>3, <2>1, <2>3
<1> QED
    BY <1>1, <1>2, <1>4 DEF BooksIsbnShape, Clean, IsbnShape, ShapedKinds
=============================================================================
