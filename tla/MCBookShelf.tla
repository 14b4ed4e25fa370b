---------------------------- MODULE MCBookShelf ----------------------------
(* BookShelf on small instances. *)
EXTENDS BookShelf, TLC

(* PATCH requests that give one field. *)
OneField ==
    {p \in [isbn : Isbns \cup {Unset}, title : Titles \cup {Unset}, notes : Notes \cup {Unset}] :
        Cardinality({f \in DOMAIN p : p[f] # Unset}) = 1}

(* Those that can change what a book shows of its edition: its title, or    *)
(* the ISBN, to the second one.                                              *)
EditionFields == {p \in OneField : p.notes = Unset /\ p.isbn # 1}

(* Request goroutines and users are interchangeable. *)
Interchangeable == Permutations(Handlers) \cup Permutations(Users)
=============================================================================
