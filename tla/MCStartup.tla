------------------------------ MODULE MCStartup ------------------------------
(* Startup on a small instance. *)
EXTENDS Startup, TLC

CONSTANTS c1, u1

Text(k, seps, odd) == [code |-> c1, kind |-> k, seps |-> seps, odd |-> odd, lower |-> FALSE]

(* Ghosts, the hyphenated ISBN printed on the book, and a pasted no-break    *)
(* space, which the check of 0004 does not strip.                            *)
OldTexts == {NoText, Text("ean13", 4, 0), Text("isbn10", 0, 1)}

(* A scan, a paste, and something that is no ISBN. *)
SomeInputs == {Text("ean13", 0, 0), Text("isbn10", 0, 1), Text("ten", 0, 0)}

Oidc(audience, group) == [disabled |-> FALSE, issuer |-> TRUE, audience |-> audience, group |-> group]
SomeEnvs ==
    {Oidc(TRUE, TRUE), Oidc(TRUE, FALSE), Oidc(FALSE, TRUE),
     [disabled |-> TRUE, issuer |-> FALSE, audience |-> FALSE, group |-> FALSE],
     [disabled |-> FALSE, issuer |-> FALSE, audience |-> TRUE, group |-> TRUE]}

Token(bearer, valid, sub, member) ==
    [bearer |-> bearer, valid |-> valid, sub |-> sub, member |-> member]
SomeTokens ==
    {Token(FALSE, TRUE, u1, TRUE), Token(TRUE, FALSE, u1, TRUE), Token(TRUE, TRUE, u1, FALSE),
     Token(TRUE, TRUE, u1, TRUE), Token(TRUE, TRUE, NoOwner, TRUE)}
=============================================================================
