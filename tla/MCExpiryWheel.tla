--------------------------- MODULE MCExpiryWheel ---------------------------
(* Five generations in two minutes; two of them are never due.             *)
EXTENDS ExpiryWheel

Generation(item, at) == [item |-> item, valueVersion |-> item, expireAt |-> at]

MCEntry == {Generation(1, 1), Generation(2, 3), Generation(3, 4),
            Generation(4, 5), Generation(5, 5)}
=============================================================================
