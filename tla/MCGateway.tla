----------------------------- MODULE MCGateway -----------------------------
(***************************************************************************)
(* Gateway on small instances: calls of a Gateway Key and of a Session's   *)
(* key with two credentials of two providers, or the calls of one Gateway  *)
(* Key with one credential.                                                *)
(***************************************************************************)
EXTENDS Gateway, TLC

CONSTANTS c1, c2, d1, d2, k1, k2

OneEach == c1 :> k1 @@ c2 :> k2

\* Every request may be served by both credentials, in this order.
FirstThenSecond == {<<d1, d2>>}

Apart == d1 :> d1 @@ d2 :> d2

\* A call may wait for the first credential; the second one's provider lets none wait.
QueueAtFirst == d1 :> 1 @@ d2 :> 0

OneKey == c1 :> k1 @@ c2 :> k1
OnlyFirst == {<<d1>>}
Alone == d1 :> d1
NoneWaits == d1 :> 0

=============================================================================
