----------------------------- MODULE MCFollowUps ------------------------------
(* Instances of FollowUps for TLC. *)
EXTENDS FollowUps

CONSTANTS a1, a2, a3

\* The companies "s", the long s (U+017F) and "t": the first two fold alike, and by
\* their lower-case forms t lies between them.
Companies ==
  [a \in Application |-> CASE a = a1 -> [exact |-> 1, lower |-> 1, fold |-> 1]
                          [] a = a2 -> [exact |-> 3, lower |-> 3, fold |-> 1]
                          [] OTHER  -> [exact |-> 2, lower |-> 2, fold |-> 2]]

\* The second company's role comes first.
Roles ==
  [a \in Application |-> IF a = a2 THEN [exact |-> 1, lower |-> 1, fold |-> 1]
                                   ELSE [exact |-> 2, lower |-> 2, fold |-> 2]]

\* The second application is only an offer, and the third has two priorities.
StatusesTried ==
  [a \in Application |-> IF a = a2 THEN {"offer"} ELSE {"offer", "archived"}]

PrioritiesTried == [a \in Application |-> IF a = a3 THEN {"high", "low"} ELSE {"low"}]
===============================================================================
