-------------------------- MODULE MCLogisticsDesk --------------------------
(* A required document of a section everyone has, and an optional one in the   *)
(* mineral section that is evidence for a condition.                           *)
EXTENDS LogisticsDesk

CONSTANTS permit, proof, corporate, haulage, c1

MCDomainOf == [t \in Types |-> IF t = proof THEN haulage ELSE corporate]
MCLinkOf == [t \in Types |-> IF t = proof THEN c1 ELSE None]

=============================================================================
