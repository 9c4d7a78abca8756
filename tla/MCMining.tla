------------------------------ MODULE MCMining ------------------------------
(* One site, one application and two reviewers of the mining desk; two       *)
(* sections' marks and one critical finding of a site; one listing of the    *)
(* marketplace with one order and two payment events; and the file of        *)
(* MCLogisticsDesk.  They share no state: a behaviour is one of the chosen   *)
(* part.                                                                     *)
EXTENDS MiningDesk, MiningScore, Marketplace, MCLogisticsDesk

VARIABLE part

extractionVars == <<part, miningVars, scoreVars, marketVars, vars>>

ExtractionInit ==
  /\ part \in {"desk", "score", "market", "logistics"}
  /\ MiningInit /\ ScoreInit /\ MarketInit
  /\ Init
  /\ part # "logistics" => ~mineral /\ account /\ restricted = {}

ExtractionNext ==
  /\ UNCHANGED part
  /\ \/ part = "desk" /\ MiningNext /\ UNCHANGED <<scoreVars, marketVars, vars>>
     \/ part = "score" /\ ScoreNext /\ UNCHANGED <<miningVars, marketVars, vars>>
     \/ part = "market" /\ MarketNext /\ UNCHANGED <<miningVars, scoreVars, vars>>
     \/ part = "logistics" /\ Next
        /\ UNCHANGED <<miningVars, scoreVars, marketVars>>

ExtractionSpec == ExtractionInit /\ [][ExtractionNext]_extractionVars

\* The marketplace's payment events are interchangeable: the first on its way
\* is v1.
CONSTANT v1
FirstEvent ==
  (\E e \in Events : delivery[e] # NoOrder \/ event[e] # NoOrder) =>
    delivery[v1] # NoOrder \/ event[v1] # NoOrder

\* The types of the mining desk's parts.
MiningTypes == (part = "desk" => MiningTypeOK) /\ (part = "score" => ScoreTypeOK)

\* What a site's reviewers and its score hold to from step to step: ClaimsHold
\* of the desk's claims, ScoringHolds of the sections' marks.
SiteReviewsHold == ClaimsHold /\ ScoringHolds
=============================================================================
