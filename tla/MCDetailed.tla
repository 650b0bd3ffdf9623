----------------------------- MODULE MCDetailed -----------------------------
(***************************************************************************)
(* The instances of Detailed that TLC checks.                              *)
(***************************************************************************)
EXTENDS Detailed

Documented == AllRules

NoFaults == {}

\* An application as protected as it can be, with flags of its own.
Plain == [version |-> "old", ha |-> TRUE, pitr |-> TRUE,
          flags |-> [f \in {"max_connections"} |-> "on"]]

Protected == {Plain}

\* Applications that name their instance, without cascading delete; MCDocumented has all.
CautiousInit == DetailInit /\ named /\ ~cascade
CautiousSpec == CautiousInit /\ [][DetailNext]_detailedVars /\ Fairness

TwoAddresses == <<"first", "last">>
=============================================================================
