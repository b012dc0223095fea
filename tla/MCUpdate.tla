------------------------------ MODULE MCUpdate ------------------------------
(***************************************************************************)
(* The watch crew without an Anthropic key, over a share that costs a few  *)
(* dollars: what the fallback note of a material run says.                 *)
(***************************************************************************)
EXTENDS Crew

McLabels == OwnLabels

McSnapshots ==
  {[metrics |-> [l \in {"Price"} |-> price], accessions |-> accessions, as_of |-> 1] :
     price \in {11500, 12400}, accessions \in {<<>>, <<1>>}}

McRequests ==
  {[watch |-> <<>>, described |-> FALSE, product |-> "fundamentals", words |-> {}, pcts |-> <<>>,
    metrics |-> <<>>, proposal |-> <<>>, floor |-> floor] : floor \in {"info", "critical"}}
=============================================================================
