---------------------------- MODULE MCSourceFetch ----------------------------
(* Instances of SourceFetch: pages with an article of each fate.              *)
EXTENDS SourceFetch

Good == [link |-> TRUE, name |-> TRUE, href |-> "good", price |-> "good"]

MCPage == {[articles |-> <<>>, next |-> "none"],
           [articles |-> <<Good>>, next |-> "good"],
           [articles |-> <<Good, [Good EXCEPT !.price = "negative"]>>, next |-> "none"],
           [articles |-> <<[Good EXCEPT !.name = FALSE], [Good EXCEPT !.href = "broken"]>>,
            next |-> "broken"]}
=============================================================================
