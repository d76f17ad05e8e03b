---------------------------- MODULE MCResultList ----------------------------
(* Instances of ResultList for TLC. *)
EXTENDS ResultList

OneAscending == { <<FALSE>> }
OneOrTwoTerms == { <<FALSE>>, <<TRUE>>, <<FALSE, TRUE>> }

TwoKeys == {0, Null}
WithNan == {1, 2, Nan}
=============================================================================
