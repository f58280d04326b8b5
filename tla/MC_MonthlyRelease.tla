-------------------------- MODULE MC_MonthlyRelease --------------------------
(* The graph of the run of MonthlyRelease: a release with its main artist,   *)
(* and one that has credits alone, as has the artist they name.              *)
EXTENDS MonthlyRelease

TwoRelations == <<"by_artist", "credited_on">>

Released == {[relation |-> "by_artist", source |-> "r1", target |-> "a1"]}
Credited == {[relation |-> "credited_on", source |-> "r2", target |-> "a2"]}
Catalog == Released \cup Credited
=============================================================================
