---------------------------- MODULE MCRecordings ----------------------------
\* Values of Shapes and Views: two hosts of one domain, one filter and one scope.
EXTENDS Recordings

TwoShapes == {[category |-> "GET",   host |-> "a", domain |-> "d", known |-> TRUE],
              [category |-> "OTHER", host |-> "b", domain |-> "d", known |-> FALSE]}

OneView == {[filter |-> "GET", by |-> "host", name |-> "a"]}

=============================================================================
