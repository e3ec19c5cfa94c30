----------------------------- MODULE MCServices -----------------------------
(* A small instance of Services for TLC: two services, answers for both    *)
(* and for a service nobody asked for, two instances.                      *)
EXTENDS Services

MCDesc == {[instance |-> <<"gu-provider">>, service |-> <<"_http", "_tcp">>],
           [instance |-> <<"gu-hub">>, service |-> <<"_http", "_tcp">>]}

MCAnswer == {<<"gu-provider", "_http", "_tcp", "local">>,
             <<"gu-hub", "_http", "_tcp", "local">>,
             <<"printer", "_ipp", "_tcp", "local">>}
=============================================================================
