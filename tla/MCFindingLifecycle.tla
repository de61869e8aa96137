------------------------- MODULE MCFindingLifecycle -------------------------
(* One detection, two of a context, and one of each. *)
EXTENDS FindingLifecycle

MCBatches == {<<"net">>, <<"net", "net">>, <<"exec1", "net">>}
=============================================================================
