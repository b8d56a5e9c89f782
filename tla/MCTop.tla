-------------------------------- MODULE MCTop --------------------------------
(* TopRequests on small instances; the configuration gives every constant. *)
EXTENDS TopRequests

==============================================================================
