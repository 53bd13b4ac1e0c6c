----------------------------- MODULE MCService -----------------------------
(***************************************************************************)
(* Module Service for TLC: a configuration file that is absent, sets a     *)
(* socket, or cannot be used.                                              *)
(***************************************************************************)
EXTENDS Service

MCConfigurations ==
  {[state |-> "absent", keys |-> << >>], [state |-> "bad", keys |-> << >>],
   [state |-> "present", keys |-> [socket |-> ""]],
   [state |-> "present", keys |-> [socket |-> "c"]]}

=============================================================================
