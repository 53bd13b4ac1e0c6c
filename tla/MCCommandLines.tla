--------------------------- MODULE MCCommandLines ---------------------------
(***************************************************************************)
(* Module CommandLines for TLC: a file that an option may name, the        *)
(* default file, which it may name too, and a value that starts with a     *)
(* dash.                                                                   *)
(***************************************************************************)
EXTENDS CommandLines

MCPaths == {"a", "-h", DEFAULT_PATH}

MCContents ==
  {[state |-> "absent", keys |-> << >>], [state |-> "bad", keys |-> << >>]}
  \cup {[state |-> "present", keys |-> keys] : keys \in
          {<< >>, [socket |-> ""], [socket |-> "c", reconcile |-> 5],
           [socket |-> "", priority |-> 0], [reconcile |-> 0]}}

=============================================================================
