---------------------------- MODULE MCMessageRouter ----------------------------
(* Values of the constants for TLC. *)
EXTENDS MessageRouter, TLC

Team == {"create", "worktree", "pm", "mirror", "delete"}

MCOps ==
  [send |-> {"worktree", "resume", "rename", "delete", "exit", "close", "sync"},
   worker |-> (Team \ {"create"}) \cup {"resume"}, pm |-> Team, local |-> Team,
   resume |-> {"worktree", "reuse", "rename", "mirror", "delete"}]

Symmetry == Permutations(Ids) \cup Permutations(Requests)
=============================================================================
