--------------------------- MODULE PipelineStatus ---------------------------
(***************************************************************************)
(* The status vocabulary of a Dark Factory pipeline and the transition     *)
(* relation every storage backend enforces                                 *)
(* (src/src/darkfactory/safetyController.ts).                              *)
(***************************************************************************)

Status == {"PENDING", "RUNNING", "PAUSED", "ABORTED", "COMPLETED", "FAILED"}

LegalTransitions ==
  [ PENDING   |-> {"RUNNING", "ABORTED"},
    RUNNING   |-> {"RUNNING", "PAUSED", "ABORTED", "COMPLETED", "FAILED"},
    PAUSED    |-> {"RUNNING", "ABORTED"},
    ABORTED   |-> {},
    COMPLETED |-> {},
    FAILED    |-> {"RUNNING"} ]

ValidTransition(from, to) == to \in LegalTransitions[from]

\* The statuses no save may leave: the guard savePipeline tests before the
\* transition table, and again in its WHERE clause.
Sealed == {"ABORTED", "COMPLETED"}

\* The statuses the abort handlers and the dashboard treat as final.
Finished == {"ABORTED", "COMPLETED", "FAILED"}
=============================================================================
