---------------------------- MODULE RunLifecycle ----------------------------
(***************************************************************************)
(* The transition policy of RunLifecycle.ts: which status changes of runs, *)
(* run attempts and execution nodes EventSink lets a commit make.          *)
(***************************************************************************)

LifecycleEntityKind == {"run", "run-attempt", "node"}

TerminalLifecycleStatuses ==
    [run |-> {"completed", "interrupted", "failed", "cancelled", "rolled_back"},
     attempt |-> {"completed", "interrupted", "failed", "cancelled", "superseded"}]

IsTerminalLifecycleStatus(kind, status) ==
    status \in IF kind = "run-attempt" THEN TerminalLifecycleStatuses.attempt
                                       ELSE TerminalLifecycleStatuses.run

ReopenableNodeKinds == {"subagent", "root_turn"}

\* from is "unknown" for an entity the projection has no row of; nodeKind only
\* matters for nodes.
LegalLifecycleTransition(kind, from, to, nodeKind) ==
    \/ from = "unknown"
    \/ from = to
    \/ ~IsTerminalLifecycleStatus(kind, from)
    \/ kind = "run" /\ from = "completed" /\ to = "rolled_back"
    \/ kind = "node" /\ (to = "rolled_back" \/ nodeKind \in ReopenableNodeKinds)
=============================================================================
