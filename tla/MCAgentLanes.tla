---------------------------- MODULE MCAgentLanes ----------------------------
(* A cron job and a message share a session; the two messages share the    *)
(* main lane.                                                              *)
EXTENDS AgentLanes

MCRuns == {"c1", "m1", "m2"}
MCKind == [r \in MCRuns |-> IF r = "c1" THEN "cron" ELSE "message"]
MCSessionLane == [r \in MCRuns |-> IF r = "m2" THEN "session:b" ELSE "session:a"]
MCTasks == MCRuns \X {"job", "session", "global"}
MCLanes == {"main", "cron", "nested", "subagent", "session:a", "session:b"}
MCArgs == {2}
=============================================================================
