-------------------------- MODULE MCFollowupQueue --------------------------
(* Three messages, two of them for one destination.                        *)
EXTENDS FollowupQueue

MCMessages == 1..3
MCRoutes == [m \in MCMessages |-> IF m < 3 THEN "here" ELSE "there"]
MCQueues == {"q1", "q2"}
Setting(mode, cap, drop) == [mode |-> mode, cap |-> cap, dropPolicy |-> drop]
MCSettings == {Setting("collect", 2, "summarize"), Setting("followup", 2, "summarize")}
MCCapOfOne == {Setting("followup", 1, "summarize")}
=============================================================================
