--------------------------- MODULE MCHeartbeatWake ---------------------------
EXTENDS HeartbeatWake

MCRunners == 1..2
=============================================================================
