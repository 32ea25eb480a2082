----------------------------- MODULE MCServices -----------------------------
EXTENDS GatewayServices, TLC

CONSTANTS p, c

MCRunners == 1..2
MCMessages == 1..2
MCParentOf == (p :> Gone) @@ (c :> p)
=============================================================================
