------------------------------ MODULE MCCrewEcho ------------------------------
EXTENDS CrewEcho
MCGlyph == [k \in Key |-> k + 48]
=============================================================================
