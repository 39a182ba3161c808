----------------------------- MODULE MCHandshake -----------------------------
\* The instance of Handshake that TLC checks: two keys and two versions.
EXTENDS Handshake
CONSTANTS k1, k2, v1, v2
=============================================================================
