------------------------------ MODULE MCO4Tunnel ------------------------------
EXTENDS O4Tunnel
=============================================================================
