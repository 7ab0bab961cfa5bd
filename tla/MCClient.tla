------------------------------ MODULE MCClient ------------------------------
EXTENDS WfsClient
=============================================================================
