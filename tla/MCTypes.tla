------------------------------ MODULE MCTypes ------------------------------
EXTENDS WfsRoundTrip
=============================================================================
