---------------------------- MODULE MCProcessor ----------------------------
EXTENDS WfsProcessor
=============================================================================
