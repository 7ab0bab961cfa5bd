---------------------------- MODULE MCConcurrent ----------------------------
EXTENDS WfsConcurrentClient
=============================================================================
