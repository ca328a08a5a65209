------------------------------ MODULE MCStream ------------------------------
EXTENDS Stream
=============================================================================
