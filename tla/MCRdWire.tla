------------------------------ MODULE MCRdWire ------------------------------
EXTENDS RdWire
=============================================================================
