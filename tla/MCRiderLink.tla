---------------------------- MODULE MCRiderLink ----------------------------
EXTENDS RiderLink
=============================================================================
