-------------------------- MODULE MCSerialSubsystem --------------------------
EXTENDS SerialSubsystem

MCDevice == {"left", "right"}
=============================================================================
