---------------------------- MODULE MCSerialPort ----------------------------
EXTENDS SerialPort

MCHandle == 1..3
=============================================================================
