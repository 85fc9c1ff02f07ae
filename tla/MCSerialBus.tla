---------------------------- MODULE MCSerialBus ----------------------------
(* Small instances of the serial interface and the controllers.            *)
EXTENDS SerialBus
=============================================================================
