---------------------------- MODULE MCLoRaWanApp ----------------------------
(* Values for model checking LoRaWanApp: the two sketches in class C and   *)
(* the loop they share in class A, which is the class with a deep sleep.   *)
EXTENDS LoRaWanApp

MCTimers == {"TxNextPacket", "StateCheck", "TxDelayed", "Window"}
MCDevices == {<<"A", "OTAA">>, <<"C", "OTAA">>, <<"C", "MAKE_SURE">>}
=============================================================================
