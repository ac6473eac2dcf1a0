----------------------------- MODULE MCControl -----------------------------
(* Configurations that differ in every key but the type: the default is the *)
(* other type.                                                              *)
EXTENDS Control
MCConfigs ==
  {[type |-> "CAN_USB_M", com |-> "USB0", mask |-> "m1", fn |-> None],
   [type |-> "CAN_USB_M", com |-> "USB1", mask |-> "m2", fn |-> "a"]}
=============================================================================
