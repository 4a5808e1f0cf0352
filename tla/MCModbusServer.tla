--------------------------- MODULE MCModbusServer ---------------------------
(* Instances of ModbusServer for TLC.                                      *)
EXTENDS ModbusServer, TLC

Symmetric == Permutations(Clients)
=============================================================================
