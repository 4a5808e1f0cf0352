---------------------------- MODULE MCModbusClient ----------------------------
(* Instances of ModbusClient for TLC.                                       *)
EXTENDS ModbusClient, TLC

Operation(fcs, addrs, ns, widths) ==
  {[fc |-> fc, addr |-> addr, n |-> n, width |-> width] :
     fc \in fcs, addr \in addrs, n \in ns, width \in widths}

\* Every limit of the client and the server from both sides.
BoundaryOps ==
  Operation(BitReads, {0, 65535}, {0, 1, 2, 8, 9, 2000, 2001, 65535}, {1})
    \cup Operation(RegisterReads, {0, 65413, 65535},
                   {0, 1, 2, 61, 62, 123, 124, 245, 246, 247, 250, 251}, {1, 2, 4, 8})
    \cup Operation({WriteSingleCoil}, {0, 65535}, {0, 1}, {1})
    \cup Operation({WriteSingleRegister}, {0, 65535}, {0, 1, 255, 65535}, {2})
    \cup Operation({WriteMultipleCoils}, {0, 63568, 63569, 65535},
                   {0, 1, 7, 8, 9, 1967, 1968, 1969, 65535}, {1})
    \cup Operation({WriteMultipleRegisters}, {0, 65413, 65414, 65535},
                   {0, 1, 2, 30, 31, 61, 62, 123, 124, 245, 246, 247}, {1, 2, 4, 8})

\* Sizes that do not fit 16 bits.
LargeOps ==
  Operation({ReadHoldingRegisters}, {0, 9}, {16385, 32769, 49152, 65535}, {2, 4, 8})
    \cup Operation({WriteMultipleRegisters}, {0, 9}, {8193, 16385, 32769, 65537}, {1, 2, 4, 8})
    \cup Operation({WriteMultipleCoils}, {0}, {65537, 65544}, {1})

AllOps == BoundaryOps \cup LargeOps
=============================================================================
