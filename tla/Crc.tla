--------------------------------- MODULE Crc ---------------------------------
(***************************************************************************)
(* The CRC of RTU frames (src/internal/modbus/crc.go), which RtuTransport  *)
(* takes to be ideal: a register of 16 bits and a table, and what they are *)
(* to be.                                                                  *)
(***************************************************************************)
EXTENDS Naturals, Sequences

\* A byte of a frame, and what crc.crc may be.
Octet == 0..255
Register == 0..65535

\* x ^ y of two bytes: where their bits differ.
Bit(x, k) == (x \div 2^k) % 2
Differ(x, y, k) == IF Bit(x, k) = Bit(y, k) THEN 0 ELSE 2^k
xor(x, y) == Differ(x, y, 0) + Differ(x, y, 1) + Differ(x, y, 2) + Differ(x, y, 3)
               + Differ(x, y, 4) + Differ(x, y, 5) + Differ(x, y, 6) + Differ(x, y, 7)

\* From index 0.
crcTable ==
  << \h0000, \hc0c1, \hc181, \h0140, \hc301, \h03c0, \h0280, \hc241, \hc601, \h06c0, \h0780, \hc741, \h0500, \hc5c1, \hc481, \h0440,
     \hcc01, \h0cc0, \h0d80, \hcd41, \h0f00, \hcfc1, \hce81, \h0e40, \h0a00, \hcac1, \hcb81, \h0b40, \hc901, \h09c0, \h0880, \hc841,
     \hd801, \h18c0, \h1980, \hd941, \h1b00, \hdbc1, \hda81, \h1a40, \h1e00, \hdec1, \hdf81, \h1f40, \hdd01, \h1dc0, \h1c80, \hdc41,
     \h1400, \hd4c1, \hd581, \h1540, \hd701, \h17c0, \h1680, \hd641, \hd201, \h12c0, \h1380, \hd341, \h1100, \hd1c1, \hd081, \h1040,
     \hf001, \h30c0, \h3180, \hf141, \h3300, \hf3c1, \hf281, \h3240, \h3600, \hf6c1, \hf781, \h3740, \hf501, \h35c0, \h3480, \hf441,
     \h3c00, \hfcc1, \hfd81, \h3d40, \hff01, \h3fc0, \h3e80, \hfe41, \hfa01, \h3ac0, \h3b80, \hfb41, \h3900, \hf9c1, \hf881, \h3840,
     \h2800, \he8c1, \he981, \h2940, \heb01, \h2bc0, \h2a80, \hea41, \hee01, \h2ec0, \h2f80, \hef41, \h2d00, \hedc1, \hec81, \h2c40,
     \he401, \h24c0, \h2580, \he541, \h2700, \he7c1, \he681, \h2640, \h2200, \he2c1, \he381, \h2340, \he101, \h21c0, \h2080, \he041,
     \ha001, \h60c0, \h6180, \ha141, \h6300, \ha3c1, \ha281, \h6240, \h6600, \ha6c1, \ha781, \h6740, \ha501, \h65c0, \h6480, \ha441,
     \h6c00, \hacc1, \had81, \h6d40, \haf01, \h6fc0, \h6e80, \hae41, \haa01, \h6ac0, \h6b80, \hab41, \h6900, \ha9c1, \ha881, \h6840,
     \h7800, \hb8c1, \hb981, \h7940, \hbb01, \h7bc0, \h7a80, \hba41, \hbe01, \h7ec0, \h7f80, \hbf41, \h7d00, \hbdc1, \hbc81, \h7c40,
     \hb401, \h74c0, \h7580, \hb541, \h7700, \hb7c1, \hb681, \h7640, \h7200, \hb2c1, \hb381, \h7340, \hb101, \h71c0, \h7080, \hb041,
     \h5000, \h90c1, \h9181, \h5140, \h9301, \h53c0, \h5280, \h9241, \h9601, \h56c0, \h5780, \h9741, \h5500, \h95c1, \h9481, \h5440,
     \h9c01, \h5cc0, \h5d80, \h9d41, \h5f00, \h9fc1, \h9e81, \h5e40, \h5a00, \h9ac1, \h9b81, \h5b40, \h9901, \h59c0, \h5880, \h9841,
     \h8801, \h48c0, \h4980, \h8941, \h4b00, \h8bc1, \h8a81, \h4a40, \h4e00, \h8ec1, \h8f81, \h4f40, \h8d01, \h4dc0, \h4c80, \h8c41,
     \h4400, \h84c1, \h8581, \h4540, \h8701, \h47c0, \h4680, \h8641, \h8201, \h42c0, \h4380, \h8341, \h4100, \h81c1, \h8081, \h4040 >>

crcInit == \hffff

Low(c) == c % 256
High(c) == c \div 256

\* One byte of in: with the low byte of the register it picks an entry of the
\* table, which is added to the high byte.
crcStep(c, b) ==
  LET entry == crcTable[xor(b, Low(c)) + 1]
  IN  256 * High(entry) + xor(High(c), Low(entry))

crcAdd(crc, in) ==
  LET after[n \in 0..Len(in)] == IF n = 0 THEN crc ELSE crcStep(after[n - 1], in[n])
  IN  after[Len(in)]

\* The low byte first.
crcValue(crc) == <<Low(crc), High(crc)>>

crcIsEqual(crc, low, high) == 256 * high + low = crc

crcOf(frame) == crcAdd(crcInit, frame)

\* What assembleRTUFrame makes of a unit and a PDU, and what readRTUFrame lets pass.
WithCrc(frame) == frame \o crcValue(crcOf(frame))
Passes(frame) == crcIsEqual(crcOf(SubSeq(frame, 1, Len(frame) - 2)),
                            frame[Len(frame) - 1], frame[Len(frame)])

-----------------------------------------------------------------------------
(* What it is to be.                                                       *)

\* One bit of the register of MODBUS over serial lines, whose polynomial is
\* x^16 + x^15 + x^2 + 1, reflected.
ShiftBit(c) == LET half == c \div 2
               IN  IF c % 2 = 1 THEN 256 * xor(High(half), \ha0) + xor(Low(half), 1)
                                ELSE half
ShiftByte(c) == LET shifted[k \in 0..8] == IF k = 0 THEN c ELSE ShiftBit(shifted[k - 1])
                IN  shifted[8]

\* Each of the 256 entries is what its index is shifted to.
ASSUME TableIsOfPolynomial ==
  \A i \in Octet : crcTable[i + 1] \in Register /\ crcTable[i + 1] = ShiftByte(i)

\* xor is an exclusive or: to add a byte twice is to add nothing.
ASSUME XorCancels ==
  \A x, y \in Octet : /\ xor(x, y) \in Octet /\ xor(x, y) = xor(y, x)
                      /\ xor(xor(x, y), y) = x

\* The high byte of the register tells which entry came last, hence the register
\* before it.
ASSUME HighBytesDiffer ==
  \A i, j \in Octet : High(crcTable[i + 1]) = High(crcTable[j + 1]) => i = j

\* Nothing is added for the low byte of the register itself.
ASSUME NoEntryForNothing == crcTable[1] = 0 /\ \A x \in Octet : xor(x, x) = 0

\* crc_test.go:24-43 and the frames of rtu_transport_test.go.
Known == { <<<<1, 2, 3, 4, 5>>, <<\h2a, \hbb>>>>,
           <<<<1, 2, 3, 4, 5, 6>>, <<\hba, \hdd>>>>,
           <<<<>>, <<255, 255>>>>,
           <<<<\h33, \h11, \h22, \h33, \h44, \h55>>, <<\hf0, \h93>>>>,
           <<<<\h31, \h06, \h12, \h34>>, <<\he3, \hae>>>>,
           <<<<\h31, \h82, \h02>>, <<\hc1, \h6e>>>> }
ASSUME KnownFrames == \A f \in Known : crcValue(crcOf(f[1])) = f[2]

=============================================================================
