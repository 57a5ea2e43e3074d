----------------------------- MODULE MCPcmCopy -----------------------------
EXTENDS PcmCopy

Integer(number, bytes) ==
  << [number |-> number, bytes |-> bytes, endian |-> "big"],
     [number |-> number, bytes |-> bytes, endian |-> "little"] >>

\* compiletime_formats without those of 64 bits.
MCFormats ==
  Integer("signed", 1) \o Integer("signed", 2) \o Integer("signed", 3) \o Integer("signed", 4)
    \o Integer("unsigned", 1) \o Integer("unsigned", 2) \o Integer("unsigned", 3)
    \o Integer("unsigned", 4) \o Integer("float", 4)

MCTypes == {[number |-> "signed", bytes |-> 2], [number |-> "signed", bytes |-> 4],
            [number |-> "unsigned", bytes |-> 1], [number |-> "float", bytes |-> 4]}

\* Both ends of the range, the zero, the half and the roundings next to them.
MCLevels == {-200, -128, -127, -66, -33, -2, -1, 0, 1, 2, 31, 64, 67, 98, 124, 125, 127, 128}

MCCounts == {<<1, 2>>, <<2, 2>>, <<3, 2>>}
=============================================================================
