----------------------------- MODULE MCFileDrop -----------------------------
(* FileDrop for TLC: an empty file and one of two bytes, no credit or credit *)
(* for one byte at the start of a generation, and one lost connection, after *)
(* which the transfer is resumed.                                            *)
EXTENDS FileDrop

OneByte == [bytes |-> 1 + Prefix, records |-> 1]
NoCredit == [bytes |-> 0, records |-> 0]
StartCredits == {NoCredit, OneByte}
=============================================================================
