---------------------------- MODULE MCEngineCodec ----------------------------
(* space @ A I [ a i m, e with an acute accent; the edges of an X10 report *)
EXTENDS EngineCodec

CONSTANTS plain, coloured
MCCodes  == {32, 64, 65, 73, 91, 97, 105, 109, 233}
MCPlaces == {1, 223, 224}
==============================================================================
