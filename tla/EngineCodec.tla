------------------------------ MODULE EngineCodec ------------------------------
(***************************************************************************)
(* The two encoders as the engine thread of terminal-session uses them:    *)
(* one event at a time, either output, whose rows are encoded and which    *)
(* sets modes, or input, which is encoded by the modes of that moment.     *)
(***************************************************************************)
EXTENDS RowEncoding, TerminalInput

codecVars == <<rowVars, inputVars>>

CodecInit == RowInit /\ InputInit

HandleTransportEvent == event = None /\ RowNext /\ UNCHANGED inputVars
HandleSessionInput   == cells = <<>> /\ InputNext /\ UNCHANGED rowVars

CodecNext == HandleTransportEvent \/ HandleSessionInput

CodecSpec == CodecInit /\ [][CodecNext]_codecVars
=============================================================================
