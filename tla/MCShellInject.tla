---------------------------- MODULE MCShellInject ----------------------------
EXTENDS ShellInject, TLC

CONSTANTS s1, s2, s3

\* Two sessions of one server and one of another program.
MCProcess == s1 :> 1 @@ s2 :> 1 @@ s3 :> 2
=============================================================================
