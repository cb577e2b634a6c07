---------------------------- MODULE MCChatServer ----------------------------
(***************************************************************************)
(* Instances of ChatServer for TLC.                                        *)
(***************************************************************************)
EXTENDS ChatServer

MCContexts == {4096}
MCTwoContexts == {4096, 8192}
=============================================================================
