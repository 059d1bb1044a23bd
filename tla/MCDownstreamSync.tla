-------------------------- MODULE MCDownstreamSync --------------------------
(* An instance of DownstreamSync for TLC.                                    *)
EXTENDS DownstreamSync, BridgeFrames, AskQuestion

CONSTANT c1  \* model value: the chat
=============================================================================
