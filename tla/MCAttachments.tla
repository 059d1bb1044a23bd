---------------------------- MODULE MCAttachments ----------------------------
(* Instances of Attachments for TLC.                                          *)
EXTENDS Attachments, ServerConfig, AuthGuard

CONSTANTS f1, g1, x, u, v  \* two files and one of cc-connect, and two bubbles

\* All of them have the same name.
SameName == [y \in {f1, g1, x} |-> "name"]
\* One message has two of them, the other has one.
TwoAndOne == [b \in {u, v} |-> IF b = u THEN <<f1, g1>> ELSE <<g1>>]
=============================================================================
