------------------------------- MODULE MCChat -------------------------------
(***************************************************************************)
(* Small instances of ChatInstance.                                        *)
(***************************************************************************)
EXTENDS ChatProps

CONSTANTS s1, s2, main

Nodes == Session \X (1..MaxRequests)
Messages == 0..(MaxRequests + 1)
Threads == Session \cup {main}
Callers == Threads \cup Sender
FirstOfS1 == {<<s1, 1>>}
=============================================================================
