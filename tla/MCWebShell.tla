---------------------------- MODULE MCWebShell ----------------------------
(* Instances of WebShell for TLC. *)
EXTENDS WebShell

CONSTANTS s1, s2, p1

AllSessions == {s1, s2, p1}
Plans == {p1}
Row0(s) == [id |-> s, title |-> 0]

\* Only the chat of a plan run, or a chat that may be empty beside it.
Lists == {<<Row0(p1)>>, <<Row0(s1), Row0(p1)>>}

===========================================================================
