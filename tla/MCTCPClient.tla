---------------------------- MODULE MCTCPClient -----------------------------
(* Small instances of the client: four lines that mean something different  *)
(* as a command, and all of them names or passwords at the other prompts.   *)
EXTENDS TCPClient

CONSTANTS s, t

MCDesc == {s, t}
MCInitial == <<s, t>>
MCFdNum == {0, 3}

\* Every kind of command, and two lines that may be repeated or not.
MCText == {"hello", "passwd", "exit", "word"}

\* A line that is a name, a password and no command.
OneText == {"word"}

\* The server that is part of the environment answers either way, whatever the
\* name or password: one stands for all.
MCArg == {"some"}
MCSent == [line \in Text |-> "some"]
=============================================================================
