--------------------------- MODULE MCClientServer ---------------------------
(* A small instance: two lines, of which one is the only name in the file   *)
(* and its password, the other an unknown name and a wrong password; as     *)
(* commands, the one asks the server for a text and the other ends the      *)
(* client.  Four lines are enough for a name and three wrong passwords.     *)
EXTENDS ClientServer

MCLines == {"hello", "exit"}
MCPasswd == [u \in MCLines |-> IF u = "hello" THEN "hello" ELSE NoRow]
MCServerFdNum == 3..6

\* What the two programs send, as ClientServerAssumption has it.
MCReply ==
  [type : {"HELLO", "MENU"} \cup {"GENERIC_" \o ToString(i) : i \in 1..5}, arg : {NoArg}]
    \cup [type : {"LOGIN_SET_USERNAME", "LOGIN_SET_PASSWORD", "LOGIN_AUTHENTICATE"},
          arg : MCLines]
MCBurst == {<<m>> : m \in MCReply}

Answer(kind, success) == [type |-> kind, success |-> success]
Shown == Answer("DISPLAY_MESSAGE", TRUE)

MCServerBurst ==
  {<<Shown>>, <<Answer("TEXT", TRUE)>>, <<Answer("LOGIN_SET_USERNAME_RESPONSE", FALSE)>>,
   <<Shown, Answer("LOGIN_SET_USERNAME_RESPONSE", TRUE)>>}
    \cup {<<Shown, Answer(kind, b)>> : b \in BOOLEAN,
            kind \in {"LOGIN_SET_PASSWORD_RESPONSE", "LOGIN_AUTHENTICATE_RESPONSE"}}
MCServerReply == UNION {Range(ms) : ms \in MCServerBurst}
=============================================================================
