------------------------------ MODULE MCProcess ------------------------------
(***************************************************************************)
(* Instances of Process for TLC: setups that serve, with and without       *)
(* credentials, and setups that the start refuses.                         *)
(***************************************************************************)
EXTENDS Process

S3Only == <<"s3">>

Local == [mode |-> "http", host |-> "localhost", token |-> FALSE, tokens |-> "absent",
          oidc |-> FALSE, admin |-> "absent", store |-> "memory", compact |-> FALSE]

Public == [Local EXCEPT !.host = "", !.oidc = TRUE, !.admin = "token",
                        !.store = "postgres", !.compact = TRUE]

MCSetups ==
  {Local, Public,
   [Local EXCEPT !.host = "", !.tokens = "empty"], [Local EXCEPT !.host = "[::1]"],
   [Local EXCEPT !.admin = "bare"], [Local EXCEPT !.mode = "mcp-stdio", !.host = ""]}
==============================================================================
