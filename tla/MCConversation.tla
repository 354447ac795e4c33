--------------------------- MODULE MCConversation ---------------------------
(* Two environments that share a session id, three items. *)
EXTENDS Conversation, TLC

CONSTANTS e1, e2, s1, s2, i1, i2, i3

MCSessionsOf == (e1 :> {s1}) @@ (e2 :> {s1, s2})

MCEnvOf == (i1 :> e1) @@ (i2 :> e1) @@ (i3 :> e2)
=============================================================================
