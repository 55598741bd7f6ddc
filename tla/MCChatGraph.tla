----------------------------- MODULE MCChatGraph -----------------------------
(* Overlapping calls for an owned conversation; a call that is refused or  *)
(* not recorded differs from it in its answer alone.                       *)
EXTENDS ChatGraph

SomeSettings == ({TRUE} \X {"off", "owned", "foreign"}) \cup {<<FALSE, "owned">>}

CalmSettings == {<<TRUE, "owned">>}
=============================================================================
