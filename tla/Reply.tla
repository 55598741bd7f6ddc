-------------------------------- MODULE Reply --------------------------------
(***************************************************************************)
(* What the callers of the LLM router rely on.  A call is answered by one  *)
(* provider: text that went out is never followed by another's, nothing    *)
(* follows the end of a call, and a call ends once.                        *)
(***************************************************************************)
CONSTANTS Calls, Providers, Nobody

VARIABLES
  source,   \* source[c]: the provider whose text the caller of c has, or Nobody
  end       \* end[c]: "open", or how call c ended

Ends == {"answer", "error"}

Init ==
  /\ source = [c \in Calls |-> Nobody]
  /\ end = [c \in Calls |-> "open"]

Speaks(c, p) ==
  /\ end[c] = "open"
  /\ source[c] \in {Nobody, p}
  /\ source' = [source EXCEPT ![c] = p]

Say(c, p) == Speaks(c, p) /\ UNCHANGED end
Answer(c, p) == Speaks(c, p) /\ end' = [end EXCEPT ![c] = "answer"]

Fail(c) ==
  /\ end[c] = "open"
  /\ end' = [end EXCEPT ![c] = "error"]
  /\ UNCHANGED source

Next == \E c \in Calls : Fail(c) \/ \E p \in Providers : Say(c, p) \/ Answer(c, p)

Spec == Init /\ [][Next]_<<source, end>>
=============================================================================
