--------------------------- MODULE ChatGraphProofs ---------------------------
(***************************************************************************)
(* What holds of the memory of a thread for any number of utterances,      *)
(* calls that overlap and restarts: only answers are kept, a turn is lost  *)
(* only to a call that overlapped it, and doubled only for a cause.        *)
(***************************************************************************)
EXTENDS ChatGraph, SequenceTheorems, TLAPS

Stages == {"none", "sent", "detecting", "clarifying", "thinking", "ended", "dead"}
Results == {"none", "question", "answer", "apology", "raised"}
States == [history : Seq(Calls), error : BOOLEAN]
Replies == [status : {0, 200, 404, 500}, says : Results, error : BOOLEAN]

TypeInv ==
  /\ calm \in BOOLEAN /\ conversation \in {"off", "owned", "foreign"}
  /\ asked \in 0..MaxUtterances /\ attempt \in 0..MaxAttempts /\ think \in {"idle", "waiting", "pausing"}
  /\ stage \in [Calls -> Stages] /\ result \in [Calls -> Results]
  /\ channels \in [Calls -> States] /\ checkpoint \in States
  /\ reply \in [Calls -> Replies]
  /\ recorded \subseteq Calls /\ safe \subseteq Calls

-----------------------------------------------------------------------------
(* Histories *)

Longer(h, g) == Len(h) < Keep /\ Len(g) = Len(h) + 1 /\ \A i \in 1..Len(h) : g[i] = h[i]
Shifted(h, g) == Len(h) = Keep /\ Len(g) = Keep /\ \A i \in 1..(Keep - 1) : g[i] = h[i + 1]

(* A turn more in a history that is not too long. *)
LEMMA OneMoreTurn ==
  ASSUME NEW h \in Seq(Calls), Len(h) <= Keep, NEW k \in Calls, NEW g, g = LatestTurns(Append(h, k))
  PROVE  /\ g \in Seq(Calls) /\ Len(g) \in 1..Keep
         /\ Longer(h, g) \/ Shifted(h, g)
         /\ g[Len(g)] = k
<1> DEFINE a == Append(h, k)
<1>1. /\ Len(h) \in Nat /\ Keep \in Nat /\ Keep >= 1
      /\ a \in Seq(Calls) /\ Len(a) = Len(h) + 1 /\ a[Len(h) + 1] = k
      /\ \A i \in 1..Len(h) : a[i] = h[i]
  BY LenProperties, AppendProperties, ChatGraphAssumption
<1> HIDE DEF a
<1>2. CASE Len(h) < Keep
  <2>1. g = a
    BY <1>1, <1>2 DEF LatestTurns, a
  <2> QED  BY <1>1, <1>2, <2>1 DEF Longer
<1>3. CASE Len(h) = Keep
  <2>1. g = SubSeq(a, 2, Keep + 1)
    BY <1>1, <1>3 DEF LatestTurns, a
  <2>2. \A i \in 2..(Keep + 1) : a[i] \in Calls
    BY <1>1, <1>3, ElementOfSeq
  <2>3. g \in Seq(Calls) /\ Len(g) = Keep /\ \A i \in 1..Keep : g[i] = a[i + 1]
    BY <1>1, <1>3, <2>1, <2>2, SubSeqProperties
  <2>4. \A i \in 1..(Keep - 1) : i + 1 \in 1..Len(h)
    BY <1>1, <1>3
  <2> QED  BY <1>1, <1>3, <2>3, <2>4 DEF Shifted
<1> QED  BY <1>1, <1>2, <1>3

(* It holds the new turn and otherwise old ones, each once, and what it    *)
(* lost it lost because it is full.                                        *)
Holds(k, h) == k \in TurnsOf(h) \/ Len(h) = Keep

Remembers(k, h, g) ==
  /\ TurnsOf(g) \subseteq TurnsOf(h) \cup {k} /\ k \in TurnsOf(g)
  /\ IsInjective(h) /\ k \notin TurnsOf(h) => IsInjective(g)
  /\ \A j \in Calls : Holds(j, h) => Holds(j, g)

LEMMA LongerRemembers ==
  ASSUME NEW h \in Seq(Calls), NEW g \in Seq(Calls), NEW k \in Calls, Longer(h, g), g[Len(g)] = k
  PROVE  Remembers(k, h, g)
<1>0. Len(h) \in Nat /\ Keep \in Nat /\ DOMAIN h = 1..Len(h) /\ DOMAIN g = 1..Len(g)
  BY LenProperties, ChatGraphAssumption
<1>1. Len(h) # Keep /\ Len(g) = Len(h) + 1 /\ Len(g) \in DOMAIN g
  BY <1>0 DEF Longer
<1>2. ASSUME NEW n \in Nat, NEW m, m = n + 1 PROVE 1..n \subseteq 1..m /\ \A i \in 1..m : i = m \/ i \in 1..n
  BY <1>2
<1>3. DOMAIN h \subseteq DOMAIN g /\ \A i \in DOMAIN g : i = Len(g) \/ i \in DOMAIN h
  BY <1>0, <1>1, <1>2, Zenon
<1>4. \A i \in DOMAIN h : i \in DOMAIN g /\ g[i] = h[i]
  BY <1>0, <1>3, Zenon DEF Longer
<1>5. \A i \in DOMAIN g : i = Len(g) \/ i \in DOMAIN h
  BY <1>3
<1>6. TurnsOf(h) \subseteq TurnsOf(g) /\ TurnsOf(g) \subseteq TurnsOf(h) \cup {k} /\ k \in TurnsOf(g)
  BY <1>1, <1>4, <1>5 DEF TurnsOf
<1>7. IsInjective(h) /\ k \notin TurnsOf(h) => IsInjective(g)
  <2>1. k \notin TurnsOf(h) => \A i \in DOMAIN h : h[i] # k
    BY DEF TurnsOf
  <2> QED  BY <1>4, <1>5, <2>1 DEF IsInjective
<1> QED  BY <1>1, <1>6, <1>7 DEF Remembers, Holds

LEMMA ShiftedRemembers ==
  ASSUME NEW h \in Seq(Calls), NEW g \in Seq(Calls), NEW k \in Calls, Shifted(h, g), g[Len(g)] = k
  PROVE  Remembers(k, h, g)
<1>0. Keep \in Nat \ {0} /\ DOMAIN h = 1..Len(h) /\ DOMAIN g = 1..Len(g)
  BY LenProperties, ChatGraphAssumption
<1>1. Len(g) = Keep /\ Len(g) \in DOMAIN g
  BY <1>0 DEF Shifted
<1>2. \A i \in DOMAIN g : i = Len(g) \/ (i + 1 \in DOMAIN h /\ g[i] = h[i + 1])
  BY <1>0 DEF Shifted
<1>3. TurnsOf(g) \subseteq TurnsOf(h) \cup {k} /\ k \in TurnsOf(g)
  BY <1>1, <1>2 DEF TurnsOf
<1>4. IsInjective(h) /\ k \notin TurnsOf(h) => IsInjective(g)
  <2> SUFFICES ASSUME IsInjective(h), k \notin TurnsOf(h),
                      NEW i \in DOMAIN g, NEW j \in DOMAIN g, g[i] = g[j]
               PROVE  i = j
    BY DEF IsInjective
  <2>1. \A n \in DOMAIN h : h[n] # k
    BY DEF TurnsOf
  <2>2. CASE i = Len(g) \/ j = Len(g)
    BY <1>2, <2>1, <2>2
  <2>3. CASE i # Len(g) /\ j # Len(g)
    <3>1. i + 1 \in DOMAIN h /\ j + 1 \in DOMAIN h /\ h[i + 1] = h[j + 1]
      BY <1>2, <2>3
    <3>2. i + 1 = j + 1
      BY <3>1, Zenon DEF IsInjective
    <3> QED  BY <1>0, <3>2
  <2> QED  BY <2>2, <2>3
<1> QED  BY <1>1, <1>3, <1>4 DEF Remembers, Holds

LEMMA RememberTurn ==
  ASSUME NEW h \in Seq(Calls), Len(h) <= Keep, NEW k \in Calls
  PROVE  /\ LatestTurns(Append(h, k)) \in Seq(Calls) /\ Len(LatestTurns(Append(h, k))) <= Keep
         /\ Remembers(k, h, LatestTurns(Append(h, k)))
<1> DEFINE g == LatestTurns(Append(h, k))
<1>1. g \in Seq(Calls) /\ Len(g) \in 1..Keep /\ (Longer(h, g) \/ Shifted(h, g)) /\ g[Len(g)] = k
  BY OneMoreTurn
<1> HIDE DEF g
<1>2. /\ Len(h) \in Nat /\ Keep \in Nat \ {0} /\ DOMAIN h = 1..Len(h) /\ DOMAIN g = 1..Len(g)
  BY <1>1, LenProperties, ChatGraphAssumption
<1>3. Remembers(k, h, g)
  BY <1>1, <1>2, LongerRemembers, ShiftedRemembers
<1>4. Len(g) <= Keep
  BY <1>1, <1>2
<1> QED  BY <1>1, <1>3, <1>4 DEF g

-----------------------------------------------------------------------------
(* The inductive invariants *)

Real(h, results) == Len(h) <= Keep /\ IsInjective(h) /\ \A n \in TurnsOf(h) : results[n] = "answer"

(* Calls work on real histories, and one that failed says so until it was  *)
(* answered.                                                               *)
AnswerInv ==
  /\ Real(checkpoint.history, result)
  /\ \A k \in Calls :
       /\ Real(channels[k].history, result)
       /\ stage[k] \in {"none", "sent"} \/ InGraph(k) => result[k] = "none"
       /\ stage[k] = "ended" /\ reply[k] = NoReply =>
            result[k] # "none" /\ (result[k] = "apology" => channels[k].error)
  /\ RecordedWereAnswers

(* Attempts are made in order, and a second one has a cause.               *)
Cause(u) == u \in lostAnswer \/ reply[<<u, 1>>].status = 500
AskInv ==
  /\ think = "waiting" => asked \in 1..MaxUtterances /\ attempt \in 1..MaxAttempts
  /\ think = "pausing" => asked \in 1..MaxUtterances /\ attempt = 1 /\ Cause(asked)
  /\ \A k \in Calls : k[1] > asked \/ (k[1] = asked /\ k[2] > attempt) => stage[k] = "none"
  /\ \A u \in 1..MaxUtterances : stage[<<u, 2>>] # "none" => Cause(u)
  /\ \A k \in recorded : stage[k] # "none"

(* A turn that was alone works on the latest checkpoint, and after that    *)
(* whoever works on one has it, or had no room for it.                     *)
SafeInv ==
  \A k \in safe :
    /\ stage[k] \notin {"none", "sent"}
    /\ InGraph(k) => channels[k] = checkpoint /\ OtherCalls(k) = {}
    /\ result[k] = "answer" =>
         Holds(k, checkpoint.history) /\ \A j \in Calls : InGraph(j) => Holds(k, channels[j].history)

Inv == TypeInv /\ AnswerInv /\ AskInv /\ SafeInv

LEMMA InitInv == GraphInit => Inv
<1> SUFFICES ASSUME GraphInit PROVE Inv
  OBVIOUS
<1>1. Fresh \in States /\ Len(Fresh.history) = 0 /\ DOMAIN Fresh.history = {} /\ NoReply \in Replies
  BY DEF Fresh, States, NoReply, Replies, Results
<1>2. TypeInv
  <2>1. calm \in BOOLEAN /\ conversation \in {"off", "owned", "foreign"}
    <3>1. PICK s \in Settings : calm = s[1] /\ conversation = s[2]
      BY DEF GraphInit
    <3> QED  BY <3>1, ChatGraphAssumption
  <2> QED  BY <1>1, <2>1, ChatGraphAssumption DEF GraphInit, TypeInv, Stages, Results, MaxAttempts
<1>3. TurnsOf(Fresh.history) = {} /\ IsInjective(Fresh.history)
  BY <1>1 DEF TurnsOf, IsInjective
<1>4. AnswerInv
  BY <1>1, <1>3, ChatGraphAssumption DEF GraphInit, AnswerInv, Real, RecordedWereAnswers, InGraph
<1>5. AskInv
  <2>1. \A u \in 1..MaxUtterances : <<u, 2>> \in Calls
    BY DEF Calls, MaxAttempts
  <2> QED  BY <2>1 DEF GraphInit, AskInv
<1>6. SafeInv
  BY DEF GraphInit, SafeInv
<1> QED  BY <1>2, <1>4, <1>5, <1>6 DEF Inv

-----------------------------------------------------------------------------
(* Types *)

LEMMA Ranges ==
  TypeInv => /\ \A k \in Calls : /\ channels[k].history \in Seq(Calls) /\ channels[k].error \in BOOLEAN
                                 /\ stage[k] \in Stages /\ result[k] \in Results /\ reply[k] \in Replies
             /\ checkpoint.history \in Seq(Calls)
BY DEF TypeInv, States

LEMMA RememberType ==
  ASSUME NEW h \in Seq(Calls), Len(h) <= Keep, NEW k \in Calls, NEW how
  PROVE  Remember(h, k, how) \in Seq(Calls) /\ Len(Remember(h, k, how)) <= Keep
BY RememberTurn DEF Remember

LEMMA PostType ==
  ASSUME TypeInv, NEW k, Post(k)
  PROVE  stage' \in [Calls -> Stages]
BY DEF Post, TypeInv, Stages

LEMMA AskType ==
  ASSUME TypeInv, AskInv, Caller \/ Interrupt
  PROVE  TypeInv'
<1>1. /\ stage' \in [Calls -> Stages]
      /\ asked' \in 0..MaxUtterances /\ attempt' \in 0..MaxAttempts /\ think' \in {"idle", "waiting", "pausing"}
  <2>1. CASE Ask
    <3>1. asked' \in 0..MaxUtterances /\ attempt' \in 0..MaxAttempts /\ think' = "waiting"
      BY <2>1, ChatGraphAssumption DEF Ask, TypeInv, MaxAttempts
    <3> QED  BY <2>1, <3>1, PostType DEF Ask
  <2>2. CASE GetReply \/ LoseAnswer \/ Interrupt
    BY <2>2 DEF GetReply, LoseAnswer, Interrupt, TryAgain, TypeInv, graphVars
  <2>3. CASE Retry
    <3>1. asked' = asked /\ attempt' \in 0..MaxAttempts /\ think' = "waiting"
      BY <2>3 DEF Retry, TypeInv, AskInv, MaxAttempts
    <3> QED  BY <2>3, <3>1, PostType DEF Retry, TypeInv
  <2> QED  BY <2>1, <2>2, <2>3 DEF Caller
<1>2. UNCHANGED <<calm, conversation, channels, result, checkpoint, safe, reply, recorded>>
  BY DEF Caller, Interrupt, Ask, GetReply, LoseAnswer, Retry, graphVars, endpointVars
<1> QED  BY <1>1, <1>2 DEF TypeInv

LEMMA GraphType ==
  ASSUME TypeInv, AnswerInv, NEW k \in Calls, Graph(k)
  PROVE  TypeInv'
<1>1. /\ stage' \in [Calls -> Stages] /\ result' \in [Calls -> Results]
      /\ channels' \in [Calls -> States] /\ checkpoint' \in States /\ safe' \subseteq Calls
  <2>1. CASE Start(k)
    BY <2>1 DEF Start, Loaded, TypeInv, Stages, OtherCalls
  <2>2. CASE Detect(k)
    BY <2>2 DEF Detect, Save, TypeInv, Stages
  <2>3. CASE Clarify(k)
    BY <2>3 DEF Clarify, Save, NodeEnds, TypeInv, Stages, Results
  <2>4. CASE Think(k)
    <3>1. \A how : Remember(channels[k].history, k, how) \in Seq(Calls)
      BY Ranges, RememberType DEF AnswerInv, Real
    <3>2. \A how : [history |-> Remember(channels[k].history, k, how), error |-> how = "apology"] \in States
      BY <3>1 DEF States
    <3> QED  BY <2>4, <3>2 DEF Think, Save, NodeEnds, TypeInv, Stages, Results
  <2> QED  BY <2>1, <2>2, <2>3, <2>4 DEF Graph
<1>2. UNCHANGED <<calm, conversation, callerVars, reply, recorded>>
  BY DEF Graph, Start, Detect, Clarify, Think, NodeEnds, endpointVars
<1> QED  BY <1>1, <1>2 DEF TypeInv, callerVars

LEMMA EndType ==
  ASSUME TypeInv, Restart \/ \E k \in Calls : Respond(k)
  PROVE  TypeInv'
<1>1. Fresh \in States
  BY DEF Fresh, States
<1>2. ASSUME NEW k \in Calls, Respond(k) PROVE TypeInv'
  <2>1. result[k] \in Results /\ channels[k].error \in BOOLEAN
    BY Ranges
  <2>2. reply' \in [Calls -> Replies]
    <3>1. ASSUME NEW r \in Replies, reply' = [reply EXCEPT ![k] = r]
          PROVE  reply' \in [Calls -> Replies]
      BY <3>1 DEF TypeInv
    <3>2. /\ [status |-> 500, says |-> "none", error |-> FALSE] \in Replies
          /\ [status |-> 404, says |-> "none", error |-> FALSE] \in Replies
      BY DEF Replies, Results
    <3>3. [status |-> 200, says |-> result[k], error |-> channels[k].error] \in Replies
      BY <2>1 DEF Replies
    <3>4. \/ Answered(k, 500, "none", FALSE) \/ Answered(k, 404, "none", FALSE)
          \/ Answered(k, 200, result[k], channels[k].error)
      BY <1>2 DEF Respond
    <3> QED  BY <3>1, <3>2, <3>3, <3>4, Zenon DEF Answered
  <2>3. channels' \in [Calls -> States] /\ recorded' \subseteq Calls
    BY <1>1, <1>2 DEF Respond, TypeInv
  <2> QED  BY <1>2, <2>2, <2>3 DEF Respond, TypeInv, callerVars
<1>3. ASSUME Restart PROVE TypeInv'
  BY <1>1, <1>3 DEF Restart, TypeInv, Stages, callerVars, endpointVars
<1> QED  BY <1>2, <1>3

-----------------------------------------------------------------------------
(* Only answers are kept *)

LEMMA StillReal ==
  ASSUME NEW h \in Seq(Calls), NEW before, NEW after, Real(h, before),
         \A n \in Calls : before[n] = "answer" => after[n] = "answer"
  PROVE  Real(h, after)
<1>1. TurnsOf(h) \subseteq Calls
  BY LenProperties, ElementOfSeq DEF TurnsOf
<1> QED  BY <1>1 DEF Real

LEMMA RealRemember ==
  ASSUME TypeInv, NEW k \in Calls, NEW h \in Seq(Calls), Real(h, result), result[k] # "answer",
         NEW how \in {"answer", "apology"}, result' = [result EXCEPT ![k] = how]
  PROVE  Real(Remember(h, k, how), result')
<1>0. TurnsOf(h) \subseteq Calls
  BY LenProperties, ElementOfSeq DEF TurnsOf
<1>1. /\ \A n \in Calls : result[n] = "answer" => result'[n] = "answer"
      /\ k \notin TurnsOf(h) /\ result'[k] = how
  BY DEF Real, TypeInv
<1>2. CASE how = "apology"
  <2>1. Remember(h, k, how) = h
    BY <1>2 DEF Remember
  <2>2. Real(h, result')
    BY <1>0, <1>1 DEF Real
  <2> QED  BY <2>1, <2>2
<1>3. CASE how = "answer"
  <2>1. Len(h) <= Keep /\ IsInjective(h)
    BY DEF Real
  <2>2. Remember(h, k, how) = LatestTurns(Append(h, k))
    BY <1>3 DEF Remember
  <2>3. Len(Remember(h, k, how)) <= Keep /\ Remembers(k, h, Remember(h, k, how))
    BY <2>1, <2>2, RememberTurn
  <2> QED  BY <1>0, <1>1, <1>3, <2>1, <2>3 DEF Remembers, Real
<1> QED  BY <1>2, <1>3

LEMMA PostAnswers ==
  ASSUME TypeInv, AnswerInv, NEW k, Post(k), k \in Calls => stage[k] = "none",
         UNCHANGED <<result, channels, checkpoint, conversation, endpointVars>>
  PROVE  AnswerInv'
<1>1. \A n \in Calls : stage'[n] = stage[n] \/ (stage[n] = "none" /\ stage'[n] = "sent")
  BY DEF Post, TypeInv
<1> QED  BY <1>1 DEF AnswerInv, RecordedWereAnswers, InGraph, endpointVars

LEMMA CallerAnswers ==
  ASSUME TypeInv, AnswerInv, AskInv, Caller \/ Interrupt
  PROVE  AnswerInv'
<1>1. CASE Ask
  <2>1. <<asked + 1, 1>> \in Calls => stage[<<asked + 1, 1>>] = "none"
    BY DEF AskInv, TypeInv
  <2> QED  BY <1>1, <2>1, PostAnswers DEF Ask
<1>2. CASE Retry
  <2>1. <<asked, attempt + 1>> \in Calls => stage[<<asked, attempt + 1>>] = "none"
    BY DEF AskInv, TypeInv, MaxAttempts
  <2> QED  BY <1>2, <2>1, PostAnswers DEF Retry
<1>3. CASE GetReply \/ LoseAnswer \/ Interrupt
  BY <1>3 DEF GetReply, LoseAnswer, Interrupt, AnswerInv, RecordedWereAnswers, InGraph,
              graphVars, endpointVars
<1> QED  BY <1>1, <1>2, <1>3 DEF Caller

LEMMA GraphAnswers ==
  ASSUME TypeInv, AnswerInv, NEW k \in Calls, Graph(k)
  PROVE  AnswerInv'
<1>1. UNCHANGED <<conversation, reply, recorded>>
  BY DEF Graph, Start, Detect, Clarify, Think, NodeEnds, endpointVars
<1>2. result[k] = "none" /\ Real(channels[k].history, result)
  BY DEF Graph, Start, Detect, Clarify, Think, AnswerInv, InGraph
<1>3. /\ \A n \in Calls : result[n] = "answer" => result'[n] = "answer"
      /\ \A n \in Calls \ {k} : stage'[n] = stage[n] /\ result'[n] = result[n]
  <2>1. result' = result \/ \E how : result' = [result EXCEPT ![k] = how]
    BY DEF Graph, Start, Detect, Clarify, Think, NodeEnds
  <2>2. \E to : stage' = [stage EXCEPT ![k] = to]
    BY DEF Graph, Start, Detect, Clarify, Think, NodeEnds
  <2> QED  BY <1>2, <2>1, <2>2 DEF TypeInv
<1>4. \A n \in Calls \ {k} : channels'[n] = channels[n]
  BY DEF Graph, Start, Detect, Clarify, Think, Save, TypeInv
<1>5. /\ stage'[k] \in {"none", "sent", "detecting", "clarifying", "thinking"} => result'[k] = "none"
      /\ stage'[k] = "ended" =>
           result'[k] # "none" /\ (result'[k] = "apology" => channels'[k].error)
  <2>1. CASE Start(k) \/ Detect(k)
    BY <1>2, <2>1 DEF Start, Detect, TypeInv
  <2>2. CASE Clarify(k)
    BY <2>2 DEF Clarify, NodeEnds, TypeInv
  <2>3. CASE Think(k)
    <3>1. CASE NodeEnds(k, "raised")
      BY <3>1 DEF NodeEnds, TypeInv
    <3>2. ASSUME NEW how \in {"answer", "apology"}, NodeEnds(k, how),
                 Save(k, [history |-> Remember(channels[k].history, k, how), error |-> how = "apology"])
          PROVE  stage'[k] = "ended" /\ result'[k] = how /\ channels'[k].error = (how = "apology")
      BY <3>2 DEF NodeEnds, Save, TypeInv
    <3> QED  BY <2>3, <3>1, <3>2 DEF Think, NodeEnds, TypeInv
  <2> QED  BY <2>1, <2>2, <2>3 DEF Graph
<1>6. Real(channels'[k].history, result') /\ Real(checkpoint'.history, result')
  <2>1. CASE Start(k)
    BY <2>1 DEF Start, Loaded, AnswerInv, TypeInv
  <2>2. CASE Detect(k) \/ Clarify(k)
    <3>1. channels'[k] = channels[k] /\ checkpoint' = channels[k]
      BY <2>2 DEF Detect, Clarify, Save, TypeInv
    <3> QED  BY <1>2, <1>3, <3>1, Ranges, StillReal
  <2>3. CASE Think(k)
    <3>1. CASE NodeEnds(k, "raised") /\ UNCHANGED <<channels, checkpoint>>
      BY <1>3, <3>1, Ranges, StillReal DEF AnswerInv
    <3>2. ASSUME NEW how \in {"answer", "apology"}, NodeEnds(k, how),
                 Save(k, [history |-> Remember(channels[k].history, k, how), error |-> how = "apology"])
          PROVE  Real(channels'[k].history, result') /\ Real(checkpoint'.history, result')
      <4>1. /\ channels'[k].history = Remember(channels[k].history, k, how)
            /\ checkpoint'.history = Remember(channels[k].history, k, how)
        BY <3>2 DEF Save, TypeInv
      <4>2. channels[k].history \in Seq(Calls) /\ result[k] # "answer"
        BY <1>2, Ranges
      <4> QED  BY <1>2, <3>2, <4>1, <4>2, RealRemember DEF NodeEnds
    <3> QED  BY <2>3, <3>1, <3>2 DEF Think
  <2> QED  BY <2>1, <2>2, <2>3 DEF Graph
<1>7. \A n \in Calls : Real(channels'[n].history, result')
  BY <1>3, <1>4, <1>6, Ranges, StillReal DEF AnswerInv
<1>8. \A n \in Calls :
        /\ stage'[n] \in {"none", "sent", "detecting", "clarifying", "thinking"} => result'[n] = "none"
        /\ stage'[n] = "ended" /\ reply'[n] = NoReply =>
             result'[n] # "none" /\ (result'[n] = "apology" => channels'[n].error)
  BY <1>1, <1>3, <1>4, <1>5 DEF AnswerInv, InGraph
<1> QED  BY <1>1, <1>6, <1>7, <1>8 DEF AnswerInv, RecordedWereAnswers, InGraph

LEMMA EmptyIsReal == ASSUME NEW results PROVE Real(Fresh.history, results)
BY ChatGraphAssumption DEF Real, Fresh, IsInjective, TurnsOf

LEMMA EndAnswers ==
  ASSUME TypeInv, AnswerInv, Restart \/ \E k \in Calls : Respond(k)
  PROVE  AnswerInv'
<1>1. ASSUME Restart PROVE AnswerInv'
  <2>1. \A n \in Calls : channels'[n] = Fresh
                         /\ (stage'[n] = "dead" \/ (stage'[n] = stage[n] /\ (stage[n] = "none" \/ reply[n] # NoReply)))
    BY <1>1 DEF Restart, TypeInv
  <2>2. checkpoint' = Fresh /\ UNCHANGED <<conversation, result, reply, recorded>>
    BY <1>1 DEF Restart, endpointVars
  <2> QED  BY <2>1, <2>2, EmptyIsReal DEF AnswerInv, RecordedWereAnswers, InGraph
<1>2. ASSUME NEW k \in Calls, Respond(k) PROVE AnswerInv'
  <2>1. UNCHANGED <<conversation, stage, result, checkpoint>> /\ reply[k] = NoReply /\ k \notin recorded
    BY <1>2 DEF Respond, AnswerInv, RecordedWereAnswers, NoReply
  <2>2. /\ reply'[k].status # 0
        /\ \A n \in Calls \ {k} : reply'[n] = reply[n] /\ channels'[n] = channels[n]
        /\ channels'[k] \in {channels[k], Fresh}
    BY <1>2 DEF Respond, Answered, TypeInv
  <2>3. recorded' \subseteq recorded \cup {k}
        /\ (k \in recorded' => conversation = "owned" /\ reply'[k].status = 200
                               /\ reply'[k].says \in {"answer", "question"})
    <3>1. CASE UNCHANGED recorded
      BY <2>1, <3>1
    <3>2. CASE recorded' # recorded
      <4>1. /\ stage[k] = "ended" /\ result[k] # "raised" /\ conversation # "foreign" /\ Recorded(k)
            /\ recorded' = recorded \cup {k} /\ Answered(k, 200, result[k], channels[k].error)
        BY <1>2, <3>2 DEF Respond
      <4>2. result[k] \in {"answer", "question"}
        BY <2>1, <4>1, Ranges DEF AnswerInv, Recorded, Results
      <4> QED  BY <4>1, <4>2 DEF Recorded, Persisting, Answered, TypeInv
    <3> QED  BY <3>1, <3>2
  <2>4. RecordedWereAnswers'
    BY <2>1, <2>2, <2>3 DEF AnswerInv, RecordedWereAnswers, TypeInv
  <2>5. \A n \in Calls : reply'[n] = NoReply => n # k
    BY <2>2 DEF NoReply
  <2>6. \A n \in Calls : Real(channels'[n].history, result)
    BY <2>2, EmptyIsReal DEF AnswerInv
  <2>7. \A n \in Calls : stage'[n] = "ended" /\ reply'[n] = NoReply =>
          result'[n] # "none" /\ (result'[n] = "apology" => channels'[n].error)
    BY <2>1, <2>2, <2>5 DEF AnswerInv
  <2> QED  BY <2>1, <2>4, <2>6, <2>7 DEF AnswerInv, InGraph
<1> QED  BY <1>1, <1>2

-----------------------------------------------------------------------------
(* Attempts *)

LEMMA CauseStays ==
  ASSUME TypeInv, lostAnswer \subseteq lostAnswer',
         \A k \in Calls : reply[k] # NoReply => reply'[k] = reply[k],
         NEW u \in 1..MaxUtterances, Cause(u)
  PROVE  Cause(u)'
<1>1. <<u, 1>> \in Calls /\ NoReply.status # 500
  BY DEF Calls, MaxAttempts, NoReply
<1> QED  BY <1>1 DEF Cause

LEMMA AskAsk ==
  ASSUME TypeInv, AskInv, Ask
  PROVE  AskInv'
<1>1. /\ asked' = asked + 1 /\ asked' \in 1..MaxUtterances /\ attempt' = 1 /\ think' = "waiting"
      /\ asked \in Nat /\ attempt \in Nat
  BY ChatGraphAssumption DEF Ask, TypeInv, MaxAttempts
<1>2. UNCHANGED <<lostAnswer, reply, recorded>> /\ stage' = [stage EXCEPT ![<<asked + 1, 1>>] = "sent"]
  BY DEF Ask, Post, endpointVars
<1>3. \A k \in Calls : k[1] > asked' \/ (k[1] = asked' /\ k[2] > attempt') => stage'[k] = "none"
  <2> SUFFICES ASSUME NEW k \in Calls, k[1] > asked' \/ (k[1] = asked' /\ k[2] > attempt')
               PROVE  stage'[k] = "none"
    OBVIOUS
  <2>1. k[1] \in Nat /\ k[2] \in Nat
    BY ChatGraphAssumption DEF Calls, MaxAttempts
  <2>2. k[1] > asked /\ k # <<asked + 1, 1>>
    BY <1>1, <2>1
  <2> QED  BY <1>2, <2>2 DEF AskInv, TypeInv
<1>4. \A u \in 1..MaxUtterances : stage'[<<u, 2>>] # "none" => Cause(u)'
  <2> SUFFICES ASSUME NEW u \in 1..MaxUtterances, stage'[<<u, 2>>] # "none" PROVE Cause(u)
    BY <1>2 DEF Cause
  <2>1. <<u, 2>> \in Calls /\ <<u, 2>> # <<asked + 1, 1>>
    BY DEF Calls, MaxAttempts
  <2> QED  BY <1>2, <2>1 DEF AskInv, TypeInv
<1>5. \A k \in recorded : stage'[k] # "none"
  BY <1>2 DEF AskInv, TypeInv
<1> QED  BY <1>1, <1>2, <1>3, <1>4, <1>5 DEF AskInv, MaxAttempts

LEMMA RetryAsk ==
  ASSUME TypeInv, AskInv, Retry
  PROVE  AskInv'
<1>1. /\ asked' = asked /\ asked \in 1..MaxUtterances /\ attempt = 1 /\ attempt' = 2 /\ think' = "waiting"
      /\ Cause(asked) /\ asked \in Nat
  BY ChatGraphAssumption DEF Retry, AskInv, TypeInv
<1>2. UNCHANGED <<lostAnswer, reply, recorded>> /\ stage' = [stage EXCEPT ![<<asked, 2>>] = "sent"]
  BY <1>1 DEF Retry, Post, endpointVars
<1>3. \A k \in Calls : k[1] > asked' \/ (k[1] = asked' /\ k[2] > attempt') => stage'[k] = "none"
  <2> SUFFICES ASSUME NEW k \in Calls, k[1] > asked' \/ (k[1] = asked' /\ k[2] > attempt')
               PROVE  stage'[k] = "none"
    OBVIOUS
  <2>1. k[1] \in Nat /\ k[2] \in Nat
    BY ChatGraphAssumption DEF Calls, MaxAttempts
  <2>2. (k[1] > asked \/ (k[1] = asked /\ k[2] > attempt)) /\ k # <<asked, 2>>
    BY <1>1, <2>1
  <2> QED  BY <1>2, <2>2 DEF AskInv, TypeInv
<1>4. \A u \in 1..MaxUtterances : stage'[<<u, 2>>] # "none" => Cause(u)'
  <2> SUFFICES ASSUME NEW u \in 1..MaxUtterances, stage'[<<u, 2>>] # "none" PROVE Cause(u)
    BY <1>2 DEF Cause
  <2>1. <<u, 2>> \in Calls /\ (u # asked => <<u, 2>> # <<asked, 2>>)
    BY DEF Calls, MaxAttempts
  <2> QED  BY <1>1, <1>2, <2>1 DEF AskInv, TypeInv
<1>5. \A k \in recorded : stage'[k] # "none"
  BY <1>2 DEF AskInv, TypeInv
<1> QED  BY <1>1, <1>2, <1>3, <1>4, <1>5 DEF AskInv, MaxAttempts

LEMMA AnswerAsk ==
  ASSUME TypeInv, AskInv, GetReply \/ LoseAnswer \/ Interrupt
  PROVE  AskInv'
<1>1. UNCHANGED <<asked, attempt, stage, reply, recorded>> /\ lostAnswer \subseteq lostAnswer'
  BY DEF GetReply, LoseAnswer, Interrupt, graphVars, endpointVars
<1>2. \A u \in 1..MaxUtterances : Cause(u) => Cause(u)'
  BY <1>1 DEF Cause
<1>3. think' # "waiting" /\ (think' = "pausing" => asked \in 1..MaxUtterances /\ attempt = 1 /\ Cause(asked)')
  <2>1. CASE Interrupt
    BY <2>1 DEF Interrupt
  <2>2. CASE LoseAnswer
    BY <2>2 DEF LoseAnswer, TryAgain, AskInv, MaxAttempts, Cause
  <2>3. CASE GetReply
    <3>1. think = "waiting" /\ think' # "waiting"
          /\ (think' = "pausing" => attempt < 2 /\ reply[<<asked, attempt>>].status \in {429, 500})
      BY <2>3 DEF GetReply, TryAgain, Retried, StatusRetriable, Current, MaxAttempts
    <3>2. asked \in 1..MaxUtterances /\ attempt \in 1..2
      BY <3>1 DEF AskInv, MaxAttempts
    <3>3. think' = "pausing" => attempt = 1 /\ reply[<<asked, 1>>].status \in {429, 500}
      BY <3>1, <3>2
    <3>4. reply[<<asked, 1>>] \in Replies
      BY <3>2 DEF TypeInv, Calls, MaxAttempts
    <3>5. think' = "pausing" => reply[<<asked, 1>>].status = 500
      BY <3>3, <3>4 DEF Replies
    <3> QED  BY <1>1, <3>1, <3>2, <3>3, <3>5 DEF Cause
  <2> QED  BY <2>1, <2>2, <2>3
<1> QED  BY <1>1, <1>2, <1>3 DEF AskInv

LEMMA OtherAsk ==
  ASSUME TypeInv, AskInv, Restart \/ \E k \in Calls : Graph(k) \/ Respond(k)
  PROVE  AskInv'
<1>1. UNCHANGED callerVars /\ \A k \in Calls : stage'[k] = "none" <=> stage[k] = "none"
  <2>1. ASSUME NEW k \in Calls, Graph(k)
        PROVE  UNCHANGED callerVars /\ stage[k] # "none" /\ \E to : to # "none" /\ stage' = [stage EXCEPT ![k] = to]
    BY <2>1 DEF Graph, Start, Detect, Clarify, Think, NodeEnds
  <2>2. ASSUME NEW k \in Calls, Respond(k) PROVE UNCHANGED callerVars /\ stage' = stage
    BY <2>2 DEF Respond
  <2>3. ASSUME Restart
        PROVE  UNCHANGED callerVars /\ \A k \in Calls : stage'[k] = "none" <=> stage[k] = "none"
    BY <2>3 DEF Restart
  <2> QED  BY <2>1, <2>2, <2>3 DEF TypeInv
<1>2. \A k \in Calls : reply[k] # NoReply => reply'[k] = reply[k]
  <2>1. ASSUME NEW k \in Calls, Respond(k) PROVE \A n \in Calls : reply[n] # NoReply => reply'[n] = reply[n]
    <3>1. reply[k] = NoReply /\ \E r : reply' = [reply EXCEPT ![k] = r]
      BY <2>1 DEF Respond, Answered
    <3> QED  BY <3>1 DEF TypeInv
  <2>2. (Restart \/ \E k \in Calls : Graph(k)) => reply' = reply
    BY DEF Graph, Start, Detect, Clarify, Think, NodeEnds, Restart, endpointVars
  <2> QED  BY <2>1, <2>2
<1>3. \A u \in 1..MaxUtterances : (Cause(u) => Cause(u)') /\ <<u, 2>> \in Calls
  BY <1>1, <1>2, CauseStays DEF callerVars, Calls, MaxAttempts
<1>4. \A k \in recorded' : stage'[k] # "none"
  <2>1. recorded' \subseteq Calls /\ \A k \in recorded' : k \in recorded \/ stage[k] = "ended"
    BY DEF Graph, Start, Detect, Clarify, Think, NodeEnds, Respond, Restart, endpointVars, TypeInv
  <2> QED  BY <1>1, <2>1 DEF AskInv
<1> QED  BY <1>1, <1>3, <1>4 DEF AskInv, callerVars

-----------------------------------------------------------------------------
(* A turn that was alone *)

(* Nobody that is in the graph after a step was not before, and nothing    *)
(* they read has changed.                                                  *)
LEMMA AsideSafe ==
  ASSUME TypeInv, SafeInv, UNCHANGED <<result, checkpoint, safe>>,
         \A k \in Calls : /\ InGraph(k)' => InGraph(k) /\ channels'[k] = channels[k]
                          /\ stage[k] \notin {"none", "sent"} => stage'[k] \notin {"none", "sent"}
  PROVE  SafeInv'
<1>1. \A k \in safe : k \in Calls /\ OtherCalls(k)' \subseteq OtherCalls(k)
  BY DEF OtherCalls, TypeInv
<1> QED  BY <1>1 DEF SafeInv, TypeInv

LEMMA CallerSafe ==
  ASSUME TypeInv, AskInv, SafeInv, Caller \/ Interrupt
  PROVE  SafeInv'
<1>1. UNCHANGED <<result, checkpoint, safe, channels>>
  BY DEF Caller, Interrupt, Ask, GetReply, LoseAnswer, Retry, graphVars
<1>2. stage' = stage \/ \E k : stage' = [stage EXCEPT ![k] = "sent"] /\ (k \in Calls => stage[k] = "none")
  <2>1. CASE Ask
    <3>1. <<asked + 1, 1>> \in Calls => stage[<<asked + 1, 1>>] = "none"
      BY DEF AskInv, TypeInv
    <3>2. stage' = [stage EXCEPT ![<<asked + 1, 1>>] = "sent"]
      BY <2>1 DEF Ask, Post
    <3> QED  BY <3>1, <3>2, Zenon
  <2>2. CASE Retry
    <3>1. <<asked, attempt + 1>> \in Calls => stage[<<asked, attempt + 1>>] = "none"
      BY DEF AskInv, TypeInv, MaxAttempts
    <3>2. stage' = [stage EXCEPT ![<<asked, attempt + 1>>] = "sent"]
      BY <2>2 DEF Retry, Post
    <3> QED  BY <3>1, <3>2, Zenon
  <2>3. CASE GetReply \/ LoseAnswer \/ Interrupt
    BY <2>3 DEF GetReply, LoseAnswer, Interrupt, graphVars
  <2> QED  BY <2>1, <2>2, <2>3 DEF Caller
<1>3. \A k \in Calls : /\ InGraph(k)' => InGraph(k)
                       /\ stage[k] \notin {"none", "sent"} => stage'[k] \notin {"none", "sent"}
  BY <1>2 DEF InGraph, TypeInv
<1> QED  BY <1>1, <1>3, AsideSafe

LEMMA EndSafe ==
  ASSUME TypeInv, SafeInv, Restart \/ \E k \in Calls : Respond(k)
  PROVE  SafeInv'
<1>1. ASSUME NEW k \in Calls, Respond(k) PROVE SafeInv'
  <2>1. UNCHANGED <<stage, result, checkpoint, safe>>
        /\ (channels' = channels \/ (stage[k] = "ended" /\ channels' = [channels EXCEPT ![k] = Fresh]))
    BY <1>1 DEF Respond
  <2>2. \A n \in Calls : InGraph(n)' => InGraph(n) /\ channels'[n] = channels[n]
    BY <2>1 DEF InGraph, TypeInv
  <2> QED  BY <2>1, <2>2, AsideSafe
<1>2. Restart => SafeInv'
  BY DEF Restart, SafeInv
<1> QED  BY <1>1, <1>2

LEMMA StartSafe ==
  ASSUME TypeInv, AnswerInv, SafeInv, NEW k \in Calls, Start(k)
  PROVE  SafeInv'
<1>1. /\ stage[k] = "sent" /\ stage' = [stage EXCEPT ![k] = "detecting"] /\ result' = result
      /\ channels' = [channels EXCEPT ![k] = checkpoint] /\ checkpoint' = checkpoint
      /\ safe' = IF OtherCalls(k) = {} THEN safe \cup {k} ELSE safe \ OtherCalls(k)
  BY DEF Start, Loaded
<1>2. result[k] = "none" /\ ~InGraph(k) /\ OtherCalls(k)' = OtherCalls(k)
  BY <1>1 DEF AnswerInv, InGraph, OtherCalls, TypeInv
<1>3. \A n \in Calls \ {k} : (InGraph(n)' <=> InGraph(n)) /\ channels'[n] = channels[n]
  BY <1>1 DEF InGraph, TypeInv
<1>4. k \in safe' => channels'[k] = checkpoint' /\ OtherCalls(k)' = {}
  <2>1. k \notin safe
    BY <1>1 DEF SafeInv
  <2>2. k \in safe' => OtherCalls(k) = {}
    BY <1>1, <2>1
  <2>3. channels'[k] = checkpoint'
    BY <1>1 DEF TypeInv
  <2> QED  BY <1>2, <2>2, <2>3
<1>5. ASSUME NEW n \in safe', n # k
      PROVE  n \in safe /\ ~InGraph(n)' /\ stage'[n] \notin {"none", "sent"}
  BY <1>1, <1>2, <1>3, <1>5 DEF SafeInv, OtherCalls, TypeInv
<1>6. ASSUME NEW n \in safe', n # k, result[n] = "answer"
      PROVE  Holds(n, checkpoint'.history) /\ \A j \in Calls : InGraph(j)' => Holds(n, channels'[j].history)
  <2>1. Holds(n, checkpoint.history) /\ \A j \in Calls : InGraph(j) => Holds(n, channels[j].history)
    BY <1>5, <1>6 DEF SafeInv
  <2> QED  BY <1>1, <1>3, <2>1 DEF TypeInv
<1>7. k \in safe' => stage'[k] = "detecting" /\ result'[k] # "answer"
  BY <1>1, <1>2 DEF TypeInv
<1> QED  BY <1>1, <1>4, <1>5, <1>6, <1>7 DEF SafeInv

LEMMA SaveSafe ==
  ASSUME TypeInv, AnswerInv, SafeInv, NEW k \in Calls, Detect(k) \/ Clarify(k) \/ Think(k)
  PROVE  SafeInv'
<1>1. InGraph(k) /\ result[k] = "none" /\ safe' = safe
  BY DEF Detect, Clarify, Think, NodeEnds, InGraph, AnswerInv
<1>2. \A n \in Calls \ {k} : /\ InGraph(n)' <=> InGraph(n)
                             /\ channels'[n] = channels[n] /\ result'[n] = result[n]
  BY DEF Detect, Clarify, Think, NodeEnds, Save, InGraph, TypeInv
<1>3. \A n \in safe : n # k => ~InGraph(n)
  BY <1>1 DEF SafeInv, OtherCalls, TypeInv
<1>4. OtherCalls(k)' = OtherCalls(k)
  BY <1>2 DEF OtherCalls
<1>5. InGraph(k)' => Detect(k) /\ channels'[k] = channels[k] /\ checkpoint' = channels[k]
                     /\ result' = result
  BY DEF Detect, Clarify, Think, NodeEnds, Save, InGraph, TypeInv
<1>6. \/ channels'[k].history = channels[k].history /\ checkpoint'.history = channels[k].history
         /\ result'[k] # "answer"
      \/ channels' = channels /\ checkpoint' = checkpoint /\ result'[k] # "answer"
      \/ /\ channels'[k].history = LatestTurns(Append(channels[k].history, k))
         /\ checkpoint'.history = LatestTurns(Append(channels[k].history, k))
  <2>1. CASE Detect(k) \/ Clarify(k)
    BY <1>1, <2>1 DEF Detect, Clarify, NodeEnds, Save, TypeInv
  <2>2. CASE Think(k)
    <3>1. CASE NodeEnds(k, "raised") /\ UNCHANGED <<channels, checkpoint>>
      BY <3>1 DEF NodeEnds, TypeInv
    <3>2. ASSUME NEW how \in {"answer", "apology"}, NodeEnds(k, how),
                 Save(k, [history |-> Remember(channels[k].history, k, how), error |-> how = "apology"])
          PROVE  \/ /\ channels'[k].history = channels[k].history /\ checkpoint'.history = channels[k].history
                    /\ result'[k] # "answer"
                 \/ /\ channels'[k].history = LatestTurns(Append(channels[k].history, k))
                    /\ checkpoint'.history = LatestTurns(Append(channels[k].history, k))
      BY <3>2 DEF NodeEnds, Save, TypeInv, Remember
    <3> QED  BY <2>2, <3>1, <3>2 DEF Think
  <2> QED  BY <2>1, <2>2
<1>7. Remembers(k, channels[k].history, LatestTurns(Append(channels[k].history, k)))
  BY Ranges, RememberTurn DEF AnswerInv, Real
<1>8. ASSUME NEW n \in safe, n # k, result[n] = "answer"
      PROVE  Holds(n, checkpoint'.history) /\ \A j \in Calls : InGraph(j)' => Holds(n, channels'[j].history)
  <2>1. n \in Calls /\ Holds(n, checkpoint.history) /\ \A j \in Calls : InGraph(j) => Holds(n, channels[j].history)
    BY <1>8 DEF SafeInv, TypeInv
  <2>2. Holds(n, checkpoint'.history) /\ Holds(n, channels'[k].history)
    BY <1>1, <1>6, <1>7, <2>1 DEF Remembers
  <2> QED  BY <1>2, <2>1, <2>2
<1>9. ASSUME k \in safe, result'[k] = "answer"
      PROVE  Holds(k, checkpoint'.history) /\ \A j \in Calls : InGraph(j)' => Holds(k, channels'[j].history)
  <2>1. \A j \in Calls : ~InGraph(j)'
    BY <1>1, <1>2, <1>5, <1>9 DEF SafeInv, OtherCalls
  <2>2. Holds(k, checkpoint'.history)
    BY <1>6, <1>7, <1>9 DEF Remembers, Holds
  <2> QED  BY <2>1, <2>2
<1>10. \A n \in safe : stage'[n] \notin {"none", "sent"}
  BY DEF Detect, Clarify, Think, NodeEnds, SafeInv, TypeInv
<1>11. k \in safe /\ InGraph(k)' => channels'[k] = checkpoint' /\ OtherCalls(k)' = {}
  BY <1>1, <1>4, <1>5 DEF SafeInv
<1> QED  BY <1>1, <1>2, <1>3, <1>8, <1>9, <1>10, <1>11 DEF SafeInv, TypeInv

-----------------------------------------------------------------------------
(* The theorems *)

LEMMA StepInv == Inv /\ [GraphNext]_chatVars => Inv'
<1> SUFFICES ASSUME Inv, [GraphNext]_chatVars PROVE Inv'
  OBVIOUS
<1> USE DEF Inv
<1>1. CASE Caller \/ Interrupt
  BY <1>1, AskType, CallerAnswers, AskAsk, RetryAsk, AnswerAsk, CallerSafe DEF Caller
<1>2. ASSUME NEW k \in Calls, Graph(k) PROVE Inv'
  BY <1>2, GraphType, GraphAnswers, OtherAsk, StartSafe, SaveSafe DEF Graph
<1>3. CASE Restart \/ \E k \in Calls : Respond(k)
  BY <1>3, EndType, EndAnswers, OtherAsk, EndSafe
<1>4. CASE UNCHANGED chatVars
  BY <1>4 DEF chatVars, callerVars, graphVars, endpointVars, TypeInv, AnswerInv, RecordedWereAnswers,
              AskInv, Cause, SafeInv, InGraph, OtherCalls
<1> QED  BY <1>1, <1>2, <1>3, <1>4 DEF GraphNext

LEMMA Always == GraphSpec => []Inv
BY InitInv, StepInv, PTL DEF GraphSpec

(* Whatever calls overlap, are given up or asked again, and whenever the   *)
(* backend restarts: what the model is shown and what is recorded were     *)
(* answers, in the caller's conversation (api/main.py, supervisor/graph.py)*)
THEOREM AnswersKept == GraphSpec => []OnlyAnswersKept
<1>1. Inv => OnlyAnswersKept
  BY DEF Inv, OnlyAnswersKept, GraphTypeOK, TypeInv, AnswerInv, Real, RememberedWereAnswers, Stages, Results
<1> QED  BY <1>1, Always, PTL

(* A turn is lost from a thread only to a call that overlapped it, and     *)
(* kept twice only if the gateway did not hear of its answer.              *)
THEOREM NothingLost == GraphSpec => []KeptOnce
<1>1. Inv => LostOnlyByOverlap
  BY DEF Inv, SafeInv, LostOnlyByOverlap, Holds
<1>2. Inv => TwiceOnlyIfLost
  <2> SUFFICES ASSUME Inv, NEW u \in 1..MaxUtterances,
                      \/ {<<u, 1>>, <<u, 2>>} \subseteq TurnsOf(checkpoint.history)
                      \/ {<<u, 1>>, <<u, 2>>} \subseteq recorded
               PROVE  u \in lostAnswer \/ (reply[<<u, 1>>].status = 500 /\ result[<<u, 1>>] # "raised")
    BY DEF TwiceOnlyIfLost
  <2>1. <<u, 1>> \in Calls /\ <<u, 2>> \in Calls
    BY DEF Calls, MaxAttempts
  <2>2. CASE {<<u, 1>>, <<u, 2>>} \subseteq TurnsOf(checkpoint.history)
    <3>1. result[<<u, 1>>] = "answer" /\ result[<<u, 2>>] = "answer"
      BY <2>2 DEF Inv, AnswerInv, Real
    <3>2. stage[<<u, 2>>] # "none"
      BY <2>1, <3>1 DEF Inv, AnswerInv
    <3> QED  BY <3>1, <3>2 DEF Inv, AskInv, Cause
  <2>3. CASE {<<u, 1>>, <<u, 2>>} \subseteq recorded
    <3>1. reply[<<u, 1>>].status = 200 /\ stage[<<u, 2>>] # "none"
      BY <2>3 DEF Inv, AnswerInv, RecordedWereAnswers, AskInv
    <3> QED  BY <3>1 DEF Inv, AskInv, Cause
  <2> QED  BY <2>2, <2>3
<1> QED  BY <1>1, <1>2, Always, PTL DEF KeptOnce

-----------------------------------------------------------------------------
(* While no answer is lost *)

(* The gateway has one call at work, the one it waits for, and that one is *)
(* alone.                                                                  *)
AtWork(k) == stage[k] = "sent" \/ InGraph(k)
CalmInv ==
  calm => \A k \in Calls :
    /\ reply[k] # NoReply => stage[k] = "ended"
    /\ AtWork(k) => k = Current /\ think = "waiting"
    /\ InGraph(k) => k \in safe

LEMMA CallerCalm ==
  ASSUME Inv, CalmInv, Caller \/ Interrupt
  PROVE  CalmInv'
<1> SUFFICES ASSUME calm PROVE CalmInv'
  BY DEF CalmInv, Caller, Interrupt, Ask, GetReply, LoseAnswer, Retry
<1> USE DEF Inv
<1>1. UNCHANGED <<calm, reply, safe>>
  BY DEF Caller, Interrupt, Ask, GetReply, LoseAnswer, Retry, graphVars, endpointVars
<1>2. ASSUME NEW k, Post(k), k = Current', think' = "waiting", think # "waiting", k \in Calls => stage[k] = "none"
      PROVE  CalmInv'
  <2>1. \A n \in Calls : stage'[n] = stage[n] \/ (n = k /\ stage[n] = "none" /\ stage'[n] = "sent")
    BY <1>2 DEF Post, TypeInv
  <2>2. \A n \in Calls : ~AtWork(n)
    BY <1>2 DEF CalmInv
  <2> QED  BY <1>1, <1>2, <2>1, <2>2 DEF CalmInv, AtWork, InGraph
<1>3. CASE Ask
  <2>1. <<asked + 1, 1>> \in Calls => stage[<<asked + 1, 1>>] = "none"
    BY DEF AskInv, TypeInv
  <2> QED  BY <1>2, <1>3, <2>1 DEF Ask, Current
<1>4. CASE Retry
  <2>1. <<asked, attempt + 1>> \in Calls => stage[<<asked, attempt + 1>>] = "none"
    BY DEF AskInv, TypeInv, MaxAttempts
  <2> QED  BY <1>2, <1>4, <2>1 DEF Retry, Current
<1>5. CASE GetReply \/ LoseAnswer
  <2>1. Current \in Calls
    BY <1>5 DEF GetReply, LoseAnswer, AskInv, Current, Calls
  <2>2. stage[Current] \in {"ended", "dead"} /\ stage' = stage
    BY <1>5, <2>1 DEF GetReply, LoseAnswer, AnswerLost, CalmInv, graphVars
  <2>3. \A k \in Calls : ~AtWork(k)
    BY <2>2 DEF CalmInv, AtWork, InGraph
  <2> QED  BY <1>1, <2>2, <2>3 DEF CalmInv, AtWork, InGraph
<1> QED  BY <1>3, <1>4, <1>5 DEF Caller, Interrupt

LEMMA BackendCalm ==
  ASSUME Inv, CalmInv, Restart \/ \E k \in Calls : Graph(k) \/ Respond(k)
  PROVE  CalmInv'
<1> SUFFICES ASSUME calm PROVE CalmInv'
  BY DEF CalmInv, Restart, Graph, Start, Detect, Clarify, Think, NodeEnds, Respond
<1> USE DEF Inv
<1>1. ASSUME NEW k \in Calls, Graph(k) PROVE CalmInv'
  <2>1. AtWork(k) /\ UNCHANGED <<calm, reply, callerVars>>
    BY <1>1 DEF Graph, Start, Detect, Clarify, Think, NodeEnds, AtWork, InGraph, endpointVars
  <2>2. \A n \in Calls \ {k} : stage'[n] = stage[n] /\ ~AtWork(n)
    BY <1>1, <2>1 DEF Graph, Start, Detect, Clarify, Think, NodeEnds, CalmInv, TypeInv
  <2>3. reply[k] = NoReply
    BY <2>1 DEF CalmInv, AtWork, InGraph
  <2>4. OtherCalls(k) = {}
    BY <2>2 DEF OtherCalls, AtWork
  <2>5. k \in safe'
    BY <1>1, <2>4 DEF Graph, Start, Detect, Clarify, Think, NodeEnds, CalmInv, InGraph
  <2> QED  BY <2>1, <2>2, <2>3, <2>5 DEF CalmInv, AtWork, InGraph, Current, callerVars
<1>2. ASSUME NEW k \in Calls, Respond(k) PROVE CalmInv'
  <2>1. stage[k] = "ended" /\ UNCHANGED <<calm, stage, safe, callerVars>>
    BY <1>2 DEF Respond
  <2>2. \A n \in Calls \ {k} : reply'[n] = reply[n]
    BY <1>2 DEF Respond, Answered, TypeInv
  <2> QED  BY <2>1, <2>2 DEF CalmInv, AtWork, InGraph, Current, callerVars
<1>3. ASSUME Restart PROVE CalmInv'
  <2>1. \A n \in Calls : stage'[n] = stage[n] \/ (reply[n] = NoReply /\ stage'[n] = "dead")
    BY <1>3 DEF Restart, TypeInv
  <2>2. \A n \in Calls : AtWork(n) => stage'[n] = "dead"
    BY <1>3 DEF Restart, CalmInv, AtWork, InGraph, TypeInv
  <2>3. UNCHANGED <<calm, reply, callerVars>>
    BY <1>3 DEF Restart, endpointVars
  <2> QED  BY <2>1, <2>2, <2>3 DEF CalmInv, AtWork, InGraph
<1> QED  BY <1>1, <1>2, <1>3

-----------------------------------------------------------------------------
MemoryIs(h) == [s \in {"graph"} |-> [t \in {"thread"} |-> IF calm THEN h ELSE <<>>]]

LEMMA AddsTurn ==
  ASSUME calm, calm' = calm, NEW k \in Calls, k \notin TurnsOf(checkpoint.history), Inv,
         checkpoint'.history = LatestTurns(Append(checkpoint.history, k))
  PROVE  Memory!Next
<1> DEFINE m == MemoryIs(checkpoint.history)
<1>1. m["graph"]["thread"] = checkpoint.history
  BY DEF MemoryIs
<1>2. MemoryIs(checkpoint.history)' =
        [m EXCEPT !["graph"] =
          [u \in {"thread"} |-> IF u = "thread" THEN LatestTurns(Append(@["thread"], k))
                                ELSE IF u \in {} THEN <<>> ELSE @[u]]]
  BY DEF MemoryIs
<1>3. \A i \in 1..Len(checkpoint.history) : checkpoint.history[i] # k
  BY Ranges, LenProperties DEF TurnsOf, Inv
<1>4. Memory!Add("graph", "thread", k)
  BY <1>1, <1>2, <1>3 DEF Memory!Add, MemoryIs, Memory!LatestTurns, LatestTurns
<1> QED  BY <1>4 DEF Memory!Next

LEMMA StepMemory ==
  ASSUME Inv, CalmInv, [GraphNext]_chatVars
  PROVE  [Memory!Next]_(MemoryIs(checkpoint.history))
<1>1. calm' = calm
  BY DEF GraphNext, Caller, Interrupt, Ask, GetReply, LoseAnswer, Retry, Graph, Start, Detect, Clarify, Think,
         NodeEnds, Respond, Restart, chatVars
<1>2. CASE checkpoint' = checkpoint \/ ~calm
  BY <1>1, <1>2 DEF MemoryIs
<1>3. ASSUME calm, NEW k \in Calls, Graph(k)
      PROVE  [Memory!Next]_(MemoryIs(checkpoint.history))
  <2>1. CASE Start(k)
    BY <1>1, <2>1 DEF Start, Loaded, MemoryIs
  <2>2. ASSUME InGraph(k) PROVE channels[k].history = checkpoint.history /\ k \notin TurnsOf(checkpoint.history)
    BY <1>3, <2>2 DEF Inv, CalmInv, SafeInv, AnswerInv, Real
  <2>3. CASE Detect(k) \/ Clarify(k)
    BY <1>1, <2>2, <2>3 DEF Detect, Clarify, Save, InGraph, MemoryIs
  <2>4. CASE Think(k)
    <3>1. CASE UNCHANGED checkpoint
      BY <1>1, <3>1 DEF MemoryIs
    <3>2. ASSUME NEW how \in {"answer", "apology"},
                 checkpoint' = [history |-> Remember(channels[k].history, k, how), error |-> how = "apology"]
          PROVE  [Memory!Next]_(MemoryIs(checkpoint.history))
      <4>1. checkpoint'.history = Remember(checkpoint.history, k, how) /\ k \notin TurnsOf(checkpoint.history)
        BY <2>2, <2>4, <3>2 DEF Think, InGraph
      <4>2. CASE how = "apology"
        BY <1>1, <4>1, <4>2 DEF Remember, MemoryIs
      <4>3. CASE how = "answer"
        BY <1>1, <1>3, <4>1, <4>3, AddsTurn DEF Remember
      <4> QED  BY <4>2, <4>3
    <3> QED  BY <2>4, <3>1, <3>2 DEF Think, Save
  <2> QED  BY <1>3, <2>1, <2>3, <2>4 DEF Graph
<1>4. ASSUME calm, Restart PROVE Memory!Next
  <2>1. MemoryIs(checkpoint.history)' =
          [MemoryIs(checkpoint.history) EXCEPT !["graph"] =
            [t \in {"thread"} |-> IF t \in {"thread"} THEN <<>> ELSE @[t]]]
    BY <1>1, <1>4 DEF Restart, MemoryIs, Fresh
  <2>2. Memory!Forget("graph", {"thread"})
    BY <2>1 DEF Memory!Forget, MemoryIs
  <2> QED  BY <2>2 DEF Memory!Next
<1>5. CASE Caller \/ Interrupt \/ (\E k \in Calls : Respond(k)) \/ UNCHANGED chatVars
  BY <1>2, <1>5 DEF Caller, Interrupt, Ask, GetReply, LoseAnswer, Retry, Respond, graphVars, chatVars
<1> QED  BY <1>2, <1>3, <1>4, <1>5 DEF GraphNext

(* While no answer is lost, nobody interrupts and the table answers, the   *)
(* checkpoint is the memory a user expects: every answered turn at its end,*)
(* in order (supervisor/graph.py:102-150).                                 *)
THEOREM CheckpointIsMemory == GraphSpec => ImplementsThreadMemory
<1>1. GraphInit => CalmInv /\ Memory!Init
  <2>1. GraphInit => CalmInv
    BY DEF GraphInit, CalmInv, AtWork, InGraph
  <2> QED  BY <2>1 DEF GraphInit, Memory!Init, Fresh
<1>2. Inv /\ CalmInv /\ [GraphNext]_chatVars => CalmInv'
  <2> SUFFICES ASSUME Inv, CalmInv, [GraphNext]_chatVars PROVE CalmInv'
    OBVIOUS
  <2>1. CASE UNCHANGED chatVars
    BY <2>1 DEF chatVars, callerVars, graphVars, endpointVars, CalmInv, AtWork, InGraph, Current
  <2> QED  BY <2>1, CallerCalm, BackendCalm DEF GraphNext
<1>3. Inv /\ CalmInv /\ [GraphNext]_chatVars
        => [Memory!Next]_([s \in {"graph"} |-> [t \in {"thread"} |-> IF calm THEN checkpoint.history ELSE <<>>]])
  BY StepMemory DEF MemoryIs
<1> QED  BY <1>1, <1>2, <1>3, Always, PTL DEF GraphSpec, ImplementsThreadMemory, Memory!Spec
=============================================================================
