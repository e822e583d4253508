--------------------------- MODULE ServicesProofs ---------------------------
(***************************************************************************)
(* The connectors, the threads and the lineages, each for any number of    *)
(* children, calls and records.                                            *)
(*                                                                         *)
(* Connectors: a child that runs unregistered is left by a restart.  Every *)
(* action that takes the registered child out of the map either ends it or *)
(* is about a child that has gone, and no child is ever unborn again.      *)
(*                                                                         *)
(* Threads: of two answered questions, one at least was answered with the  *)
(* other in its history.  Each call stores its question before it reads    *)
(* the thread, so of two that have both read it, the one that read last    *)
(* found the other's question.                                             *)
(*                                                                         *)
(* Lineages: a record never moves what its lineage is given credit for the *)
(* wrong way, by arithmetic on the counts before and after it.             *)
(***************************************************************************)
EXTENDS Connectors, Threads, StrategyLineage, TLAPS

\* The initial state is of the types.
LEMMA ServerStarts == ServerInit => ServerTypeOK /\ OnlyRestartOrphans
BY DEF ServerInit, ServerTypeOK, OnlyRestartOrphans

\* Each step keeps the types.
LEMMA ServerTyping == ASSUME ServerTypeOK, [ServerNext]_connectorVars PROVE ServerTypeOK'
<1> USE DEF ServerTypeOK
<1>1. CASE UNCHANGED connectorVars
  BY <1>1 DEF connectorVars
<1>2. ASSUME NEW k \in Children, Start(k) PROVE ServerTypeOK'
  BY <1>2 DEF Start
<1>3. ASSUME NEW k \in Children, HttpAnswers(k) PROVE ServerTypeOK'
  BY <1>3 DEF HttpAnswers
<1>4. ASSUME NEW k \in Children, Answer(k) PROVE ServerTypeOK'
  BY <1>4 DEF Answer
<1>5. ASSUME NEW k \in Children, DiscoveryFails(k) PROVE ServerTypeOK'
  BY <1>5 DEF DiscoveryFails, KillServer, Killing
<1>6. ASSUME NEW k \in Children, ErrorEvent(k) PROVE ServerTypeOK'
  BY <1>6 DEF ErrorEvent
<1>7. ASSUME NEW k \in Children, ExitEvent(k) PROVE ServerTypeOK'
  BY <1>7 DEF ExitEvent
<1>8. CASE Stop
  BY <1>8 DEF Stop, KillServer, Killing
<1> QED
  BY <1>1, <1>2, <1>3, <1>4, <1>5, <1>6, <1>7, <1>8 DEF ServerNext

\* The server, its children and its starts are of their types.
THEOREM ServerTypesKept == ServerSpec => []ServerTypeOK
<1>1. ServerInit => ServerTypeOK
  BY ServerStarts
<1>2. ServerTypeOK /\ [ServerNext]_connectorVars => ServerTypeOK'
  BY ServerTyping
<1> QED
  BY <1>1, <1>2, PTL DEF ServerSpec

\* A child that was started stays so.
LEMMA BornForGood ==
  ASSUME ServerTypeOK, [ServerNext]_connectorVars, NEW k \in Children, child[k] # "unborn"
  PROVE  child'[k] # "unborn"
<1>1. CASE UNCHANGED connectorVars
  BY <1>1 DEF connectorVars
<1>2. ASSUME NEW j \in Children, Start(j) PROVE child'[k] # "unborn"
  BY <1>2 DEF Start, ServerTypeOK
<1>3. ASSUME NEW j \in Children, HttpAnswers(j) \/ Answer(j) PROVE child'[k] # "unborn"
  BY <1>3 DEF HttpAnswers, Answer
<1>4. ASSUME NEW j \in Children, DiscoveryFails(j) PROVE child'[k] # "unborn"
  BY <1>4 DEF DiscoveryFails, KillServer, Killing
<1>5. ASSUME NEW j \in Children, ErrorEvent(j) \/ ExitEvent(j) PROVE child'[k] # "unborn"
  BY <1>5 DEF ErrorEvent, ExitEvent, ServerTypeOK
<1>6. CASE Stop
  BY <1>6 DEF Stop, KillServer, Killing
<1> QED
  BY <1>1, <1>2, <1>3, <1>4, <1>5, <1>6 DEF ServerNext

\* Killing the registered child leaves no other sort of running child than before.
LEMMA KillLeavesOrphans ==
  ASSUME ServerTypeOK, OnlyRestartOrphans, KillServer, NEW k \in Children, child'[k] = "running"
  PROVE  \E j \in Children \ {k} : child[j] # "unborn"
<1>1. child[k] = "running" /\ registered # k
  BY DEF KillServer, Killing
<1> QED
  BY <1>1 DEF OnlyRestartOrphans

\* Each step keeps running children registered, but for those of restarts.
LEMMA OrphansStep ==
  ASSUME ServerTypeOK, OnlyRestartOrphans, [ServerNext]_connectorVars PROVE OnlyRestartOrphans'
<1> SUFFICES ASSUME NEW k \in Children, child'[k] = "running",
                    registered' # k \/ status' = "disabled"
             PROVE  \E j \in Children \ {k} : child[j] # "unborn" \/ child'[j] # "unborn"
  BY BornForGood DEF OnlyRestartOrphans
<1>1. CASE UNCHANGED connectorVars
  BY <1>1 DEF connectorVars, OnlyRestartOrphans
<1>2. ASSUME NEW j \in Children, Start(j)
      PROVE  \E i \in Children \ {k} : child[i] # "unborn" \/ child'[i] # "unborn"
  <2>1. child'[j] # "unborn"
    BY <1>2 DEF Start, ServerTypeOK
  <2>2. j # k
    BY <1>2 DEF Start, ServerTypeOK
  <2> QED
    BY <2>1, <2>2
<1>3. ASSUME NEW j \in Children, HttpAnswers(j) \/ Answer(j)
      PROVE  \E i \in Children \ {k} : child[i] # "unborn" \/ child'[i] # "unborn"
  <2>1. child[k] = "running" /\ (registered # k \/ status = "disabled")
    BY <1>3 DEF HttpAnswers, Answer, OnlyRestartOrphans
  <2> QED
    BY <2>1 DEF OnlyRestartOrphans
<1>4. ASSUME NEW j \in Children, DiscoveryFails(j)
      PROVE  \E i \in Children \ {k} : child[i] # "unborn" \/ child'[i] # "unborn"
  BY <1>4, KillLeavesOrphans DEF DiscoveryFails
<1>5. ASSUME NEW j \in Children, ErrorEvent(j) \/ ExitEvent(j)
      PROVE  \E i \in Children \ {k} : child[i] # "unborn" \/ child'[i] # "unborn"
  <2>1. child'[j] = "gone"
    BY <1>5 DEF ErrorEvent, ExitEvent, ServerTypeOK
  <2>2. j # k
    BY <2>1
  <2> QED
    BY <2>1, <2>2
<1>6. CASE Stop
  BY <1>6, KillLeavesOrphans DEF Stop
<1> QED
  BY <1>1, <1>2, <1>3, <1>4, <1>5, <1>6 DEF ServerNext

\* A child that runs and is not registered, or runs while its server is called
\* disabled, is left by a restart, however many starts, stops, timeouts and
\* events there are.
THEOREM OrphansOfRestarts == ServerSpec => []OnlyRestartOrphans
<1>1. ServerInit => OnlyRestartOrphans
  BY ServerStarts
<1>2. ServerTypeOK /\ OnlyRestartOrphans /\ [ServerNext]_connectorVars => OnlyRestartOrphans'
  BY OrphansStep
<1> QED
  BY <1>1, <1>2, ServerTypesKept, PTL DEF ServerSpec

-----------------------------------------------------------------------------

\* The owner's message of a call.
Asked(c) == [call |-> c, actor |-> "owner"]

\* Calls to the supervisor that have read the thread.
HasHeard(c) == pc[c].at \in {"gather", "notes", "review", "reply"} \/ Replied(c)

\* Where a call is that has no answer of the supervisor's.
Unheard == {"idle", "ask", "hear", "question", "answer"}

\* A question that has been asked is in the thread, and of two calls that have
\* read it one knows the other's.
ThreadInv ==
  \A c \in Calls :
    /\ At(c, "hear") \/ HasHeard(c) => Asked(c) \in messages
    /\ pc[c].at \in Unheard => ~Replied(c)
    /\ \A d \in Calls \ {c} : HasHeard(c) /\ HasHeard(d) => Knew(c, d) \/ Knew(d, c)

-----------------------------------------------------------------------------

\* Nothing has been said at the start.
LEMMA ThreadStarts == ThreadInit /\ pc = Waiting => ThreadTypeOK /\ ThreadInv
<1> SUFFICES ASSUME ThreadInit, pc = Waiting PROVE ThreadTypeOK /\ ThreadInv
  OBVIOUS
<1>1. ThreadTypeOK
  BY DEF ThreadInit, Waiting, ThreadTypeOK, ThreadStep
<1>2. \A c \in Calls : pc[c].at = "idle" /\ ~Replied(c)
  BY DEF ThreadInit, Waiting, Idle, Replied
<1> QED
  BY <1>1, <1>2 DEF ThreadInv, At, HasHeard

\* What a call holds where it is.
LEMMA ThreadHeld ==
  ASSUME ThreadTypeOK, NEW c \in Calls
  PROVE  /\ pc[c].at = "notes" =>
              pc[c] \in [at : {"notes"}, settled : [Specialists -> BOOLEAN],
                         left : SUBSET Specialists]
         /\ pc[c].at # "notes" => pc[c] = [at |-> pc[c].at]
BY DEF ThreadTypeOK, ThreadStep, Idle, Done

\* Each step keeps the types.
LEMMA ThreadTyping == ASSUME ThreadTypeOK, [ThreadNext]_threadVars PROVE ThreadTypeOK'
<1> DEFINE Places == {"hear", "gather", "review", "reply", "question", "answer", "ask"}
<1>1. Idle \in ThreadStep /\ Done \in ThreadStep /\ \A place \in Places : [at |-> place] \in ThreadStep
  BY DEF ThreadStep
<1>2. ASSUME NEW c \in Calls, NEW actor \in Actors, Say(c, actor)
      PROVE  messages' \subseteq Message
  BY <1>2 DEF Say, ThreadTypeOK, Message
<1>3. \A role \in Specialists \cup {"owner", "fund_manager", "supervisor", "agent"} :
        role \in Actors
  BY DEF Actors
<1>4. CASE UNCHANGED threadVars
  BY <1>4 DEF threadVars, ThreadTypeOK
<1>5. ASSUME NEW c \in Calls, SendSupervisorMessage(c) PROVE ThreadTypeOK'
  BY <1>1, <1>5 DEF SendSupervisorMessage, ThreadTypeOK, Becomes
<1>6. ASSUME NEW c \in Calls, Ask(c) PROVE ThreadTypeOK'
  BY <1>1, <1>2, <1>3, <1>6 DEF Ask, ThreadTypeOK, Becomes
<1>7. ASSUME NEW c \in Calls, Hear(c) PROVE ThreadTypeOK'
  BY <1>1, <1>7 DEF Hear, ThreadTypeOK, Becomes
<1>8. ASSUME NEW c \in Calls, Gather(c) PROVE ThreadTypeOK'
  <2>1. PICK settled \in [Specialists -> BOOLEAN] :
          Becomes(c, [at |-> "notes", settled |-> settled, left |-> Specialists])
    BY <1>8 DEF Gather
  <2>2. [at |-> "notes", settled |-> settled, left |-> Specialists] \in ThreadStep
    BY DEF ThreadStep
  <2> QED
    BY <1>8, <2>1, <2>2 DEF Gather, ThreadTypeOK, Becomes
<1>9. ASSUME NEW c \in Calls, NEW role \in Specialists, Note(c, role) PROVE ThreadTypeOK'
  <2>1. messages' \subseteq Message
    BY <1>2, <1>3, <1>9 DEF Note, ThreadTypeOK
  <2>2. events' \subseteq [call : Calls, role : Specialists, state : {"completed", "blocked"}]
    BY <1>9 DEF Note, ThreadTypeOK
  <2>3. [pc[c] EXCEPT !.left = pc[c].left \ {role}] \in ThreadStep
    BY <1>9, ThreadHeld DEF Note, At, ThreadStep
  <2>4. pc' \in [Calls -> ThreadStep]
    BY <1>1, <1>9, <2>3 DEF Note, ThreadTypeOK, Becomes
  <2> QED
    BY <1>9, <2>1, <2>2, <2>4 DEF Note, ThreadTypeOK
<1>10. ASSUME NEW c \in Calls, Review(c) PROVE ThreadTypeOK'
  BY <1>1, <1>2, <1>3, <1>10 DEF Review, ThreadTypeOK, Becomes
<1>11. ASSUME NEW c \in Calls, Reply(c) PROVE ThreadTypeOK'
  BY <1>1, <1>2, <1>3, <1>11 DEF Reply, ThreadTypeOK, Becomes
<1>12. ASSUME NEW c \in Calls, SendIndividualMessage(c) PROVE ThreadTypeOK'
  BY <1>1, <1>12 DEF SendIndividualMessage, ThreadTypeOK, Becomes
<1>13. ASSUME NEW c \in Calls, Question(c) PROVE ThreadTypeOK'
  BY <1>1, <1>2, <1>3, <1>13 DEF Question, ThreadTypeOK, Becomes
<1>14. ASSUME NEW c \in Calls, AnswerQuestion(c) PROVE ThreadTypeOK'
  BY <1>1, <1>2, <1>3, <1>14 DEF AnswerQuestion, ThreadTypeOK, Becomes
<1>15. ASSUME NEW c \in Calls, Fail(c), UNCHANGED <<messages, heard, events>> PROVE ThreadTypeOK'
  BY <1>1, <1>15 DEF Fail, ThreadTypeOK, Becomes
<1> QED
  BY <1>4, <1>5, <1>6, <1>7, <1>8, <1>9, <1>10, <1>11, <1>12, <1>13, <1>14, <1>15 DEF ThreadNext

\* The thread and what its calls hold are of their types.
THEOREM ThreadTypesKept == ThreadSpec => []ThreadTypeOK
<1>1. ThreadInit /\ pc = Waiting => ThreadTypeOK
  BY ThreadStarts
<1>2. ThreadTypeOK /\ [ThreadNext]_threadVars => ThreadTypeOK'
  BY ThreadTyping
<1> QED
  BY <1>1, <1>2, PTL DEF ThreadSpec

-----------------------------------------------------------------------------

\* A step of one call, which leaves alone what the others have read and been
\* answered, keeps the invariant if it does for that call.
LEMMA OneCallStep ==
  ASSUME ThreadTypeOK, ThreadInv, NEW c \in Calls, NEW step, Becomes(c, step),
         messages \subseteq messages',
         \A d \in Calls \ {c} : heard'[d] = heard[d] /\ (Replied(d)' <=> Replied(d)),
         step.at = "hear" \/ HasHeard(c)' => Asked(c) \in messages',
         step.at \in Unheard => ~Replied(c)',
         \A d \in Calls \ {c} :
           HasHeard(c)' /\ HasHeard(d) => Asked(d) \in heard'[c] \/ Asked(c) \in heard[d]
  PROVE  ThreadInv'
<1>1. pc'[c] = step /\ \A d \in Calls \ {c} : pc'[d] = pc[d]
  BY DEF Becomes, ThreadTypeOK
<1>2. \A d \in Calls \ {c} : HasHeard(d)' <=> HasHeard(d)
  BY <1>1 DEF HasHeard
<1>3. ASSUME NEW d \in Calls
      PROVE  /\ At(d, "hear")' \/ HasHeard(d)' => Asked(d) \in messages'
             /\ pc'[d].at \in Unheard => ~Replied(d)'
  <2>1. CASE d = c
    BY <1>1, <2>1 DEF At
  <2>2. CASE d # c
    BY <1>1, <1>2, <2>2 DEF At, ThreadInv
  <2> QED
    BY <2>1, <2>2
<1>4. ASSUME NEW d \in Calls, NEW e \in Calls \ {d}, HasHeard(d)', HasHeard(e)'
      PROVE  Knew(d, e)' \/ Knew(e, d)'
  <2>1. CASE d = c
    BY <1>2, <1>4, <2>1 DEF Knew, Asked
  <2>2. CASE e = c
    BY <1>2, <1>4, <2>2 DEF Knew, Asked
  <2>3. CASE d # c /\ e # c
    BY <1>2, <1>4, <2>3 DEF Knew, ThreadInv
  <2> QED
    BY <2>1, <2>2, <2>3
<1> QED
  BY <1>3, <1>4 DEF ThreadInv

\* What one call says is no other call's answer, and its own only when it is the
\* supervisor who says it.
LEMMA SaidByOne ==
  ASSUME NEW c \in Calls, NEW actor, Say(c, actor)
  PROVE  /\ messages \subseteq messages' /\ [call |-> c, actor |-> actor] \in messages'
         /\ \A d \in Calls \ {c} : Replied(d)' <=> Replied(d)
         /\ actor # "supervisor" => (Replied(c)' <=> Replied(c))
BY DEF Say, Replied

\* A step of a call that neither begins to hear nor reads keeps the invariant.
LEMMA QuietStep ==
  ASSUME ThreadTypeOK, ThreadInv, NEW c \in Calls, NEW step, Becomes(c, step), UNCHANGED heard,
         messages \subseteq messages',
         \A d \in Calls \ {c} : Replied(d)' <=> Replied(d),
         step.at # "hear",
         step.at \in Unheard => ~Replied(c)',
         HasHeard(c)' => HasHeard(c)
  PROVE  ThreadInv'
<1>1. HasHeard(c)' => Asked(c) \in messages'
  BY DEF ThreadInv
<1>2. \A d \in Calls \ {c} :
        HasHeard(c)' /\ HasHeard(d) => Asked(d) \in heard'[c] \/ Asked(c) \in heard[d]
  BY DEF ThreadInv, Knew, Asked
<1> QED
  BY <1>1, <1>2, OneCallStep

\* Each step keeps the invariant.
LEMMA ThreadInvStep == ASSUME ThreadTypeOK, ThreadInv, [ThreadNext]_threadVars PROVE ThreadInv'
<1>1. CASE UNCHANGED threadVars
  BY <1>1 DEF threadVars, ThreadInv, At, HasHeard, Replied, Knew
<1>3. ASSUME NEW c \in Calls, NEW place, Becomes(c, [at |-> place])
      PROVE  pc'[c].at = place
  BY <1>3 DEF Becomes, ThreadTypeOK
<1>4. ASSUME NEW c \in Calls, SendSupervisorMessage(c) PROVE ThreadInv'
  <2>1. ~Replied(c) /\ ~Replied(c)' /\ \A d \in Calls : Replied(d)' <=> Replied(d)
    BY <1>4 DEF SendSupervisorMessage, ThreadInv, Unheard, Idle, Replied
  <2>2. Becomes(c, [at |-> "ask"]) /\ UNCHANGED <<messages, heard>>
    BY <1>4 DEF SendSupervisorMessage
  <2>3. ~HasHeard(c)'
    BY <1>3, <2>1, <2>2 DEF HasHeard
  <2> QED
    BY <2>1, <2>2, <2>3, QuietStep
<1>5. ASSUME NEW c \in Calls, Ask(c) PROVE ThreadInv'
  <2>1. Becomes(c, [at |-> "hear"]) /\ Say(c, "owner") /\ UNCHANGED heard
    BY <1>5 DEF Ask
  <2>2. ~Replied(c)
    BY <1>5 DEF Ask, At, ThreadInv, Unheard
  <2>3. ~Replied(c)' /\ Asked(c) \in messages'
    BY <2>1, <2>2, SaidByOne DEF Asked
  <2>4. ~HasHeard(c)'
    BY <1>3, <2>1, <2>3 DEF HasHeard
  <2>5. messages \subseteq messages' /\ \A d \in Calls \ {c} : Replied(d)' <=> Replied(d)
    BY <2>1, SaidByOne
  <2> QED
    BY <2>1, <2>3, <2>4, <2>5, OneCallStep
<1>6. ASSUME NEW c \in Calls, Hear(c) PROVE ThreadInv'
  <2>1. Becomes(c, [at |-> "gather"]) /\ UNCHANGED messages
    BY <1>6 DEF Hear
  <2>2. heard'[c] = messages /\ \A d \in Calls \ {c} : heard'[d] = heard[d]
    BY <1>6 DEF Hear, ThreadTypeOK
  <2>3. Asked(c) \in messages /\ \A d \in Calls : HasHeard(d) => Asked(d) \in messages
    BY <1>6 DEF Hear, ThreadInv
  <2>4. \A d \in Calls : Replied(d)' <=> Replied(d)
    BY <2>1 DEF Replied
  <2> QED
    BY <2>1, <2>2, <2>3, <2>4, OneCallStep DEF Unheard
<1>7. ASSUME NEW c \in Calls, Gather(c) PROVE ThreadInv'
  <2>1. PICK settled \in [Specialists -> BOOLEAN] :
          Becomes(c, [at |-> "notes", settled |-> settled, left |-> Specialists])
    BY <1>7 DEF Gather
  <2>2. HasHeard(c) /\ UNCHANGED <<messages, heard>>
    BY <1>7 DEF Gather, At, HasHeard
  <2>3. \A d \in Calls : Replied(d)' <=> Replied(d)
    BY <2>2 DEF Replied
  <2> QED
    BY <2>1, <2>2, <2>3, QuietStep DEF Unheard
<1>8. ASSUME NEW c \in Calls, NEW role \in Specialists, Note(c, role) PROVE ThreadInv'
  <2> DEFINE left == pc[c].left \ {role}
             step == IF left = {} THEN [at |-> "review"] ELSE [pc[c] EXCEPT !.left = left]
  <2>1. Becomes(c, step) /\ UNCHANGED heard
    BY <1>8 DEF Note
  <2>2. step.at \in {"review", "notes"}
    BY <1>8, ThreadHeld DEF Note, At
  <2>3. HasHeard(c)
    BY <1>8 DEF Note, At, HasHeard
  <2>4. messages \subseteq messages' /\ \A d \in Calls \ {c} : Replied(d)' <=> Replied(d)
    <3>1. CASE Say(c, role)
      BY <3>1, SaidByOne
    <3>2. CASE UNCHANGED messages
      BY <3>2 DEF Replied
    <3> QED
      BY <1>8, <3>1, <3>2 DEF Note
  <2> HIDE DEF step
  <2> QED
    BY <2>1, <2>2, <2>3, <2>4, QuietStep DEF Unheard
<1>9. ASSUME NEW c \in Calls, Review(c) \/ Reply(c) PROVE ThreadInv'
  <2>1. PICK place \in {"reply", "done"} : Becomes(c, [at |-> place])
    BY <1>9 DEF Review, Reply, Done
  <2>2. PICK actor : Say(c, actor)
    BY <1>9 DEF Review, Reply
  <2>3. HasHeard(c) /\ UNCHANGED heard
    BY <1>9 DEF Review, Reply, At, HasHeard
  <2>4. messages \subseteq messages' /\ \A d \in Calls \ {c} : Replied(d)' <=> Replied(d)
    BY <2>2, SaidByOne
  <2> QED
    BY <2>1, <2>3, <2>4, QuietStep DEF Unheard
<1>10. ASSUME NEW c \in Calls, SendIndividualMessage(c) PROVE ThreadInv'
  <2>1. Becomes(c, [at |-> "question"]) /\ UNCHANGED messages
    BY <1>10 DEF SendIndividualMessage
  <2>2. \A d \in Calls \ {c} : heard'[d] = heard[d]
    BY <1>10 DEF SendIndividualMessage, ThreadTypeOK
  <2>3. \A d \in Calls : Replied(d)' <=> Replied(d)
    BY <2>1 DEF Replied
  <2>4. ~Replied(c)
    BY <1>10 DEF SendIndividualMessage, ThreadInv, Unheard, Idle
  <2>5. ~HasHeard(c)'
    BY <1>3, <2>1, <2>3, <2>4 DEF HasHeard
  <2> QED
    BY <2>1, <2>2, <2>3, <2>4, <2>5, OneCallStep
<1>11. ASSUME NEW c \in Calls, Question(c) \/ AnswerQuestion(c) PROVE ThreadInv'
  <2>1. PICK place \in {"answer", "done"} : Becomes(c, [at |-> place])
    BY <1>11 DEF Question, AnswerQuestion, Done
  <2>2. PICK actor \in {"owner", "agent"} : Say(c, actor)
    BY <1>11 DEF Question, AnswerQuestion
  <2>3. ~Replied(c) /\ UNCHANGED heard
    BY <1>11 DEF Question, AnswerQuestion, At, ThreadInv, Unheard
  <2>4. ~Replied(c)' /\ messages \subseteq messages'
        /\ \A d \in Calls \ {c} : Replied(d)' <=> Replied(d)
    BY <2>2, <2>3, SaidByOne
  <2>5. ~HasHeard(c)'
    BY <1>3, <2>1, <2>4 DEF HasHeard
  <2> QED
    BY <2>1, <2>3, <2>4, <2>5, QuietStep
<1>12. ASSUME NEW c \in Calls, Fail(c), UNCHANGED <<messages, heard, events>> PROVE ThreadInv'
  <2>1. Becomes(c, [at |-> "done"])
    BY <1>12 DEF Fail, Done
  <2>2. \A d \in Calls : Replied(d)' <=> Replied(d)
    BY <1>12 DEF Replied
  <2>3. HasHeard(c)' => HasHeard(c)
    BY <1>3, <2>1, <2>2 DEF HasHeard
  <2> QED
    BY <1>12, <2>1, <2>2, <2>3, QuietStep DEF Unheard
<1> QED
  BY <1>1, <1>4, <1>5, <1>6, <1>7, <1>8, <1>9, <1>10, <1>11, <1>12 DEF ThreadNext

\* However many questions are asked at once, two answers of the supervisor never
\* ignore each other's question (sendSupervisorMessage stores before it reads).
THEOREM OneKnowsTheOther == ThreadSpec => []SomeoneHears
<1>1. ThreadInit /\ pc = Waiting => ThreadInv
  BY ThreadStarts
<1>2. ThreadTypeOK /\ ThreadInv /\ [ThreadNext]_threadVars => ThreadInv'
  BY ThreadInvStep
<1>3. ThreadInv => SomeoneHears
  BY DEF ThreadInv, SomeoneHears, HasHeard
<1> QED
  BY <1>1, <1>2, <1>3, ThreadTypesKept, PTL DEF ThreadSpec

-----------------------------------------------------------------------------

\* The initial record has no entries.
LEMMA LineageStarts == LineageInit /\ pc = Waiting => LineageTypeOK
BY DEF LineageInit, Waiting, LineageTypeOK, Records, LineageStep

\* Each step keeps the types.
LEMMA LineageTyping == ASSUME LineageTypeOK, [LineageNext]_lineageVars PROVE LineageTypeOK'
<1>1. CASE UNCHANGED lineageVars
  BY <1>1 DEF LineageTypeOK, lineageVars
<1>2. ASSUME NEW c \in Calls, Add(c) PROVE LineageTypeOK'
  <2>1. PICK kind \in Kinds : Becomes(c, [at |-> "insert", kind |-> kind])
    BY <1>2 DEF Add
  <2>2. [at |-> "insert", kind |-> kind] \in LineageStep
    BY DEF LineageStep
  <2> QED
    BY <1>2, <2>1, <2>2 DEF Add, LineageTypeOK, Becomes
<1>3. ASSUME NEW c \in Calls, Insert(c) PROVE LineageTypeOK'
  <2>1. Done \in LineageStep
    BY DEF LineageStep
  <2>2. record' \in Records
    <3>1. pc[c].kind \in Kinds
      BY <1>3 DEF Insert, At, LineageTypeOK, LineageStep, Idle, Done
    <3> QED
      BY <1>3, <3>1 DEF Insert, LineageTypeOK, Records
  <2> QED
    BY <1>3, <2>1, <2>2 DEF Insert, LineageTypeOK, Becomes
<1>4. ASSUME NEW c \in Calls, Fail(c), UNCHANGED record PROVE LineageTypeOK'
  <2>1. Done \in LineageStep
    BY DEF LineageStep
  <2> QED
    BY <1>4, <2>1 DEF Fail, LineageTypeOK, Becomes
<1> QED
  BY <1>1, <1>2, <1>3, <1>4 DEF LineageNext

\* The rows of a lineage and what its calls hold are of their types.
THEOREM LineageTypesKept == LineageSpec => []LineageTypeOK
<1>1. LineageInit /\ pc = Waiting => LineageTypeOK
  BY LineageStarts
<1>2. LineageTypeOK /\ [LineageNext]_lineageVars => LineageTypeOK'
  BY LineageTyping
<1> QED
  BY <1>1, <1>2, PTL DEF LineageSpec

\* The rank of a recommendation and the standing of the next stage by the counts
\* alone, in linear comparisons.
RankOf(passed, evaluated, deviation, outcomes) ==
  IF evaluated >= 2 /\ 10 * passed < 3 * evaluated THEN 0
  ELSE IF outcomes >= 2 /\ 10 * deviation < -5 * outcomes THEN 1
  ELSE 2

CreditOf(view, passed, evaluated, deviation, outcomes) ==
  LET rank == RankOf(passed, evaluated, deviation, outcomes) IN
  IF view = "recommendation" THEN rank
  ELSE IF rank = 0 \/ view = "retired" THEN 0
  ELSE IF view = "decision" THEN 3
  ELSE IF view = "simulation"
  THEN IF /\ rank = 2 /\ evaluated > 0
          /\ 10 * passed >= 7 * evaluated /\ 10 * deviation >= -2 * outcomes THEN 3 ELSE 2
  ELSE IF rank = 2 /\ evaluated > 0 /\ 10 * passed >= 5 * evaluated THEN 2 ELSE 1

\* What a lineage is given credit for is decided by four counts.
LEMMA CreditByCounts ==
  ASSUME NEW r \in Records, NEW view \in Views
  PROVE  Credit(view, r) = CreditOf(view, r["pass"], Evaluations(r), Deviation(r), Outcomes(r))
<1>1. /\ r["pass"] \in Nat /\ r["notPass"] \in Nat
      /\ r["outperforming"] \in Nat /\ r["even"] \in Nat /\ r["underperforming"] \in Nat
  BY DEF Records, Kinds
<1>2. /\ Evaluations(r) \in Nat /\ Outcomes(r) \in Nat /\ Deviation(r) \in Int
      /\ Outcomes(r) = 0 => Deviation(r) = 0
  BY <1>1 DEF Evaluations, Outcomes, Deviation
<1>3. \A tenths \in 1..10 :
        PassRateAtLeast(r, tenths) <=>
          Evaluations(r) > 0 /\ 10 * r["pass"] >= tenths * Evaluations(r)
  BY <1>2 DEF PassRateAtLeast
<1>4. /\ DeviationAtLeast(r, -5) <=> 10 * Deviation(r) >= -5 * Outcomes(r)
      /\ DeviationAtLeast(r, -2) <=> 10 * Deviation(r) >= -2 * Outcomes(r)
  BY <1>2 DEF DeviationAtLeast
<1>5. Health(r) = IF Evaluations(r) >= 2 /\ 10 * r["pass"] < 3 * Evaluations(r) THEN "retire"
                  ELSE IF Outcomes(r) >= 2 /\ 10 * Deviation(r) < -5 * Outcomes(r) THEN "evolve"
                  ELSE "continue"
  BY <1>1, <1>2, <1>3, <1>4 DEF Health
<1>6. Rank("retire") = 0 /\ Rank("evolve") = 1 /\ Rank("continue") = 2
  BY DEF Rank
<1>7. /\ Standing("retired") = 0 /\ Standing("research") = 1
      /\ Standing("simulation") = 2 /\ Standing("decision") = 3
  BY DEF Standing
<1>8. CASE view = "recommendation"
  BY <1>5, <1>6, <1>8 DEF Credit, CreditOf, RankOf
<1>9. ASSUME view \in Stages
      PROVE  Credit(view, r)
               = CreditOf(view, r["pass"], Evaluations(r), Deviation(r), Outcomes(r))
  <2>1. view # "recommendation"
    BY <1>9 DEF Stages
  <2>2. Credit(view, r) = Standing(NextStage(view, r))
    BY <2>1 DEF Credit
  <2>3. /\ PassRateAtLeast(r, 5) <=>
             Evaluations(r) > 0 /\ 10 * r["pass"] >= 5 * Evaluations(r)
        /\ PassRateAtLeast(r, 7) <=>
             Evaluations(r) > 0 /\ 10 * r["pass"] >= 7 * Evaluations(r)
    BY <1>3
  <2>4. view \in {"research", "simulation", "decision", "retired"}
    BY <1>9 DEF Stages
  <2>5. CASE Health(r) = "retire"
    BY <1>5, <1>7, <2>1, <2>2, <2>5 DEF NextStage, CreditOf, RankOf
  <2>6. CASE Health(r) = "evolve"
    BY <1>5, <1>7, <2>2, <2>4, <2>6 DEF NextStage, CreditOf, RankOf
  <2>7. CASE Health(r) = "continue"
    BY <1>4, <1>5, <1>7, <2>2, <2>3, <2>4, <2>7 DEF NextStage, CreditOf, RankOf
  <2> QED
    BY <1>5, <2>5, <2>6, <2>7
<1> QED
  BY <1>8, <1>9 DEF Views

\* The credit for the counts before and after one more record of a kind.
LEMMA CreditMoves ==
  ASSUME NEW p \in Nat, NEW n \in Nat, NEW u \in Nat, NEW e \in Nat, NEW d \in Nat,
         NEW view \in Views
  PROVE  /\ CreditOf(view, p + 1, p + n + 1, u - d, u + e + d)
              >= CreditOf(view, p, p + n, u - d, u + e + d)
         /\ CreditOf(view, p, p + n + 1, u - d, u + e + d)
              <= CreditOf(view, p, p + n, u - d, u + e + d)
         /\ CreditOf(view, p, p + n, u - d + 1, u + e + d + 1)
              >= CreditOf(view, p, p + n, u - d, u + e + d)
         /\ CreditOf(view, p, p + n, u - d, u + e + d + 1)
              >= CreditOf(view, p, p + n, u - d, u + e + d)
         /\ CreditOf(view, p, p + n, u - d - 1, u + e + d + 1)
              <= CreditOf(view, p, p + n, u - d, u + e + d)
BY DEF CreditOf, RankOf, Views, Stages

\* One more record of a kind moves the credit the way that kind speaks.
LEMMA NewsOfKind ==
  ASSUME NEW r \in Records, NEW s \in Records, NEW kind \in Kinds, NEW view \in Views,
         s = [r EXCEPT ![kind] = @ + 1]
  PROVE  IF kind \in Good THEN Credit(view, s) >= Credit(view, r)
         ELSE Credit(view, s) <= Credit(view, r)
<1> DEFINE p == r["pass"]
           n == r["notPass"]
           u == r["outperforming"]
           e == r["even"]
           d == r["underperforming"]
<1>1. \A k \in Kinds : r[k] \in Nat /\ s[k] = (IF k = kind THEN r[k] + 1 ELSE r[k])
  BY DEF Records
<1>2. p \in Nat /\ n \in Nat /\ u \in Nat /\ e \in Nat /\ d \in Nat
  BY <1>1 DEF Kinds
<1>3. Credit(view, r) = CreditOf(view, p, p + n, u - d, u + e + d)
  BY CreditByCounts DEF Evaluations, Outcomes, Deviation
<1>4. Credit(view, s) = CreditOf(view, s["pass"], s["pass"] + s["notPass"],
                               s["outperforming"] - s["underperforming"],
                               s["outperforming"] + s["even"] + s["underperforming"])
  BY CreditByCounts DEF Evaluations, Outcomes, Deviation
<1>5. CASE kind = "pass"
  <2>1. /\ s["pass"] = p + 1 /\ s["notPass"] = n /\ s["outperforming"] = u
        /\ s["even"] = e /\ s["underperforming"] = d
    BY <1>1, <1>5 DEF Kinds
  <2> HIDE DEF p, n, u, e, d
  <2>2. Credit(view, s) = CreditOf(view, p + 1, p + n + 1, u - d, u + e + d)
    <3>1. /\ s["pass"] + s["notPass"] = p + n + 1
          /\ s["outperforming"] - s["underperforming"] = u - d
          /\ s["outperforming"] + s["even"] + s["underperforming"] = u + e + d
      BY <1>2, <2>1
    <3> QED
      BY <1>4, <2>1, <3>1
  <2>3. kind \in Good
    BY <1>5 DEF Good
  <2>4. CreditOf(view, p + 1, p + n + 1, u - d, u + e + d)
          >= CreditOf(view, p, p + n, u - d, u + e + d)
    BY <1>2, CreditMoves
  <2> QED
    BY <1>3, <2>2, <2>3, <2>4
<1>6. CASE kind = "notPass"
  <2>1. /\ s["pass"] = p /\ s["notPass"] = n + 1 /\ s["outperforming"] = u
        /\ s["even"] = e /\ s["underperforming"] = d
    BY <1>1, <1>6 DEF Kinds
  <2> HIDE DEF p, n, u, e, d
  <2>2. Credit(view, s) = CreditOf(view, p, p + n + 1, u - d, u + e + d)
    <3>1. /\ s["pass"] + s["notPass"] = p + n + 1
          /\ s["outperforming"] - s["underperforming"] = u - d
          /\ s["outperforming"] + s["even"] + s["underperforming"] = u + e + d
      BY <1>2, <2>1
    <3> QED
      BY <1>4, <2>1, <3>1
  <2>3. kind \notin Good
    BY <1>6 DEF Good
  <2>4. CreditOf(view, p, p + n + 1, u - d, u + e + d)
          <= CreditOf(view, p, p + n, u - d, u + e + d)
    BY <1>2, CreditMoves
  <2> QED
    BY <1>3, <2>2, <2>3, <2>4
<1>7. CASE kind = "outperforming"
  <2>1. /\ s["pass"] = p /\ s["notPass"] = n /\ s["outperforming"] = u + 1
        /\ s["even"] = e /\ s["underperforming"] = d
    BY <1>1, <1>7 DEF Kinds
  <2> HIDE DEF p, n, u, e, d
  <2>2. Credit(view, s) = CreditOf(view, p, p + n, u - d + 1, u + e + d + 1)
    <3>1. /\ s["pass"] + s["notPass"] = p + n
          /\ s["outperforming"] - s["underperforming"] = u - d + 1
          /\ s["outperforming"] + s["even"] + s["underperforming"] = u + e + d + 1
      BY <1>2, <2>1
    <3> QED
      BY <1>4, <2>1, <3>1
  <2>3. kind \in Good
    BY <1>7 DEF Good
  <2>4. CreditOf(view, p, p + n, u - d + 1, u + e + d + 1)
          >= CreditOf(view, p, p + n, u - d, u + e + d)
    BY <1>2, CreditMoves
  <2> QED
    BY <1>3, <2>2, <2>3, <2>4
<1>8. CASE kind = "even"
  <2>1. /\ s["pass"] = p /\ s["notPass"] = n /\ s["outperforming"] = u
        /\ s["even"] = e + 1 /\ s["underperforming"] = d
    BY <1>1, <1>8 DEF Kinds
  <2> HIDE DEF p, n, u, e, d
  <2>2. Credit(view, s) = CreditOf(view, p, p + n, u - d, u + e + d + 1)
    <3>1. /\ s["pass"] + s["notPass"] = p + n
          /\ s["outperforming"] - s["underperforming"] = u - d
          /\ s["outperforming"] + s["even"] + s["underperforming"] = u + e + d + 1
      BY <1>2, <2>1
    <3> QED
      BY <1>4, <2>1, <3>1
  <2>3. kind \in Good
    BY <1>8 DEF Good
  <2>4. CreditOf(view, p, p + n, u - d, u + e + d + 1)
          >= CreditOf(view, p, p + n, u - d, u + e + d)
    BY <1>2, CreditMoves
  <2> QED
    BY <1>3, <2>2, <2>3, <2>4
<1>9. CASE kind = "underperforming"
  <2>1. /\ s["pass"] = p /\ s["notPass"] = n /\ s["outperforming"] = u
        /\ s["even"] = e /\ s["underperforming"] = d + 1
    BY <1>1, <1>9 DEF Kinds
  <2> HIDE DEF p, n, u, e, d
  <2>2. Credit(view, s) = CreditOf(view, p, p + n, u - d - 1, u + e + d + 1)
    <3>1. /\ s["pass"] + s["notPass"] = p + n
          /\ s["outperforming"] - s["underperforming"] = u - d - 1
          /\ s["outperforming"] + s["even"] + s["underperforming"] = u + e + d + 1
      BY <1>2, <2>1
    <3> QED
      BY <1>4, <2>1, <3>1
  <2>3. kind \notin Good
    BY <1>9 DEF Good
  <2>4. CreditOf(view, p, p + n, u - d - 1, u + e + d + 1)
          <= CreditOf(view, p, p + n, u - d, u + e + d)
    BY <1>2, CreditMoves
  <2> QED
    BY <1>3, <2>2, <2>3, <2>4
<1> QED
  BY <1>5, <1>6, <1>7, <1>8, <1>9 DEF Kinds

\* From one record to the next, the credit of a lineage moves with the news.
LEMMA NewsOfStep == ASSUME LineageTypeOK, LineageTypeOK' PROVE [NewsMoves]_record
<1> SUFFICES ASSUME NEW kind \in Kinds, NEW view \in Views,
                    record' = [record EXCEPT ![kind] = @ + 1]
             PROVE  IF kind \in Good THEN Credit(view, record') >= Credit(view, record)
                    ELSE Credit(view, record') <= Credit(view, record)
  BY DEF NewsMoves
<1>1. record \in Records /\ record' \in Records
  BY DEF LineageTypeOK
<1> QED
  BY <1>1, NewsOfKind

\* A record that speaks for a lineage never lowers what calculateLineageHealth
\* recommends for it, nor the stage shouldPromote gives it, and one that speaks
\* against it never raises them, whatever the counts.
THEOREM NewsHeard == LineageSpec => NewsIsHeard
<1>1. LineageTypeOK /\ LineageTypeOK' => [NewsMoves]_record
  BY NewsOfStep
<1> QED
  BY <1>1, LineageTypesKept, PTL DEF LineageSpec, NewsIsHeard

=============================================================================
