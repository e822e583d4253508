------------------------------ MODULE Threads -------------------------------
(***************************************************************************)
(* One thread of the owner's with the agents: sendSupervisorMessage of     *)
(* server/routers.ts and sendIndividualMessage of                          *)
(* server/agentMemoryRouter.ts, which nothing keeps from being sent about  *)
(* the same thread.  Both answer from a history they read once; the model  *)
(* behind each agent answers in its own time, or fails.                    *)
(***************************************************************************)
EXTENDS RacingCalls

CONSTANT Specialists  \* the delegated roles that are modelled

VARIABLES
  messages,  \* agentMessages of the thread
  heard,     \* the history each call has read
  events     \* agentEvolutionEvents: what became of each delegation

Actors == {"owner", "fund_manager", "supervisor", "agent"} \cup Specialists

Message == [call : Calls, actor : Actors]

ThreadStep == {Idle, Done}
   \cup [at : {"hear", "gather", "review", "reply", "question", "answer"}]
   \cup [at : {"ask"}]
   \cup [at : {"notes"}, settled : [Specialists -> BOOLEAN], left : SUBSET Specialists]

ThreadTypeOK ==
  /\ messages \subseteq Message
  /\ heard \in [Calls -> SUBSET Message]
  /\ events \subseteq [call : Calls, role : Specialists, state : {"completed", "blocked"}]
  /\ pc \in [Calls -> ThreadStep]

ThreadInit == messages = {} /\ heard = [c \in Calls |-> {}] /\ events = {}

Say(c, actor) == messages' = messages \cup {[call |-> c, actor |-> actor]}

-----------------------------------------------------------------------------

\* The agents and the thread are made sure of.
SendSupervisorMessage(c) ==
  /\ pc[c] = Idle
  /\ Becomes(c, [at |-> "ask"])
  /\ UNCHANGED <<messages, heard, events>>

\* The owner's message is stored, and then the thread is read.
Ask(c) ==
  /\ At(c, "ask")
  /\ Say(c, "owner")
  /\ Becomes(c, [at |-> "hear"])
  /\ UNCHANGED <<heard, events>>

\* Mutant: the call that waits to read the thread takes it from before its message.
HearOthersBefore(c) ==
  /\ At(c, "hear")
  /\ heard' = [heard EXCEPT ![c] = {m \in messages : pc[m.call] = Done}]
  /\ Becomes(c, [at |-> "gather"])
  /\ UNCHANGED <<messages, events>>

Hear(c) ==
  /\ At(c, "hear")
  /\ heard' = [heard EXCEPT ![c] = messages]
  /\ Becomes(c, [at |-> "gather"])
  /\ UNCHANGED <<messages, events>>

\* The specialists are asked at once, and waited for until each has answered or
\* failed.
Gather(c) ==
  /\ At(c, "gather")
  /\ \E settled \in [Specialists -> BOOLEAN] :
       Becomes(c, [at |-> "notes", settled |-> settled, left |-> Specialists])
  /\ UNCHANGED <<messages, heard, events>>

\* Each answer is stored as a note, each failure as an event only.
Note(c, role) ==
  /\ At(c, "notes") /\ role \in pc[c].left
  /\ IF pc[c].settled[role] THEN Say(c, role) ELSE UNCHANGED messages
  /\ events' = events \cup
       {[call |-> c, role |-> role,
         state |-> IF pc[c].settled[role] THEN "completed" ELSE "blocked"]}
  /\ LET left == pc[c].left \ {role} IN
     Becomes(c, IF left = {} THEN [at |-> "review"] ELSE [pc[c] EXCEPT !.left = left])
  /\ UNCHANGED heard

\* composeFundManagerDisagreementSummary
Review(c) ==
  /\ At(c, "review")
  /\ Say(c, "fund_manager")
  /\ Becomes(c, [at |-> "reply"])
  /\ UNCHANGED <<heard, events>>

Reply(c) ==
  /\ At(c, "reply")
  /\ Say(c, "supervisor")
  /\ Becomes(c, Done)
  /\ UNCHANGED <<heard, events>>

\* sendIndividualMessage reads the thread first, and its memory context.
SendIndividualMessage(c) ==
  /\ pc[c] = Idle
  /\ heard' = [heard EXCEPT ![c] = messages]
  /\ Becomes(c, [at |-> "question"])
  /\ UNCHANGED <<messages, events>>

Question(c) ==
  /\ At(c, "question")
  /\ Say(c, "owner")
  /\ Becomes(c, [at |-> "answer"])
  /\ UNCHANGED <<heard, events>>

AnswerQuestion(c) ==
  /\ At(c, "answer")
  /\ Say(c, "agent")
  /\ Becomes(c, Done)
  /\ UNCHANGED <<heard, events>>

ThreadNext ==
  \E c \in Calls :
    \/ SendSupervisorMessage(c)
    \/ Ask(c)
    \/ Hear(c)
    \/ Gather(c)
    \/ \E role \in Specialists : Note(c, role)
    \/ Review(c)
    \/ Reply(c)
    \/ SendIndividualMessage(c)
    \/ Question(c)
    \/ AnswerQuestion(c)
    \/ Fail(c) /\ UNCHANGED <<messages, heard, events>>

threadVars == <<messages, heard, events, pc>>

ThreadSpec == ThreadInit /\ pc = Waiting /\ [][ThreadNext]_threadVars

-----------------------------------------------------------------------------

Replied(c) == [call |-> c, actor |-> "supervisor"] \in messages

\* c answered with d's question in its history.
Knew(c, d) == [call |-> d, actor |-> "owner"] \in heard[c]

\* Of two answered questions to the supervisor, one at least was answered with
\* the other in its history, so that no two answers ignore each other.
SomeoneHears ==
  \A c, d \in Calls : c # d /\ Replied(c) /\ Replied(d) => Knew(c, d) \/ Knew(d, c)

=============================================================================
