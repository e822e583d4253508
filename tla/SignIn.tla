------------------------------- MODULE SignIn -------------------------------
(***************************************************************************)
(* One person's account: the OAuth callback of server/_core/oauth.ts, the  *)
(* authentication of each call by server/_core/sdk.ts, and the two ways a  *)
(* procedure asks for an administrator: adminProcedure reads the role      *)
(* again (server/_core/trpc.ts), requireOwnerAdmin (server/routers.ts,     *)
(* server/agentMemoryRouter.ts) takes the role the call came with.  The    *)
(* session is a signed token: there is no row of it, and no end but a year. *)
(***************************************************************************)
EXTENDS RacingCalls

VARIABLES
  owner,    \* the person is the one the deployment names as its owner
  account,  \* role in the users row
  issued,   \* the tokens the person holds: made out in a name, or without one
  acted     \* calls that have acted as an administrator, and how they asked

Roles == {"user", "admin"}

Step == {Idle, Done}
   \cup [at : {"upsert", "issue"}, named : BOOLEAN]
   \cup [at : {"sync", "reread"}]
   \cup [at : {"touch", "act", "fresh"}, role : Roles]

TypeOK ==
  /\ owner \in BOOLEAN
  /\ account \in Roles \cup {"none"}
  /\ issued \subseteq BOOLEAN
  /\ acted \subseteq [call : Calls, asked : {"fresh", "context"}]
  /\ pc \in [Calls -> Step]

\* A login of the platform's own may have brought a token, before there is a row.
Init ==
  /\ owner \in BOOLEAN
  /\ account = "none" /\ issued \in {{}, {TRUE}} /\ acted = {}

\* upsertUser: the role is chosen when the row is inserted, and kept after.
Upserted ==
  IF account # "none" THEN account ELSE IF owner THEN "admin" ELSE "user"

-----------------------------------------------------------------------------

\* The state cookie matches; the code is exchanged and the person looked up.
Callback(c) ==
  /\ pc[c] = Idle
  /\ \E named \in BOOLEAN : Becomes(c, [at |-> "upsert", named |-> named])
  /\ UNCHANGED <<owner, account, issued, acted>>

Upsert(c) ==
  /\ At(c, "upsert")
  /\ account' = Upserted
  /\ Becomes(c, [pc[c] EXCEPT !.at = "issue"])
  /\ UNCHANGED <<owner, issued, acted>>

Issue(c) ==
  /\ At(c, "issue")
  /\ issued' = issued \cup {pc[c].named}
  /\ Becomes(c, Done)
  /\ UNCHANGED <<owner, account, acted>>

\* verifySession accepts a token that is made out in a name; the user is read.
Authenticate(c) ==
  /\ pc[c] = Idle
  /\ TRUE \in issued
  /\ Becomes(c, IF account = "none" THEN [at |-> "sync"] ELSE [at |-> "touch", role |-> account])
  /\ UNCHANGED <<owner, account, issued, acted>>

\* The person is looked up with the token, and stored.
Sync(c) ==
  /\ At(c, "sync")
  /\ account' = Upserted
  /\ Becomes(c, [at |-> "reread"])
  /\ UNCHANGED <<owner, issued, acted>>

Reread(c) ==
  /\ At(c, "reread")
  /\ Becomes(c, [at |-> "touch", role |-> account])
  /\ UNCHANGED <<owner, account, issued, acted>>

\* lastSignedIn is stored; the procedure begins, and checks the role it was given.
Touch(c) ==
  /\ At(c, "touch")
  /\ account' = Upserted
  /\ IF pc[c].role = "admin"
     THEN \E place \in {"act", "fresh"} : Becomes(c, [pc[c] EXCEPT !.at = place])
     ELSE Becomes(c, Done)
  /\ UNCHANGED <<owner, issued, acted>>

\* requireOwnerAdmin has been passed already.
Act(c) ==
  /\ At(c, "act")
  /\ acted' = acted \cup {[call |-> c, asked |-> "context"]}
  /\ Becomes(c, Done)
  /\ UNCHANGED <<owner, account, issued>>

\* Mutant: the role the call came with is enough.
ActUnrefreshed(c) ==
  /\ At(c, "fresh")
  /\ acted' = acted \cup {[call |-> c, asked |-> "fresh"]}
  /\ Becomes(c, Done)
  /\ UNCHANGED <<owner, account, issued>>

\* requireAdminFresh: the role is read again, and must still be there.
ActFresh(c) ==
  /\ At(c, "fresh")
  /\ acted' = IF account = "admin" THEN acted \cup {[call |-> c, asked |-> "fresh"]} ELSE acted
  /\ Becomes(c, Done)
  /\ UNCHANGED <<owner, account, issued>>

\* The role is changed in the database, by hand.
ChangeRole(c) ==
  /\ pc[c] = Idle /\ account # "none"
  /\ account' \in Roles \ {account}
  /\ Becomes(c, Done)
  /\ UNCHANGED <<owner, issued, acted>>

Next ==
  \E c \in Calls :
    \/ Callback(c)
    \/ Upsert(c)
    \/ Issue(c)
    \/ Authenticate(c)
    \/ Sync(c)
    \/ Reread(c)
    \/ Touch(c)
    \/ Act(c)
    \/ ActFresh(c)
    \/ ChangeRole(c)
    \/ Fail(c) /\ UNCHANGED <<owner, account, issued, acted>>

=============================================================================
