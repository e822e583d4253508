--------------------------- MODULE WalletSessions ---------------------------
(***************************************************************************)
(* The owner's view-only wallet sessions: connectWallet, disconnectWallet  *)
(* of server/walletService.ts.  A session is named by the call that        *)
(* connected it.                                                           *)
(***************************************************************************)
EXTENDS RacingCalls, FiniteSets

CONSTANT Providers

VARIABLE sessions  \* the walletSessions rows

NoSession == [provider |-> "none", state |-> "none"]

Session == [provider : Providers, state : {"active", "revoked"}]

Step == {Idle, Done}
   \cup [at : {"insert"}, provider : Providers]
   \cup [at : {"revoke"}, session : Calls]

TypeOK ==
  /\ sessions \in [Calls -> Session \cup {NoSession}]
  /\ pc \in [Calls -> Step]

Init == sessions = [c \in Calls |-> NoSession]

-----------------------------------------------------------------------------

Active(p) == {s \in Calls : sessions[s] = [provider |-> p, state |-> "active"]}

Revoked(S) == [s \in Calls |->
                 IF s \in S THEN [sessions[s] EXCEPT !.state = "revoked"] ELSE sessions[s]]

\* connectWallet first revokes what is active of the provider.
Connect(c) ==
  /\ pc[c] = Idle
  /\ \E p \in Providers :
       /\ sessions' = Revoked(Active(p))
       /\ Becomes(c, [at |-> "insert", provider |-> p])

Insert(c) ==
  /\ At(c, "insert")
  /\ sessions' = [sessions EXCEPT ![c] = [provider |-> pc[c].provider, state |-> "active"]]
  /\ Becomes(c, Done)

Disconnect(c) ==
  /\ pc[c] = Idle
  /\ \E s \in Calls :
       /\ sessions[s].state = "active"
       /\ Becomes(c, [at |-> "revoke", session |-> s])
  /\ UNCHANGED sessions

Revoke(c) ==
  /\ At(c, "revoke")
  /\ sessions' = Revoked({pc[c].session})
  /\ Becomes(c, Done)

Next ==
  \E c \in Calls :
    \/ Connect(c)
    \/ Insert(c)
    \/ Disconnect(c)
    \/ Revoke(c)
    \/ Fail(c) /\ UNCHANGED sessions

=============================================================================
