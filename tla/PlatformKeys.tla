---------------------------- MODULE PlatformKeys ----------------------------
(***************************************************************************)
(* One exchange key of the owner's: the platforms procedures of            *)
(* server/securityRouter.ts.  Only an "active" key may place live orders,  *)
(* and only a connection test makes a key active, after an await on the    *)
(* venue.  Material is named by the call that brought it.                  *)
(***************************************************************************)
EXTENDS RacingCalls

VARIABLES
  key,      \* the platformApiKeys row
  verified  \* the material the venue has accepted in some test

None == "none"

Key == [state : {"testing", "active", "disabled", "deleted"},
        material : Calls, limits : Calls]

NoKey == [state |-> "absent", material |-> None, limits |-> None]

Patches == {"tested", "disabled", "rotated", "limited", "deleted"}

Step == {Idle, Done}
   \cup [at : {"venue"}, material : Calls]
   \cup [at : {"store"}, patch : Patches]
   \cup [at : {"alert"}]

TypeOK ==
  /\ key \in Key \cup {NoKey}
  /\ verified \subseteq Calls
  /\ pc \in [Calls -> Step]

Init == key = NoKey /\ verified = {}

-----------------------------------------------------------------------------

Exists == key.state \notin {"absent", "deleted"}

\* addKey: a scope that can withdraw is refused before anything is stored.
AddKey(c) ==
  /\ pc[c] = Idle /\ key = NoKey
  /\ key' = [state |-> "testing", material |-> c, limits |-> c]
  /\ Becomes(c, Done)
  /\ UNCHANGED verified

\* testConnection reads the key, decrypts its material and asks the venue.
TestConnection(c) ==
  /\ pc[c] = Idle /\ Exists
  /\ Becomes(c, [at |-> "venue", material |-> key.material])
  /\ UNCHANGED <<key, verified>>

\* The venue accepts the material or refuses it; a lost answer is a refusal.
VenueAnswers(c) ==
  /\ At(c, "venue")
  /\ \/ /\ Becomes(c, [at |-> "store", patch |-> "tested"])
        /\ verified' = verified \cup {pc[c].material}
     \/ /\ Becomes(c, [at |-> "store", patch |-> "disabled"])
        /\ UNCHANGED verified
  /\ UNCHANGED key

\* The other procedures read the key only to see that it is there.
Change(c, patch) ==
  /\ pc[c] = Idle /\ Exists
  /\ Becomes(c, [at |-> "store", patch |-> patch])
  /\ UNCHANGED <<key, verified>>

\* Mutant: a rotation keeps the key's state.
RotatedAsIs(c) == [key EXCEPT !.material = c]

\* updatePlatformApiKeyMaterial
Rotated(c) == [key EXCEPT !.state = "testing", !.material = c]

Patched(c, patch) ==
  CASE patch = "tested"   -> [key EXCEPT !.state = "active"]
    [] patch = "disabled" -> [key EXCEPT !.state = "disabled"]
    [] patch = "rotated"  -> Rotated(c)
    [] patch = "limited"  -> [key EXCEPT !.limits = c]
    [] patch = "deleted"  -> [key EXCEPT !.state = "deleted"]

\* An update or delete of a row that is gone changes nothing.
Store(c) ==
  /\ At(c, "store")
  /\ key' = IF Exists THEN Patched(c, pc[c].patch) ELSE key
  /\ Becomes(c, IF pc[c].patch = "tested" THEN [at |-> "alert"] ELSE Done)
  /\ UNCHANGED verified

\* The alert of a test that passed is inserted.
Alert(c) ==
  /\ At(c, "alert")
  /\ Becomes(c, Done)
  /\ UNCHANGED <<key, verified>>

\* Whatever throws after the venue has accepted the material, the insert of the
\* alert included, ends in the catch block, which disables the key.
Catch(c) ==
  /\ \/ At(c, "alert")
     \/ At(c, "store") /\ pc[c].patch = "tested"
  /\ Becomes(c, [at |-> "store", patch |-> "disabled"])
  /\ UNCHANGED <<key, verified>>

Next ==
  \E c \in Calls :
    \/ AddKey(c)
    \/ TestConnection(c)
    \/ VenueAnswers(c)
    \/ Store(c)
    \/ Alert(c)
    \/ Catch(c)
    \/ \E patch \in {"disabled", "rotated", "limited", "deleted"} : Change(c, patch)
    \/ Fail(c) /\ UNCHANGED <<key, verified>>

=============================================================================
