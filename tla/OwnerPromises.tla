--------------------------- MODULE OwnerPromises ----------------------------
(***************************************************************************)
(* What the owner's records promise, each as the moves its row may make.   *)
(* The handlers keep the promises of their rows while no two calls overlap; *)
(* MCOwnerServices says so and says what is left when they do.              *)
(***************************************************************************)
EXTENDS AuthorityStates, Naturals, FiniteSets

CONSTANTS Providers, OptionalSubagentLimit, Items, NoPolicy

VARIABLES
  entry, key, verified, request, sessions, optional, mandate, policy, authority,
  sealed, usable, order, answers, sailor, transactions, watched, universe, account, acted

\* A memory is promoted only when asked for and reviewed, and each transition
\* counts one revision.
MemoryMoves ==
  /\ entry'.revision = entry.revision + 1
  /\ \/ /\ entry.revision = 0
        /\ entry'.status = "active"
     \/ /\ entry.scope = "private" /\ entry.status = "active"
        /\ entry'.scope = "private" /\ entry'.status = "pending_promotion"
     \/ /\ entry.scope = "private" /\ entry.status = "pending_promotion"
        /\ entry'.status = "active"

\* A key is made active for the material the venue has accepted, and new
\* material has to be tested.
KeyMoves ==
  /\ key.state # "deleted"
  /\ key'.state = "active" => key'.material \in verified'
  /\ key'.material # key.material => key'.state = "testing"

\* A request is decided once.
RequestMoves ==
  \/ request = "none" /\ request' = "pending"
  \/ request = "pending" /\ request' \in {"approved", "rejected"}

\* One active session per provider.
SessionMoves ==
  \A p \in Providers :
    Cardinality({s \in DOMAIN sessions :
                   sessions'[s] = [provider |-> p, state |-> "active"]}) <= 1

\* The capacity of optional subagents.
NodeMoves == Cardinality(optional') <= OptionalSubagentLimit

\* A mandate is put in real mode only with a policy, by an owner whose authority
\* state permits orders.
MandateMoves ==
  mandate' = "real" => CanPlaceOrders(authority) /\ policy.version > 0

\* Each saved policy is the next version.
PolicyMoves == policy'.version = policy.version + 1

\* An order is cancelled for an owner whose authority state, mandate and key
\* permit it, and never in a sealed build; reads need the first and the last.
VenueMoves ==
  /\ order' = "cancelled" /\ order # "cancelled" =>
       /\ ~sealed /\ usable
       /\ AuthorityAllows(authority, "cancel-order")
       /\ mandate \in {"real", "armed"}
  /\ answers' # answers => usable /\ AuthorityAllows(authority, "read-live")

\* A mandate is active once, revoked for good, and executes only while active.
SailorMoves ==
  /\ sailor' = "active" => sailor \in {"active", "pending"}
  /\ sailor = "revoked" => sailor' \in {"revoked", "none"}
  /\ sailor' # "none" /\ transactions' # transactions => sailor = "active" /\ ~sealed

\* An item's status is what the policy says of it.
StatusMoves ==
  \A i \in Items :
    watched'[i] # watched[i] =>
      /\ watched'[i] = "candidate" => universe # NoPolicy /\ i \in universe
      /\ watched'[i] = "blocked" => universe # NoPolicy /\ i \notin universe
      /\ watched'[i] = "review" => universe = NoPolicy

\* Only an administrator acts as one.
AdminMoves == acted' # acted => account = "admin"

\* The moves of every row, in a server whose calls do not overlap.
Next ==
  /\ entry' # entry => MemoryMoves
  /\ key' # key => KeyMoves
  /\ request' # request => RequestMoves
  /\ sessions' # sessions => SessionMoves
  /\ optional' # optional => NodeMoves
  /\ mandate' # mandate => MandateMoves
  /\ policy' # policy => PolicyMoves
  /\ <<order, answers>>' # <<order, answers>> => VenueMoves
  /\ <<sailor, transactions>>' # <<sailor, transactions>> => SailorMoves
  /\ StatusMoves
  /\ AdminMoves

\* The moves no overlap can change: a request is decided once, what is shared
\* stays so, a revoked Sailor mandate is over, and a procedure that reads the
\* role again acts for an administrator.
Lasting ==
  /\ request' # request => RequestMoves
  /\ entry.scope = "shared" => entry'.scope = "shared"
  /\ <<sailor, transactions>>' # <<sailor, transactions>> => SailorMoves
  /\ \A a \in acted' \ acted : a.asked = "fresh" => account = "admin"

=============================================================================
