----------------------------- MODULE MCProposals -----------------------------
(***************************************************************************)
(* Instances of Proposals for TLC: calls that all name one proposal.       *)
(***************************************************************************)
EXTENDS Proposals

CONSTANT proposal

MCSubject == [h \in Handlers |-> proposal]

=============================================================================
