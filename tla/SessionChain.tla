---------------------------- MODULE SessionChain ----------------------------
(***************************************************************************)
(* What refresh-token rotation promises, with every operation atomic: a    *)
(* session is one chain of tokens, only the last of which can be exchanged,*)
(* and once it is revoked or gone it stays so.  There are no calls, no     *)
(* store and no clock here; RefreshTokens is shown to implement this.      *)
(***************************************************************************)
EXTENDS Naturals, Sequences

CONSTANTS Tokens, Families, None

VARIABLES
  chain,   \* each family's tokens in order, with the token each replaced
  status   \* "none", "live", "revoked" or "gone"

vars == << chain, status >>

Link == [token : Tokens, from : Tokens \cup {None}]

ChainTokens(f) == {chain[f][i].token : i \in DOMAIN chain[f]}

Fresh == Tokens \ UNION {ChainTokens(f) : f \in Families}

Init ==
  /\ chain = [f \in Families |-> << >>]
  /\ status = [f \in Families |-> "none"]

Open(f) ==
  /\ status[f] = "none"
  /\ \E t \in Fresh : chain' = [chain EXCEPT ![f] = << [token |-> t, from |-> None] >>]
  /\ status' = [status EXCEPT ![f] = "live"]

\* The live token is retired and its successor issued, in one step.
Exchange(f) ==
  /\ status[f] = "live"
  /\ \E t \in Fresh :
       chain' = [chain EXCEPT ![f] =
                  Append(@, [token |-> t, from |-> @[Len(@)].token])]
  /\ UNCHANGED status

RevokeAll(f) ==
  /\ status[f] = "live"
  /\ status' = [status EXCEPT ![f] = "revoked"]
  /\ UNCHANGED chain

Expire(f) ==
  /\ status[f] \in {"live", "revoked"}
  /\ status' = [status EXCEPT ![f] = "gone"]
  /\ UNCHANGED chain

Next ==
  \E f \in Families : Open(f) \/ Exchange(f) \/ RevokeAll(f) \/ Expire(f)

Spec == Init /\ [][Next]_vars
=============================================================================
