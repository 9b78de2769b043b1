------------------------- MODULE MCAgentCommission --------------------------
(***************************************************************************)
(* Small instances of AgentCommission for TLC: who may become whose upline *)
(* and which agent is a pilgrim himself.                                   *)
(***************************************************************************)
EXTENDS AgentCommission, TLC

CONSTANTS Sold, Others    \* the agents who sell, and who may be their uplines

MCUplines == Sold \X (Others \cup {NIHIL})

(* The one agent who sells is the one pilgrim there is.                      *)
SellerTravels == [a \in Agents |-> IF a \in Sold THEN CHOOSE j \in Jamaah : TRUE ELSE NIHIL]

Interchangeable == UNION {Permutations(S) : S \in {Pencairan, Movers, Pesanan}}
=============================================================================
