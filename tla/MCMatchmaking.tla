--------------------------- MODULE MCMatchmaking ---------------------------
(* Values for the constants of Matchmaking that a .cfg cannot write. *)
EXTENDS Matchmaking

CONSTANTS ann, bob

\* Ann matches with everyone, Bob with Ann only.
AnnMatchesAll == [p \in Players |-> IF p = ann THEN Players ELSE {ann}]

\* The managers share nothing but the clients, which requests leave alone, and
\* every property is about one of them: a behaviour uses one or the other.
OneManager == signs = <<>> \/ registered = <<>>
=============================================================================
