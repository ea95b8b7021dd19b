-------------------------- MODULE MCServerManager --------------------------
(* Values for the constants of ServerManager that a .cfg cannot write. *)
EXTENDS ServerManager

CONSTANTS r1, r2, r3, ann, bob

AnnTwice == [r \in Requests |-> IF r = r3 THEN bob ELSE ann]
=============================================================================
