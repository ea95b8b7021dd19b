---------------------------- MODULE Matchmaking ----------------------------
(***************************************************************************)
(* The game managers at work on the clients of one game service: signs and *)
(* undead matches.  Requests are handled one at a time, in Poll; a lost    *)
(* client is announced to both managers before it leaves Clients.          *)
(***************************************************************************)
EXTENDS SignManager, QuickMatchManager

vars == <<clientVars, signVars, matchVars>>

TypeOK == ClientsTypeOK /\ SignsTypeOK /\ MatchesTypeOK

Init == ClientsInit /\ SignsInit /\ MatchesInit

Accept == AcceptClient /\ UNCHANGED <<signVars, matchVars>>

Login(c, p) == LoginClient(c, p) /\ UNCHANGED <<signVars, matchVars>>

Lose(c) == LoseClient(c) /\ LoseSigns(c) /\ LoseMatches(c)

Next ==
  \/ Accept
  \/ \E c \in Conns :
       \/ \E p \in Players : Login(c, p)
       \/ Lose(c)
  \/ SignRequest /\ UNCHANGED <<clientVars, matchVars>>
  \/ MatchRequest /\ UNCHANGED <<clientVars, signVars>>

Spec == Init /\ [][Next]_vars
=============================================================================
