---------------------------- MODULE GameClients ----------------------------
(***************************************************************************)
(* The clients of the game service and who they say they are.              *)
(*                                                                         *)
(* A connection is numbered by its arrival: GameService::Clients keeps its *)
(* clients in that order, and FindClientByPlayerId returns the first that  *)
(* matches.  A player may come back on a second connection while the first *)
(* still waits for its timeout, so two connections may carry one player    *)
(* id.  Each game manager adds to Accept, Login and Lose what it does.     *)
(***************************************************************************)
EXTENDS Naturals, FiniteSets

CONSTANTS
  ConnLimit,    \* bound on the connections that ever arrive
  Players,      \* player ids, as the database gives them to Steam ids
  NoPlayer      \* the id 0 of a client that has not logged in

ASSUME ClientsAssumption == ConnLimit \in Nat /\ NoPlayer \notin Players

Conns == 1 .. ConnLimit

VARIABLES
  arrived,      \* how many connections have arrived
  clients,      \* GameService::Clients, in the order of the numbers
  playerId      \* PlayerState::PlayerId; kept for connections that are gone

clientVars == <<arrived, clients, playerId>>

ClientsTypeOK ==
  /\ arrived \in 0 .. ConnLimit
  /\ clients \subseteq 1 .. arrived
  /\ playerId \in [Conns -> Players \cup {NoPlayer}]

ClientsInit ==
  /\ arrived = 0
  /\ clients = {}
  /\ playerId = [c \in Conns |-> NoPlayer]

\* FindClientByPlayerId: the first client with that id, if there is one.
Find(p) ==
  {c \in clients : /\ playerId[c] = p
                   /\ \A d \in clients : playerId[d] = p => c <= d}

LoggedIn(c) == c \in clients /\ playerId[c] # NoPlayer

\* HandleClientConnection, for a connection with a known token.
AcceptClient ==
  /\ arrived < ConnLimit
  /\ arrived' = arrived + 1
  /\ clients' = clients \cup {arrived + 1}
  /\ UNCHANGED playerId

\* RequestWaitForUserLogin, the first request of a connection.
LoginClient(c, p) ==
  /\ c \in clients
  /\ playerId[c] = NoPlayer
  /\ playerId' = [playerId EXCEPT ![c] = p]
  /\ UNCHANGED <<arrived, clients>>

\* Poll drops a client once every manager has been told; the managers are
\* told while it is still in Clients.
LoseClient(c) ==
  /\ c \in clients
  /\ clients' = clients \ {c}
  /\ UNCHANGED <<arrived, playerId>>

\* No other connection ever carried this one's player.
Sole(c) == \A d \in Conns \ {c} : playerId[d] # playerId[c]
=============================================================================
