------------------------- MODULE QuickMatchManager -------------------------
(***************************************************************************)
(* Undead matches of Dark Souls 3: DS3_QuickMatchManager.  A match is      *)
(* numbered by its registration, so Matches, a vector in that order, is    *)
(* the set of the numbers still listed.                                    *)
(*                                                                         *)
(* phase, asked, accepted and joining are what the clients know of their   *)
(* matches.                                                                *)
(***************************************************************************)
EXTENDS GameClients, Sequences

CONSTANTS
  Games,         \* mode, map and area of a match
  MatchLimit     \* bound on the matches ever registered

ASSUME MatchesAssumption == MatchLimit \in Nat

VARIABLES
  registered,    \* every Match made, by its number
  listed,        \* Matches: the numbers not yet erased
  phase,         \* each client hosts a match, plays one, or neither
  asked,         \* players whose join was pushed to a client, unanswered
  accepted,      \* players a client accepted since they asked, and the server did not tell
  joining        \* the host whose answer a client waits for

matchVars == <<registered, listed, phase, asked, accepted, joining>>

Match == [host : Players, conn : Conns, game : Games]

MatchesTypeOK ==
  /\ registered \in Seq(Match) /\ Len(registered) <= MatchLimit
  /\ listed \subseteq 1 .. Len(registered)
  /\ phase \in [Conns -> {"idle", "hosting", "playing"}]
  /\ asked \in [Conns -> SUBSET Players]
  /\ accepted \in [Conns -> SUBSET Players]
  /\ joining \in [Conns -> Players \cup {NoPlayer}]

MatchesInit ==
  /\ registered = <<>>
  /\ listed = {}
  /\ phase = [c \in Conns |-> "idle"]
  /\ asked = [c \in Conns |-> {}]
  /\ accepted = [c \in Conns |-> {}]
  /\ joining = [c \in Conns |-> NoPlayer]

HostedBy(p) == {m \in listed : registered[m].host = p}

\* GetMatchByHost: the first match of a host.
FirstOf(p) == {m \in HostedBy(p) : \A n \in HostedBy(p) : m <= n}

\* The game hosts one match at a time; the manager does not ask.
RegisterQuickMatch(c, g) ==
  /\ LoggedIn(c)
  /\ phase[c] = "idle"
  /\ Len(registered) < MatchLimit
  /\ registered' = Append(registered, [host |-> playerId[c], conn |-> c, game |-> g])
  /\ listed' = listed \cup {Len(registered) + 1}
  /\ phase' = [phase EXCEPT ![c] = "hosting"]
  /\ UNCHANGED <<asked, accepted, joining>>

\* The match a client registered last, if any: the one it hosts.
LastOf(c) ==
  {m \in 1 .. Len(registered) :
     /\ registered[m].conn = c
     /\ \A n \in 1 .. Len(registered) : registered[n].conn = c => n <= m}

\* A client withdraws the match it hosts; every match of the player on that map
\* and mode goes, whichever connection registered it.
UnregisterQuickMatch(c, g) ==
  /\ LoggedIn(c)
  /\ phase[c] = "hosting"
  /\ \E m \in LastOf(c) : registered[m].game = g
  /\ listed' = listed \ {m \in HostedBy(playerId[c]) : registered[m].game = g}
  /\ phase' = [phase EXCEPT ![c] = "idle"]
  /\ UNCHANGED <<registered, asked, accepted, joining>>

\* Mutant of JoinQuickMatch: the join is not pushed to the host.
JoinUnpushed(c, host) ==
  /\ LoggedIn(c)
  /\ joining[c] = NoPlayer
  /\ host # playerId[c]
  /\ Find(host) # {} /\ FirstOf(host) # {}
  /\ joining' = [joining EXCEPT ![c] = host]
  /\ UNCHANGED <<registered, listed, phase, asked, accepted>>

\* RequestJoinQuickMatch names the host.  Without a connection or a match of
\* that host the joiner is rejected at once, and nothing changes.
JoinQuickMatch(c, host) ==
  /\ LoggedIn(c)
  /\ joining[c] = NoPlayer
  /\ host # playerId[c]
  /\ Find(host) # {} /\ FirstOf(host) # {}
  /\ asked' = [d \in Conns |-> IF d \in Find(host)
                                 THEN asked[d] \cup {playerId[c]} ELSE asked[d]]
  /\ accepted' = [d \in Conns |-> IF d \in Find(host)
                                    THEN accepted[d] \ {playerId[c]} ELSE accepted[d]]
  /\ joining' = [joining EXCEPT ![c] = host]
  /\ UNCHANGED <<registered, listed, phase>>

\* RequestAcceptQuickMatch and RequestRejectQuickMatch: the answer goes to
\* the first connection of the player who asked.
AnswerJoin(c, joiner) ==
  /\ LoggedIn(c)
  /\ joiner \in asked[c]
  /\ asked' = [asked EXCEPT ![c] = @ \ {joiner}]
  /\ joining' = [d \in Conns |->
       IF d \in Find(joiner) /\ joining[d] = playerId[c] THEN NoPlayer ELSE joining[d]]
  /\ UNCHANGED <<registered, listed, phase, accepted>>

\* RequestAcceptQuickMatch with ill-formed data: the host gets its response, and
\* the player who asked is told nothing.
AcceptIllFormed(c, joiner) ==
  /\ LoggedIn(c)
  /\ joiner \in asked[c]
  /\ asked' = [asked EXCEPT ![c] = @ \ {joiner}]
  /\ accepted' = [accepted EXCEPT ![c] = @ \cup {joiner}]
  /\ UNCHANGED <<registered, listed, phase, joining>>

\* RequestSendQuickMatchStart takes the first match of the player off the list.
StartQuickMatch(c) ==
  /\ LoggedIn(c)
  /\ phase[c] = "hosting"
  /\ listed' = listed \ FirstOf(playerId[c])
  /\ phase' = [phase EXCEPT ![c] = "playing"]
  /\ UNCHANGED <<registered, asked, accepted, joining>>

\* The match is over; the client tells no one.
EndMatch(c) ==
  /\ c \in clients
  /\ phase[c] = "playing"
  /\ phase' = [phase EXCEPT ![c] = "idle"]
  /\ UNCHANGED <<registered, listed, asked, accepted, joining>>

\* Mutants of LoseMatches: only the first match goes; every match goes.
LoseFirstMatch(c) ==
  /\ listed' = listed \ FirstOf(playerId[c])
  /\ phase' = [phase EXCEPT ![c] = "idle"]
  /\ asked' = [asked EXCEPT ![c] = {}]
  /\ accepted' = [accepted EXCEPT ![c] = {}]
  /\ joining' = [joining EXCEPT ![c] = NoPlayer]
  /\ UNCHANGED registered

LoseAllMatches(c) ==
  /\ listed' = {}
  /\ phase' = [phase EXCEPT ![c] = "idle"]
  /\ asked' = [asked EXCEPT ![c] = {}]
  /\ accepted' = [accepted EXCEPT ![c] = {}]
  /\ joining' = [joining EXCEPT ![c] = NoPlayer]
  /\ UNCHANGED registered

\* OnLostPlayer: every match of the player, whichever connection registered it.
LoseMatches(c) ==
  /\ listed' = listed \ HostedBy(playerId[c])
  /\ phase' = [phase EXCEPT ![c] = "idle"]
  /\ asked' = [asked EXCEPT ![c] = {}]
  /\ accepted' = [accepted EXCEPT ![c] = {}]
  /\ joining' = [joining EXCEPT ![c] = NoPlayer]
  /\ UNCHANGED registered

MatchRequest ==
  \E c \in clients :
    \/ \E g \in Games : RegisterQuickMatch(c, g) \/ UnregisterQuickMatch(c, g)
    \/ \E p \in Players : JoinQuickMatch(c, p) \/ AnswerJoin(c, p) \/ AcceptIllFormed(c, p)
    \/ StartQuickMatch(c)
    \/ EndMatch(c)

-----------------------------------------------------------------------------
(* What the matches promise *)

\* A listed match can be joined: the connection that registered it is there,
\* so a join that finds the match also finds its host.
HostConnected ==
  \A m \in listed : registered[m].conn \in clients

\* A player with one connection has a match listed exactly while it hosts:
\* a match that started, was withdrawn or lost its host is offered to nobody,
\* and no other client's loss or start takes the match of a waiting host.
ListedWhileHosting ==
  \A c \in clients : Sole(c) /\ playerId[c] # NoPlayer =>
    (phase[c] = "hosting" <=> HostedBy(playerId[c]) # {})

\* A joiner is not forgotten while the host is there: the host it waits for has
\* its join before it and can still answer, or has accepted it with data that the
\* server threw away.
JoinerKnown ==
  \A c, d \in clients :
    /\ Sole(c) /\ Sole(d)
    /\ joining[c] # NoPlayer /\ joining[c] = playerId[d]
    => playerId[c] \in asked[d] \cup accepted[d]
=============================================================================
