------------------------- MODULE Matchmaking_proof -------------------------
(***************************************************************************)
(* Proofs about Matchmaking: any number of connections, players, areas,    *)
(* signs and matches, and any matching rules.                              *)
(***************************************************************************)
EXTENDS Matchmaking, SignManager_proof, SequenceTheorems, TLAPS

-----------------------------------------------------------------------------
(* What the requests of QuickMatchManager, and the comings and goings of   *)
(* the clients, preserve.                                                  *)

\* A connection that has not arrived, or not logged in, takes no part.
Newcomers ==
  \A c \in Conns :
    /\ c \notin 1 .. arrived => playerId[c] = NoPlayer
    /\ playerId[c] = NoPlayer => phase[c] = "idle" /\ joining[c] = NoPlayer

\* The connection of a listed match still carries the host's player id.
HostKnown ==
  \A m \in listed :
    /\ registered[m].conn \in clients
    /\ playerId[registered[m].conn] = registered[m].host

\* A player that is waited for has been there.
JoinedSeen ==
  \A c \in Conns : joining[c] # NoPlayer => \E e \in Conns : playerId[e] = joining[c]

\* A player with one connection has no match listed but the one it hosts.
HostsLast ==
  \A c \in clients : Sole(c) /\ playerId[c] # NoPlayer =>
    IF phase[c] = "hosting"
      THEN LastOf(c) # {} /\ HostedBy(playerId[c]) = LastOf(c)
      ELSE HostedBy(playerId[c]) = {}

\* The inductive invariant.
MatchInv ==
  /\ ClientsTypeOK /\ MatchesTypeOK
  /\ Newcomers /\ HostKnown /\ JoinedSeen /\ HostsLast /\ JoinerKnown

LEMMA MatchInitEstablishes == ClientsInit /\ MatchesInit => MatchInv
<1> SUFFICES ASSUME ClientsInit, MatchesInit PROVE MatchInv
  OBVIOUS
<1>1. registered \in Seq(Match) /\ Len(registered) <= MatchLimit
  BY MatchesAssumption, EmptySeq DEF MatchesInit
<1>2. ClientsTypeOK /\ MatchesTypeOK
  BY <1>1, ClientsAssumption
  DEF ClientsInit, MatchesInit, ClientsTypeOK, MatchesTypeOK, Conns
<1>3. Newcomers /\ HostKnown /\ JoinedSeen /\ HostsLast /\ JoinerKnown
  BY DEF ClientsInit, MatchesInit, Newcomers, HostKnown, JoinedSeen, HostsLast, JoinerKnown
<1> QED BY <1>2, <1>3 DEF MatchInv

LEMMA MatchInvImplies == MatchInv => HostConnected /\ ListedWhileHosting /\ JoinerKnown
BY DEF MatchInv, HostKnown, HostConnected, HostsLast, ListedWhileHosting

-----------------------------------------------------------------------------
(* The clients *)

LEMMA AcceptMatches ==
  ASSUME MatchInv, AcceptClient, UNCHANGED matchVars
  PROVE  MatchInv'
<1>1. /\ arrived' = arrived + 1 /\ arrived + 1 \in Conns
      /\ clients' = clients \cup {arrived + 1}
      /\ playerId[arrived + 1] = NoPlayer
      /\ UNCHANGED <<playerId, registered, listed, phase, asked, accepted, joining>>
  BY ClientsAssumption
  DEF MatchInv, ClientsTypeOK, Newcomers, AcceptClient, matchVars, Conns
<1>2. ClientsTypeOK' /\ MatchesTypeOK'
  BY <1>1, ClientsAssumption DEF MatchInv, ClientsTypeOK, MatchesTypeOK, Conns
<1>3. Newcomers'
  BY <1>1 DEF MatchInv, ClientsTypeOK, Newcomers, Conns
<1>4. HostKnown' /\ JoinedSeen'
  BY <1>1 DEF MatchInv, HostKnown, JoinedSeen
<1>5. HostsLast'
  BY <1>1 DEF MatchInv, HostsLast, Sole, LastOf, HostedBy
<1>6. JoinerKnown'
  <2> SUFFICES ASSUME NEW c \in clients', NEW d \in clients', Sole(c)', Sole(d)',
                      joining[c] # NoPlayer, joining[c] = playerId[d]
               PROVE  playerId[c] \in asked[d] \cup accepted[d]
    BY <1>1 DEF JoinerKnown
  <2>1. c \in clients /\ d \in clients
    BY <1>1 DEF MatchInv, Newcomers
  <2> QED BY <1>1, <2>1 DEF MatchInv, JoinerKnown, Sole
<1> QED BY <1>2, <1>3, <1>4, <1>5, <1>6 DEF MatchInv

LEMMA LoginMatches ==
  ASSUME MatchInv, NEW c \in Conns, NEW p \in Players, LoginClient(c, p),
         UNCHANGED matchVars
  PROVE  MatchInv'
<1>1. /\ c \in clients /\ playerId[c] = NoPlayer /\ p # NoPlayer
      /\ playerId' = [playerId EXCEPT ![c] = p]
      /\ playerId'[c] = p /\ \A d \in Conns \ {c} : playerId'[d] = playerId[d]
      /\ UNCHANGED <<arrived, clients, registered, listed, phase, asked, accepted, joining>>
  BY ClientsAssumption DEF MatchInv, ClientsTypeOK, LoginClient, matchVars
<1>2. ClientsTypeOK' /\ MatchesTypeOK'
  BY <1>1 DEF MatchInv, ClientsTypeOK, MatchesTypeOK
<1>c. clients \subseteq Conns
  BY ClientsAssumption DEF MatchInv, ClientsTypeOK, Conns
<1>m. \A m \in listed :
        /\ registered[m].conn \in Conns \ {c}
        /\ playerId'[registered[m].conn] = registered[m].host
  <2>1. \A m \in listed : registered[m] \in Match
    BY ElementOfSeq DEF MatchInv, MatchesTypeOK
  <2> QED BY <1>1, <2>1, ClientsAssumption DEF MatchInv, HostKnown, Match
<1>3. Newcomers'
  BY <1>1 DEF MatchInv, ClientsTypeOK, Newcomers
<1>4. HostKnown'
  BY <1>1, <1>m DEF MatchInv, HostKnown
<1>5. JoinedSeen'
  BY <1>1 DEF MatchInv, JoinedSeen
<1>6. \A d \in Conns \ {c} : playerId[d] # NoPlayer /\ Sole(d)' => Sole(d)
  BY <1>1 DEF Sole
<1>7. HostsLast'
  <2> SUFFICES ASSUME NEW d \in clients, Sole(d)', playerId'[d] # NoPlayer
               PROVE  IF phase[d] = "hosting"
                        THEN LastOf(d) # {} /\ HostedBy(playerId'[d]) = LastOf(d)
                        ELSE HostedBy(playerId'[d]) = {}
    BY <1>1 DEF HostsLast, LastOf, HostedBy
  <2>1. CASE d = c
    <3>1. HostedBy(p) = {}
      BY <1>1, <1>m, <2>1 DEF HostedBy, Sole
    <3> QED BY <1>1, <2>1, <3>1 DEF MatchInv, Newcomers
  <2>2. CASE d # c
    BY <1>1, <1>c, <1>6, <2>2 DEF MatchInv, HostsLast
  <2> QED BY <2>1, <2>2
<1>8. JoinerKnown'
  <2> SUFFICES ASSUME NEW d \in clients, NEW e \in clients, Sole(d)', Sole(e)',
                      joining[d] # NoPlayer, joining[d] = playerId'[e]
               PROVE  playerId'[d] \in asked[e] \cup accepted[e]
    BY <1>1 DEF JoinerKnown
  <2>1. d # c
    BY <1>1 DEF MatchInv, Newcomers
  <2>2. e # c
    <3> SUFFICES ASSUME e = c PROVE FALSE
      OBVIOUS
    <3>1. PICK f \in Conns : playerId[f] = joining[d]
      BY <1>c DEF MatchInv, JoinedSeen
    <3> QED BY <1>1, <3>1 DEF Sole
  <2>3. playerId[d] # NoPlayer /\ playerId[e] # NoPlayer
    BY <1>1, <1>c, <2>2 DEF MatchInv, Newcomers
  <2> QED BY <1>1, <1>c, <1>6, <2>1, <2>2, <2>3 DEF MatchInv, JoinerKnown
<1> QED BY <1>2, <1>3, <1>4, <1>5, <1>7, <1>8 DEF MatchInv

LEMMA LoseMatchesPreserves ==
  ASSUME MatchInv, NEW c \in Conns, LoseClient(c), LoseMatches(c)
  PROVE  MatchInv'
<1>1. /\ c \in clients /\ clients' = clients \ {c}
      /\ listed' = listed \ HostedBy(playerId[c])
      /\ phase' = [phase EXCEPT ![c] = "idle"]
      /\ asked' = [asked EXCEPT ![c] = {}]
      /\ accepted' = [accepted EXCEPT ![c] = {}]
      /\ joining' = [joining EXCEPT ![c] = NoPlayer]
      /\ UNCHANGED <<arrived, playerId, registered>>
  BY DEF LoseClient, LoseMatches
<1>c. clients \subseteq Conns
  BY ClientsAssumption DEF MatchInv, ClientsTypeOK, Conns
<1>2. ClientsTypeOK' /\ MatchesTypeOK'
  BY <1>1 DEF MatchInv, ClientsTypeOK, MatchesTypeOK
<1>3. Newcomers'
  BY <1>1 DEF MatchInv, MatchesTypeOK, Newcomers
<1>4. HostKnown'
  BY <1>1 DEF MatchInv, HostKnown, HostedBy
<1>5. JoinedSeen'
  BY <1>1 DEF MatchInv, MatchesTypeOK, JoinedSeen
<1>6. HostsLast'
  <2> SUFFICES ASSUME NEW d \in clients', Sole(d), playerId[d] # NoPlayer
               PROVE  IF phase'[d] = "hosting"
                        THEN LastOf(d)' # {} /\ HostedBy(playerId[d])' = LastOf(d)'
                        ELSE HostedBy(playerId[d])' = {}
    BY <1>1 DEF HostsLast, Sole, HostedBy
  <2>1. playerId[d] # playerId[c] /\ d # c /\ phase'[d] = phase[d]
    BY <1>1, <1>c DEF MatchInv, MatchesTypeOK, Sole
  <2>2. HostedBy(playerId[d])' = HostedBy(playerId[d])
    BY <1>1, <2>1 DEF HostedBy
  <2>3. LastOf(d)' = LastOf(d)
    BY <1>1 DEF LastOf
  <2> QED BY <1>1, <2>1, <2>2, <2>3 DEF MatchInv, HostsLast
<1>7. JoinerKnown'
  BY <1>1, <1>c DEF MatchInv, MatchesTypeOK, JoinerKnown, Sole
<1> QED BY <1>2, <1>3, <1>4, <1>5, <1>6, <1>7 DEF MatchInv

-----------------------------------------------------------------------------
(* The requests *)

LEMMA RegisterPreserves ==
  ASSUME MatchInv, NEW c \in clients, NEW g \in Games, RegisterQuickMatch(c, g),
         UNCHANGED clientVars
  PROVE  MatchInv'
<1> DEFINE n == Len(registered) + 1
           new == [host |-> playerId[c], conn |-> c, game |-> g]
<1>c. clients \subseteq Conns
  BY ClientsAssumption DEF MatchInv, ClientsTypeOK, Conns
<1>1. new \in Match /\ playerId[c] # NoPlayer /\ phase[c] = "idle"
  BY <1>c DEF MatchInv, ClientsTypeOK, RegisterQuickMatch, LoggedIn, Match
<1>2. /\ registered' \in Seq(Match) /\ Len(registered') = n /\ n <= MatchLimit
      /\ \A m \in 1 .. Len(registered) : registered'[m] = registered[m]
      /\ registered'[n] = new
      /\ n \notin 1 .. Len(registered) /\ 1 .. n = 1 .. Len(registered) \cup {n}
      /\ \A m \in 1 .. Len(registered) : m <= n
      /\ n <= n
  BY <1>1, MatchesAssumption, AppendProperties, LenProperties
  DEF MatchInv, MatchesTypeOK, RegisterQuickMatch
<1>3. /\ listed' = listed \cup {n} /\ phase' = [phase EXCEPT ![c] = "hosting"]
      /\ UNCHANGED <<asked, accepted, joining, arrived, clients, playerId>>
      /\ listed \subseteq 1 .. Len(registered)
  BY DEF MatchInv, MatchesTypeOK, RegisterQuickMatch, clientVars
<1> HIDE DEF n, new
<1>4. ClientsTypeOK' /\ MatchesTypeOK'
  BY <1>c, <1>2, <1>3 DEF MatchInv, ClientsTypeOK, MatchesTypeOK
<1>5. Newcomers'
  BY <1>c, <1>1, <1>3 DEF MatchInv, MatchesTypeOK, Newcomers
<1>6. HostKnown'
  <2> SUFFICES ASSUME NEW m \in listed'
               PROVE  /\ registered'[m].conn \in clients
                      /\ playerId[registered'[m].conn] = registered'[m].host
    BY <1>3 DEF HostKnown
  <2>1. CASE m = n
    BY <1>2, <2>1 DEF new
  <2>2. CASE m \in listed
    BY <1>2, <1>3, <2>2 DEF MatchInv, HostKnown
  <2> QED BY <1>3, <2>1, <2>2
<1>7. JoinedSeen' /\ JoinerKnown'
  BY <1>3 DEF MatchInv, JoinedSeen, JoinerKnown, Sole
<1>8. HostsLast'
  <2> SUFFICES ASSUME NEW d \in clients, Sole(d), playerId[d] # NoPlayer
               PROVE  IF phase'[d] = "hosting"
                        THEN LastOf(d)' # {} /\ HostedBy(playerId[d])' = LastOf(d)'
                        ELSE HostedBy(playerId[d])' = {}
    BY <1>3 DEF HostsLast, Sole, HostedBy
  <2>1. CASE d = c
    <3>1. HostedBy(playerId[c]) = {}
      BY <1>1, <2>1 DEF MatchInv, HostsLast
    <3>2. HostedBy(playerId[c])' = {n}
      <4>1. \A m \in listed : registered'[m].host # playerId[c]
        BY <1>2, <1>3, <3>1 DEF HostedBy
      <4>2. registered'[n].host = playerId[c]
        BY <1>2 DEF new
      <4> QED BY <1>3, <4>1, <4>2 DEF HostedBy
    <3>3. LastOf(c)' = {n}
      <4>1. n \in LastOf(c)'
        BY <1>2 DEF LastOf, new
      <4>2. \A m \in LastOf(c)' : m = n
        <5> SUFFICES ASSUME NEW m \in LastOf(c)' PROVE m = n
          OBVIOUS
        <5>1. m \in 1 .. n /\ n <= m
          BY <1>2, <4>1 DEF LastOf
        <5> QED BY <1>2, <5>1 DEF MatchInv, MatchesTypeOK, n
      <4> QED BY <4>1, <4>2
    <3>4. phase'[c] = "hosting"
      BY <1>c, <1>3 DEF MatchInv, MatchesTypeOK
    <3> QED BY <2>1, <3>2, <3>3, <3>4
  <2>2. CASE d # c
    <3>1. playerId[d] # playerId[c] /\ phase'[d] = phase[d]
      BY <1>c, <1>3, <2>2 DEF MatchInv, MatchesTypeOK, Sole
    <3>2. HostedBy(playerId[d])' = HostedBy(playerId[d])
      <4>1. \A m \in listed : registered'[m] = registered[m]
        BY <1>2, <1>3
      <4>2. registered'[n].host # playerId[d]
        BY <1>2, <3>1 DEF new
      <4> QED BY <1>3, <4>1, <4>2 DEF HostedBy
    <3>3. LastOf(d)' = LastOf(d)
      BY <1>2, <2>2 DEF LastOf, new
    <3> QED BY <3>1, <3>2, <3>3 DEF MatchInv, HostsLast
  <2> QED BY <2>1, <2>2
<1> QED BY <1>4, <1>5, <1>6, <1>7, <1>8 DEF MatchInv

\* Requests that take matches of the client's player off the list, and its
\* own with them, and leave it hosting none.
LEMMA RetirePreserves ==
  ASSUME MatchInv, NEW c \in clients, NEW ph \in {"idle", "playing"},
         UNCHANGED <<clientVars, registered, asked, accepted, joining>>,
         playerId[c] # NoPlayer, phase[c] = "hosting",
         phase' = [phase EXCEPT ![c] = ph],
         listed' \subseteq listed,
         listed \ listed' \subseteq HostedBy(playerId[c]),
         HostedBy(playerId[c]) = LastOf(c) => HostedBy(playerId[c]) \cap listed' = {}
  PROVE  MatchInv'
<1>c. clients \subseteq Conns
  BY ClientsAssumption DEF MatchInv, ClientsTypeOK, Conns
<1>1. ClientsTypeOK' /\ MatchesTypeOK'
  BY DEF MatchInv, ClientsTypeOK, MatchesTypeOK, clientVars
<1>2. Newcomers' /\ JoinedSeen' /\ JoinerKnown' /\ HostKnown'
  BY <1>c
  DEF MatchInv, MatchesTypeOK, Newcomers, JoinedSeen, JoinerKnown, HostKnown, Sole, clientVars
<1>3. HostsLast'
  <2> SUFFICES ASSUME NEW d \in clients, Sole(d), playerId[d] # NoPlayer
               PROVE  IF phase'[d] = "hosting"
                        THEN LastOf(d) # {} /\ HostedBy(playerId[d])' = LastOf(d)
                        ELSE HostedBy(playerId[d])' = {}
    BY DEF HostsLast, Sole, HostedBy, LastOf, clientVars
  <2>1. CASE d = c
    <3>1. HostedBy(playerId[c]) = LastOf(c)
      BY <2>1 DEF MatchInv, HostsLast
    <3>2. HostedBy(playerId[c])' = {}
      BY <3>1 DEF HostedBy, clientVars
    <3> QED BY <1>c, <2>1, <3>2 DEF MatchInv, MatchesTypeOK, HostedBy, clientVars
  <2>2. CASE d # c
    <3>1. playerId[d] # playerId[c] /\ phase'[d] = phase[d]
      BY <1>c, <2>2 DEF MatchInv, MatchesTypeOK, Sole
    <3>2. HostedBy(playerId[d])' = HostedBy(playerId[d])
      BY <3>1 DEF HostedBy, clientVars
    <3> QED BY <3>1, <3>2 DEF MatchInv, HostsLast
  <2> QED BY <2>1, <2>2
<1> QED BY <1>1, <1>2, <1>3 DEF MatchInv

LEMMA UnregisterPreserves ==
  ASSUME MatchInv, NEW c \in clients, NEW g \in Games, UnregisterQuickMatch(c, g),
         UNCHANGED clientVars
  PROVE  MatchInv'
<1>1. HostedBy(playerId[c]) = LastOf(c) => HostedBy(playerId[c]) \cap listed' = {}
  <2> SUFFICES ASSUME HostedBy(playerId[c]) = LastOf(c),
                      NEW m \in LastOf(c), m \in listed'
               PROVE  FALSE
    OBVIOUS
  <2>1. PICK n \in LastOf(c) : registered[n].game = g
    BY DEF UnregisterQuickMatch
  <2>2. m = n
    BY <2>1 DEF LastOf
  <2> QED BY <2>1, <2>2 DEF UnregisterQuickMatch
<1> QED BY <1>1, RetirePreserves DEF UnregisterQuickMatch, LoggedIn

LEMMA StartPreserves ==
  ASSUME MatchInv, NEW c \in clients, StartQuickMatch(c), UNCHANGED clientVars
  PROVE  MatchInv'
<1>1. HostedBy(playerId[c]) = LastOf(c) => HostedBy(playerId[c]) \cap listed' = {}
  <2> SUFFICES ASSUME HostedBy(playerId[c]) = LastOf(c),
                      NEW m \in LastOf(c)
               PROVE  m \in FirstOf(playerId[c])
    BY DEF StartQuickMatch
  <2>1. \A n \in LastOf(c) : m <= n
    BY DEF LastOf
  <2> QED BY <2>1 DEF FirstOf
<1>2. FirstOf(playerId[c]) \subseteq HostedBy(playerId[c])
  BY DEF FirstOf
<1> QED BY <1>1, <1>2, RetirePreserves DEF StartQuickMatch, LoggedIn

LEMMA EndPreserves ==
  ASSUME MatchInv, NEW c \in clients, EndMatch(c), UNCHANGED clientVars
  PROVE  MatchInv'
<1>c. clients \subseteq Conns
  BY ClientsAssumption DEF MatchInv, ClientsTypeOK, Conns
<1>1. ClientsTypeOK' /\ MatchesTypeOK'
  BY DEF MatchInv, ClientsTypeOK, MatchesTypeOK, clientVars, EndMatch
<1>2. Newcomers'
  BY <1>c DEF MatchInv, MatchesTypeOK, Newcomers, clientVars, EndMatch
<1>3. JoinedSeen' /\ JoinerKnown' /\ HostKnown'
  BY DEF MatchInv, JoinedSeen, JoinerKnown, HostKnown, Sole, clientVars, EndMatch
<1>4. HostsLast'
  <2>1. \A d \in clients : phase'[d] = "hosting" <=> phase[d] = "hosting"
    BY <1>c DEF MatchInv, MatchesTypeOK, EndMatch
  <2> QED BY <2>1 DEF MatchInv, HostsLast, Sole, HostedBy, LastOf, clientVars, EndMatch
<1> QED BY <1>1, <1>2, <1>3, <1>4 DEF MatchInv

\* What a join or an answer to one leaves alone.
LEMMA JoinKeeps ==
  ASSUME MatchInv, UNCHANGED <<clientVars, registered, listed, phase>>
  PROVE  ClientsTypeOK' /\ HostKnown' /\ HostsLast'
BY DEF MatchInv, ClientsTypeOK, HostKnown, HostsLast, Sole, HostedBy, LastOf, clientVars

LEMMA JoinPreserves ==
  ASSUME MatchInv, NEW c \in clients, NEW p \in Players, JoinQuickMatch(c, p),
         UNCHANGED clientVars
  PROVE  MatchInv'
<1>c. clients \subseteq Conns
  BY ClientsAssumption DEF MatchInv, ClientsTypeOK, Conns
<1>1. /\ playerId[c] \in Players /\ playerId[c] # NoPlayer /\ p # NoPlayer
      /\ Find(p) # {}
      /\ asked' = [d \in Conns |-> IF d \in Find(p)
                                     THEN asked[d] \cup {playerId[c]} ELSE asked[d]]
      /\ accepted' = [d \in Conns |-> IF d \in Find(p)
                                        THEN accepted[d] \ {playerId[c]} ELSE accepted[d]]
      /\ joining' = [joining EXCEPT ![c] = p]
      /\ UNCHANGED <<registered, listed, phase, arrived, clients, playerId>>
  BY <1>c, ClientsAssumption
  DEF MatchInv, ClientsTypeOK, JoinQuickMatch, LoggedIn, clientVars
<1>2. ClientsTypeOK' /\ HostKnown' /\ HostsLast'
  BY <1>1, JoinKeeps
<1>3. MatchesTypeOK'
  <2>1. asked' \in [Conns -> SUBSET Players] /\ accepted' \in [Conns -> SUBSET Players]
    BY <1>1 DEF MatchInv, MatchesTypeOK
  <2> QED BY <1>1, <2>1 DEF MatchInv, MatchesTypeOK
<1>4. Newcomers'
  BY <1>c, <1>1 DEF MatchInv, MatchesTypeOK, Newcomers
<1>5. JoinedSeen'
  <2>1. \E e \in Conns : playerId[e] = p
    BY <1>c, <1>1 DEF Find
  <2> QED BY <1>1, <2>1 DEF MatchInv, MatchesTypeOK, JoinedSeen
<1>6. JoinerKnown'
  <2> SUFFICES ASSUME NEW d \in clients, NEW e \in clients, Sole(d), Sole(e),
                      joining'[d] # NoPlayer, joining'[d] = playerId[e]
               PROVE  playerId[d] \in asked'[e] \cup accepted'[e]
    BY <1>1 DEF JoinerKnown, Sole
  <2>1. asked[e] \cup accepted[e] \subseteq asked'[e] \cup accepted'[e]
    BY <1>c, <1>1
  <2>2. CASE d = c
    <3>1. playerId[e] = p
      BY <1>c, <1>1, <2>2 DEF MatchInv, MatchesTypeOK
    <3>2. \A f \in clients : playerId[f] = p => e <= f
      <4> SUFFICES ASSUME NEW f \in clients, playerId[f] = p PROVE e <= f
        OBVIOUS
      <4>1. f = e
        BY <1>c, <3>1 DEF Sole
      <4>2. e \in 1 .. ConnLimit
        BY <1>c DEF Conns
      <4>3. e <= e
        BY <4>2, ClientsAssumption
      <4> QED BY <4>1, <4>3
    <3>3. e \in Find(p)
      BY <3>1, <3>2 DEF Find
    <3> QED BY <1>c, <1>1, <2>2, <3>3
  <2>3. CASE d # c
    <3>1. joining'[d] = joining[d]
      BY <1>c, <1>1, <2>3 DEF MatchInv, MatchesTypeOK
    <3> QED BY <2>1, <3>1 DEF MatchInv, JoinerKnown
  <2> QED BY <2>2, <2>3
<1> QED BY <1>2, <1>3, <1>4, <1>5, <1>6 DEF MatchInv

LEMMA AnswerPreserves ==
  ASSUME MatchInv, NEW c \in clients, NEW p \in Players, AnswerJoin(c, p),
         UNCHANGED clientVars
  PROVE  MatchInv'
<1>c. clients \subseteq Conns
  BY ClientsAssumption DEF MatchInv, ClientsTypeOK, Conns
<1>1. /\ asked' = [asked EXCEPT ![c] = @ \ {p}]
      /\ joining' = [d \in Conns |->
           IF d \in Find(p) /\ joining[d] = playerId[c] THEN NoPlayer ELSE joining[d]]
      /\ UNCHANGED <<registered, listed, phase, accepted, arrived, clients, playerId>>
  BY DEF AnswerJoin, clientVars
<1>2. ClientsTypeOK' /\ HostKnown' /\ HostsLast'
  BY <1>1, JoinKeeps
<1>3. MatchesTypeOK'
  <2>1. joining' \in [Conns -> Players \cup {NoPlayer}]
    BY <1>1 DEF MatchInv, MatchesTypeOK
  <2> QED BY <1>1, <2>1 DEF MatchInv, MatchesTypeOK
<1>4. Newcomers' /\ JoinedSeen'
  BY <1>1 DEF MatchInv, Newcomers, JoinedSeen
<1>5. JoinerKnown'
  <2> SUFFICES ASSUME NEW d \in clients, NEW e \in clients, Sole(d), Sole(e),
                      joining'[d] # NoPlayer, joining'[d] = playerId[e]
               PROVE  playerId[d] \in asked'[e] \cup accepted'[e]
    BY <1>1 DEF JoinerKnown, Sole
  <2>1. joining'[d] = joining[d] /\ ~(d \in Find(p) /\ joining[d] = playerId[c])
    BY <1>c, <1>1
  <2>2. playerId[d] \in asked[e] \cup accepted[e]
    BY <2>1 DEF MatchInv, JoinerKnown
  <2>3. CASE e = c /\ playerId[d] = p
    <3>1. \A f \in clients : playerId[f] = p => d <= f
      <4> SUFFICES ASSUME NEW f \in clients, playerId[f] = p PROVE d <= f
        OBVIOUS
      <4>1. f = d
        BY <1>c, <2>3 DEF Sole
      <4>2. d \in 1 .. ConnLimit
        BY <1>c DEF Conns
      <4>3. d <= d
        BY <4>2, ClientsAssumption
      <4> QED BY <4>1, <4>3
    <3> QED BY <2>1, <2>3, <3>1 DEF Find
  <2>4. CASE ~(e = c /\ playerId[d] = p)
    BY <1>c, <1>1, <2>2, <2>4 DEF MatchInv, MatchesTypeOK
  <2> QED BY <2>3, <2>4
<1> QED BY <1>2, <1>3, <1>4, <1>5 DEF MatchInv

LEMMA AcceptIllFormedPreserves ==
  ASSUME MatchInv, NEW c \in clients, NEW p \in Players, AcceptIllFormed(c, p),
         UNCHANGED clientVars
  PROVE  MatchInv'
<1>c. clients \subseteq Conns
  BY ClientsAssumption DEF MatchInv, ClientsTypeOK, Conns
<1>1. /\ asked' = [asked EXCEPT ![c] = @ \ {p}]
      /\ accepted' = [accepted EXCEPT ![c] = @ \cup {p}]
      /\ UNCHANGED <<registered, listed, phase, joining, arrived, clients, playerId>>
  BY DEF AcceptIllFormed, clientVars
<1>2. ClientsTypeOK' /\ HostKnown' /\ HostsLast'
  BY <1>1, JoinKeeps
<1>3. MatchesTypeOK'
  BY <1>1 DEF MatchInv, MatchesTypeOK
<1>4. Newcomers' /\ JoinedSeen'
  BY <1>1 DEF MatchInv, Newcomers, JoinedSeen
\* Nobody is forgotten: the player moves from asked to accepted.
<1>5. JoinerKnown'
  <2>1. \A d \in Conns : asked[d] \cup accepted[d] \subseteq asked'[d] \cup accepted'[d]
    BY <1>1 DEF MatchInv, MatchesTypeOK
  <2> QED BY <1>c, <1>1, <2>1 DEF MatchInv, JoinerKnown, Sole
<1> QED BY <1>2, <1>3, <1>4, <1>5 DEF MatchInv

LEMMA MatchRequestPreserves ==
  ASSUME MatchInv, MatchRequest, UNCHANGED clientVars
  PROVE  MatchInv'
<1>1. PICK c \in clients :
        \/ \E g \in Games : RegisterQuickMatch(c, g) \/ UnregisterQuickMatch(c, g)
        \/ \E p \in Players : JoinQuickMatch(c, p) \/ AnswerJoin(c, p) \/ AcceptIllFormed(c, p)
        \/ StartQuickMatch(c)
        \/ EndMatch(c)
  BY DEF MatchRequest
<1>2. CASE \E g \in Games : RegisterQuickMatch(c, g) \/ UnregisterQuickMatch(c, g)
  BY <1>2, RegisterPreserves, UnregisterPreserves
<1>3. CASE \E p \in Players : JoinQuickMatch(c, p) \/ AnswerJoin(c, p) \/ AcceptIllFormed(c, p)
  BY <1>3, JoinPreserves, AnswerPreserves, AcceptIllFormedPreserves
<1>4. CASE StartQuickMatch(c)
  BY <1>4, StartPreserves
<1>5. CASE EndMatch(c)
  BY <1>5, EndPreserves
<1> QED BY <1>1, <1>2, <1>3, <1>4, <1>5

LEMMA MatchesStutter ==
  ASSUME MatchInv, UNCHANGED <<clientVars, matchVars>>
  PROVE  MatchInv'
BY DEF MatchInv, ClientsTypeOK, MatchesTypeOK, Newcomers, HostKnown, JoinedSeen, HostsLast,
       JoinerKnown, Sole, LastOf, HostedBy, clientVars, matchVars

-----------------------------------------------------------------------------
(* Both managers on the same clients.                                      *)

\* The inductive invariant: each manager's, on the same clients.
IInv == SignInv /\ MatchInv

LEMMA NextPreserves == IInv /\ [Next]_vars => IInv'
<1> SUFFICES ASSUME IInv, [Next]_vars PROVE IInv'
  OBVIOUS
<1> USE DEF IInv
<1>1. CASE Accept
  BY <1>1, AcceptSigns, AcceptMatches DEF Accept, signVars, matchVars
<1>2. CASE \E c \in Conns, p \in Players : Login(c, p)
  BY <1>2, LoginSigns, LoginMatches DEF Login, signVars, matchVars
<1>3. CASE \E c \in Conns : Lose(c)
  BY <1>3, LoseSignsPreserves, LoseMatchesPreserves DEF Lose
<1>4. CASE SignRequest /\ UNCHANGED <<clientVars, matchVars>>
  BY <1>4, SignRequestPreserves, MatchesStutter
<1>5. CASE MatchRequest /\ UNCHANGED <<clientVars, signVars>>
  BY <1>5, MatchRequestPreserves, SignsStutter
<1>6. CASE UNCHANGED vars
  BY <1>6, SignsStutter, MatchesStutter DEF vars
<1> QED BY <1>1, <1>2, <1>3, <1>4, <1>5, <1>6 DEF Next

THEOREM InvariantHolds == Spec => []IInv
<1>1. Init => IInv
  BY SignInitEstablishes, MatchInitEstablishes DEF Init, IInv
<1> QED BY <1>1, NextPreserves, PTL DEF Spec

\* Lists, caches and queues keep their types, and no area of the pool ever holds
\* more signs than SummonSignMaxEntriesPerArea.
THEOREM TypeCorrect == Spec => []TypeOK
<1>1. IInv => TypeOK
  BY DEF IInv, SignInv, MatchInv, TypeOK
<1> QED BY <1>1, InvariantHolds, PTL

\* A cached sign always has an owner to push its summons to: the Ensure of
\* Handle_RequestSummonSign holds.
THEOREM OriginsConnected == Spec => []OriginConnected
<1>1. IInv => OriginConnected
  BY SignInvImplies DEF IInv
<1> QED BY <1>1, InvariantHolds, PTL

\* A rejection turns down the summons that was offered, and no other.
THEOREM OffersCurrent == Spec => []OfferCurrent
<1>1. IInv => OfferCurrent
  BY DEF IInv, SignInv
<1> QED BY <1>1, InvariantHolds, PTL

\* A client that waits for a summons holds the sign's reservation.
THEOREM WaitersReserved == Spec => []WaiterReserved
<1>1. IInv => WaiterReserved
  BY DEF IInv, SignInv
<1> QED BY <1>1, InvariantHolds, PTL

\* A client that still shows a sign learns of its removal, unless the sign had left
\* the cache when its owner asked.
THEOREM RemovalsAnnounced == Spec => []RemovalAnnounced
<1>1. IInv => RemovalAnnounced
  BY SignInvImplies DEF IInv
<1> QED BY <1>1, InvariantHolds, PTL

\* The pool gives up its oldest signs first.
THEOREM PoolKeepsNewest == Spec => []KeepsNewest
<1>1. IInv => KeepsNewest
  BY DEF IInv, SignInv
<1> QED BY <1>1, InvariantHolds, PTL

\* No match outlives its host's connection.
THEOREM HostsConnected == Spec => []HostConnected
<1>1. IInv => HostConnected
  BY MatchInvImplies DEF IInv
<1> QED BY <1>1, InvariantHolds, PTL

\* A match is listed exactly as long as it is hosted.
THEOREM ListedWhileHosted == Spec => []ListedWhileHosting
<1>1. IInv => ListedWhileHosting
  BY MatchInvImplies DEF IInv
<1> QED BY <1>1, InvariantHolds, PTL

\* A host that a player waits for can still answer it, or has accepted it with data
\* that the server threw away.
THEOREM JoinersKnown == Spec => []JoinerKnown
<1>1. IInv => JoinerKnown
  BY MatchInvImplies DEF IInv
<1> QED BY <1>1, InvariantHolds, PTL
=============================================================================
