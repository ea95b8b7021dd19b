---------------------------- MODULE SignManager ----------------------------
(***************************************************************************)
(* Summon signs of Dark Souls 3: DS3_SignManager and the OnlineAreaPool    *)
(* that caches them.  Sign ids only grow, so the pool's RemoveOrderQueue   *)
(* is kept as a set: its front is its smallest id.                         *)
(*                                                                         *)
(* laid is what the clients ask of their own signs; view, waiting and      *)
(* offers are what the clients have been sent.  They advance when the      *)
(* server sends, since one connection's messages arrive in order (module   *)
(* ReliableUdp).                                                           *)
(***************************************************************************)
EXTENDS GameClients, Sequences

CONSTANTS
  Areas,         \* DS3_OnlineAreaId
  MaxEntries,    \* SummonSignMaxEntriesPerArea
  MatchesWith,   \* players whose signs the matching rules let each player see
  SignLimit      \* bound on the signs ever created

ASSUME SignsAssumption ==
  /\ MaxEntries \in Nat \ {0}
  /\ MatchesWith \in [Players -> SUBSET Players]
  /\ SignLimit \in Nat

SignIds == 1 .. SignLimit

VARIABLES
  signs,         \* every SummonSign made, by SignId; NextSignId is its length
  cache,         \* OnlineAreaPool::Area::Entries
  queue,         \* OnlineAreaPool::Area::RemoveOrderQueue
  active,        \* GameClient::ActiveSummonSigns
  laid,          \* signs a client has laid and not asked to remove
  view,          \* signs a client was given and not told to remove
  waiting,       \* signs a client asked to summon and has no answer about
  offers         \* <<sign, summoner>> pushed to a client and not rejected

signVars == <<signs, cache, queue, active, laid, view, waiting, offers>>

SummonSign ==
  [owner : Conns, player : Players, area : Areas,
   summoner : Players \cup {NoPlayer}, aware : SUBSET Players]

SignsTypeOK ==
  /\ signs \in Seq(SummonSign) /\ Len(signs) <= SignLimit
  /\ cache \in [Areas -> SUBSET (1 .. Len(signs))]
  /\ \A a \in Areas : Cardinality(cache[a]) <= MaxEntries
  /\ queue \in [Areas -> SUBSET (1 .. Len(signs))]
  /\ active \in [Conns -> SUBSET (1 .. Len(signs))]
  /\ laid \in [Conns -> SUBSET (1 .. Len(signs))]
  /\ view \in [Conns -> SUBSET (1 .. Len(signs))]
  /\ waiting \in [Conns -> SUBSET (1 .. Len(signs))]
  /\ offers \in [Conns -> SUBSET ((1 .. Len(signs)) \X Players)]

SignsInit ==
  /\ signs = <<>>
  /\ cache = [a \in Areas |-> {}]
  /\ queue = [a \in Areas |-> {}]
  /\ active = [c \in Conns |-> {}]
  /\ laid = [c \in Conns |-> {}]
  /\ view = [c \in Conns |-> {}]
  /\ waiting = [c \in Conns |-> {}]
  /\ offers = [c \in Conns |-> {}]

Cached(s) == s \in cache[signs[s].area]

-----------------------------------------------------------------------------
(* The pool *)

\* Mutants of Popped: one entry too many stays; the back goes, not the front.
PoppedLate(entries, order) ==
  {s \in order : Cardinality({t \in entries : t > s}) > MaxEntries}

PoppedNewest(entries, order) ==
  {s \in order : Cardinality({t \in entries : t <= s}) > MaxEntries}

\* TrimArea pops the front while the entries are too many; s is popped when
\* it comes to the front and the entries not yet popped still exceed the limit.
Popped(entries, order) ==
  {s \in order : Cardinality({t \in entries : t >= s}) > MaxEntries}

\* GetRecentSet: the first max matching entries along the queue.
RecentSet(a, p, max) ==
  LET found == {s \in cache[a] \cap queue[a] : signs[s].player \in MatchesWith[p]}
  IN  {s \in found : Cardinality({t \in found : t < s}) < max}

\* Removing the signs of R, each announced to the players aware of it: the
\* push goes to the first connection of each of them.
Told(d, s) == playerId[d] \in signs[s].aware /\ d \in Find(playerId[d])

RemoveAndNotifyAware(R) ==
  /\ cache' = [a \in Areas |-> cache[a] \ R]
  /\ signs' = [s \in DOMAIN signs |->
       IF s \in R THEN [signs[s] EXCEPT !.summoner = NoPlayer, !.aware = {}]
                  ELSE signs[s]]
  /\ UNCHANGED queue

StillShown(shown, R) ==
  [d \in Conns |-> {s \in shown[d] : ~(s \in R /\ Told(d, s))}]

-----------------------------------------------------------------------------
(* The requests *)

\* Mutant of GetSignList: the player is not marked as aware.
GetSignListUnaware(c, a, max) ==
  /\ LoggedIn(c)
  /\ view' = [view EXCEPT ![c] = @ \cup RecentSet(a, playerId[c], max)]
  /\ UNCHANGED <<signs, cache, queue, active, laid, waiting, offers>>

\* One searched area of RequestGetSignList, with room for max signs.
GetSignList(c, a, max) ==
  LET found == RecentSet(a, playerId[c], max)
  IN  /\ LoggedIn(c)
      /\ signs' = [s \in DOMAIN signs |->
           IF s \in found
             THEN [signs[s] EXCEPT !.aware = @ \cup {playerId[c]}]
             ELSE signs[s]]
      /\ view' = [view EXCEPT ![c] = @ \cup found]
      /\ UNCHANGED <<cache, queue, active, laid, waiting, offers>>

CreateSign(c, a) ==
  LET id == Len(signs) + 1
      entries == cache[a] \cup {id}
      order == queue[a] \cup {id}
      popped == Popped(entries, order)
  IN  /\ LoggedIn(c)
      /\ id \in SignIds
      /\ signs' = Append(signs, [owner |-> c, player |-> playerId[c], area |-> a,
                                 summoner |-> NoPlayer, aware |-> {}])
      /\ cache' = [cache EXCEPT ![a] = entries \ popped]
      /\ queue' = [queue EXCEPT ![a] = order \ popped]
      /\ active' = [active EXCEPT ![c] = @ \cup {id}]
      /\ laid' = [laid EXCEPT ![c] = @ \cup {id}]
      /\ UNCHANGED <<view, waiting, offers>>

\* A client takes back a sign it has laid.  For a sign that is gone from the
\* cache the request is dropped: the sign stays active, and nobody is told.
RemoveSign(c, s) ==
  /\ LoggedIn(c)
  /\ s \in laid[c]
  /\ laid' = [laid EXCEPT ![c] = @ \ {s}]
  /\ IF Cached(s) /\ s \in active[c]
       THEN /\ active' = [active EXCEPT ![c] = @ \ {s}]
            /\ RemoveAndNotifyAware({s})
            /\ view' = StillShown(view, {s})
            /\ waiting' = StillShown(waiting, {s})
       ELSE UNCHANGED <<signs, cache, queue, active, view, waiting>>
  /\ UNCHANGED offers

\* Mutant of SummonFreeSign: a sign that is being summoned is offered again.
SummonAnySign(c, s) ==
  /\ LoggedIn(c)
  /\ s \in view[c] \ waiting[c]
  /\ Cached(s)
  /\ signs' = [signs EXCEPT ![s].summoner = playerId[c]]
  /\ offers' = [d \in Conns |-> IF d \in Find(signs[s].player)
                                  THEN offers[d] \cup {<<s, playerId[c]>>}
                                  ELSE offers[d]]
  /\ waiting' = [waiting EXCEPT ![c] = @ \cup {s}]
  /\ UNCHANGED <<cache, queue, active, laid, view>>

\* A client asks for a sign it was shown.  A free sign in the cache is
\* reserved and offered to the first connection of the player who laid it;
\* otherwise the client gets a rejection, and nothing changes.
SummonFreeSign(c, s) ==
  /\ LoggedIn(c)
  /\ s \in view[c] \ waiting[c]
  /\ Cached(s) /\ signs[s].summoner = NoPlayer
  /\ signs' = [signs EXCEPT ![s].summoner = playerId[c]]
  /\ offers' = [d \in Conns |-> IF d \in Find(signs[s].player)
                                  THEN offers[d] \cup {<<s, playerId[c]>>}
                                  ELSE offers[d]]
  /\ waiting' = [waiting EXCEPT ![c] = @ \cup {s}]
  /\ UNCHANGED <<cache, queue, active, laid, view>>

\* Mutant of RejectSign: the summoner is not told.
RejectSilently(c, s, p) ==
  /\ LoggedIn(c)
  /\ <<s, p>> \in offers[c]
  /\ offers' = [offers EXCEPT ![c] = @ \ {<<s, p>>}]
  /\ IF Cached(s)
       THEN signs' = [signs EXCEPT ![s].summoner = NoPlayer]
       ELSE UNCHANGED signs
  /\ UNCHANGED <<cache, queue, active, laid, view, waiting>>

\* The client that was offered s turns the summons down.  A sign that left
\* the cache is not found, and the request is dropped.
RejectSign(c, s, p) ==
  /\ LoggedIn(c)
  /\ <<s, p>> \in offers[c]
  /\ offers' = [offers EXCEPT ![c] = @ \ {<<s, p>>}]
  /\ IF Cached(s) /\ signs[s].summoner # NoPlayer
       THEN /\ waiting' = [d \in Conns |-> IF d \in Find(signs[s].summoner)
                                             THEN waiting[d] \ {s} ELSE waiting[d]]
            /\ signs' = [signs EXCEPT ![s].summoner = NoPlayer]
       ELSE UNCHANGED <<waiting, signs>>
  /\ UNCHANGED <<cache, queue, active, laid, view>>

\* Mutant of LoseSigns: the signs stay in the cache.
LoseSignsKept(c) ==
  /\ active' = [active EXCEPT ![c] = {}]
  /\ laid' = [laid EXCEPT ![c] = {}]
  /\ view' = [view EXCEPT ![c] = {}]
  /\ waiting' = [waiting EXCEPT ![c] = {}]
  /\ offers' = [offers EXCEPT ![c] = {}]
  /\ UNCHANGED <<signs, cache, queue>>

\* OnLostPlayer: the signs of a lost connection go, and so does the client.
LoseSigns(c) ==
  /\ active' = [active EXCEPT ![c] = {}]
  /\ laid' = [laid EXCEPT ![c] = {}]
  /\ RemoveAndNotifyAware(active[c])
  /\ view' = [StillShown(view, active[c]) EXCEPT ![c] = {}]
  /\ waiting' = [StillShown(waiting, active[c]) EXCEPT ![c] = {}]
  /\ offers' = [offers EXCEPT ![c] = {}]

SignRequest ==
  \E c \in clients :
    \/ \E a \in Areas, max \in 1 .. MaxEntries : GetSignList(c, a, max)
    \/ \E a \in Areas : CreateSign(c, a)
    \/ \E s \in 1 .. Len(signs) :
         \/ RemoveSign(c, s)
         \/ SummonFreeSign(c, s)
         \/ \E p \in Players : RejectSign(c, s, p)

-----------------------------------------------------------------------------
(* What the signs promise *)

\* The Ensure of Handle_RequestSummonSign: "Should always be valid if the
\* sign is in the cache".  A cached sign belongs to a connected player.
OriginConnected ==
  \A s \in 1 .. Len(signs) : Cached(s) => Find(signs[s].player) # {}

\* An owner's rejection is about the summons it was offered: as long as the
\* sign is cached, the player of an open offer still holds the reservation, so
\* RequestRejectSign, which carries no player id, never turns down another.
OfferCurrent ==
  \A c \in Conns : \A o \in offers[c] :
    Cached(o[1]) => signs[o[1]].summoner = o[2]

\* A client that waits for a summons holds the sign's reservation, so that the
\* owner's answer finds it as long as the sign is cached, and nobody else is
\* summoned by the sign meanwhile.
WaiterReserved ==
  \A c \in clients : Sole(c) =>
    \A s \in waiting[c] : signs[s].summoner = playerId[c]

\* No client is left with a dead sign, but for those the pool pushed out: a sign
\* it still shows is one its owner has not asked to remove; or had left the cache
\* by then, and its owner is still there, whose loss will take it away.
RemovalAnnounced ==
  \A c \in clients : Sole(c) =>
    \A s \in view[c] :
      LET owner == signs[s].owner
      IN  s \in laid[owner] \/ (s \in active[owner] /\ ~Cached(s))

\* "Make sure user is marked as aware of the sign so we can clear up when the sign
\* is removed": a client shows no sign that another player has asked to remove.
RemovalTold ==
  \A c \in clients : Sole(c) =>
    \A s \in view[c] : signs[s].player # playerId[c] => s \in laid[signs[s].owner]

\* A full area gives up its oldest signs: of the signs still active, one
\* that was pushed out is older than every one that is cached.
KeepsNewest ==
  \A s, t \in 1 .. Len(signs) :
    /\ s \in active[signs[s].owner] /\ ~Cached(s)
    /\ Cached(t) /\ signs[t].area = signs[s].area
    => s < t
=============================================================================
