------------------------- MODULE SignManager_proof -------------------------
(***************************************************************************)
(* What the requests of SignManager, and the comings and goings of the     *)
(* clients, preserve.  Matchmaking_proof puts these lemmas together.       *)
(***************************************************************************)
EXTENDS SignManager, SequenceTheorems, FiniteSetTheorems, WellFoundedInduction, TLAPS

\* Only clients that have logged in have laid, seen or been offered a sign.
Strangers ==
  \A c \in Conns :
    /\ c \notin 1 .. arrived => playerId[c] = NoPlayer
    /\ c \notin clients \/ playerId[c] = NoPlayer =>
         active[c] = {} /\ view[c] = {} /\ waiting[c] = {} /\ offers[c] = {}

\* An active sign belongs to a connection that still carries its player's id.
Owned ==
  \A c \in Conns : \A s \in active[c] : signs[s].owner = c /\ signs[s].player = playerId[c]

\* A cached sign is in its area's queue and among its owner's.
CacheActive ==
  \A a \in Areas : \A s \in cache[a] :
    signs[s].area = a /\ s \in queue[a] /\ s \in active[signs[s].owner]

\* The players that show a sign which is still active are aware of it, and a
\* client only waits for a sign it shows.
ShownAware ==
  \A c \in Conns :
    /\ waiting[c] \subseteq view[c]
    /\ \A s \in view[c] :
         s \in active[signs[s].owner] => playerId[c] \in signs[s].aware

\* A cached sign is on offer to one connection at most.
OneOffer ==
  \A c, d \in Conns : \A o \in offers[c], q \in offers[d] :
    o[1] = q[1] /\ Cached(o[1]) => c = d

\* A sign that a client shows is still among its owner's.
ShownActive ==
  \A c \in clients : Sole(c) => \A s \in view[c] : s \in active[signs[s].owner]

\* A client's signs are those it has not asked to remove, and some that had left
\* the cache when it did.
LaidActive ==
  \A c \in Conns :
    laid[c] \subseteq active[c] /\ \A s \in active[c] : Cached(s) => s \in laid[c]

\* The inductive invariant.
SignInv ==
  /\ ClientsTypeOK /\ SignsTypeOK
  /\ Strangers /\ Owned /\ CacheActive /\ ShownAware /\ OneOffer
  /\ OfferCurrent /\ WaiterReserved /\ ShownActive /\ LaidActive /\ KeepsNewest

-----------------------------------------------------------------------------
(* The pool *)

LessThan == {ss \in Nat \X Nat : ss[1] < ss[2]}

LEMMA LessThanWellFounded == IsWellFoundedOn(LessThan, Nat)
BY NatLessThanWellFounded, Zenon DEF OpToRel, LessThan

LEMMA LeastOf ==
  ASSUME NEW S \in SUBSET Nat, S # {}
  PROVE  \E m \in S : \A n \in S : m <= n
<1>1. PICK m \in S : \A n \in S : ~ (<<n, m>> \in LessThan)
  BY LessThanWellFounded, WFMin, Zenon
<1>2. \A n \in S : n < m => <<n, m>> \in LessThan
  BY DEF LessThan
<1>3. \A n \in S : m <= n
  <2> SUFFICES ASSUME NEW n \in S PROVE m <= n
    OBVIOUS
  <2>1. m \in Nat /\ n \in Nat /\ ~ (n < m)
    BY <1>1, <1>2
  <2> QED BY <2>1
<1> QED BY <1>3

\* TrimArea leaves the newest entries, and no more than the limit.
LEMMA PoppedOldest ==
  ASSUME NEW n \in Nat, NEW entries \in SUBSET (1 .. n), NEW order \in SUBSET (1 .. n),
         NEW s \in Popped(entries, order),
         NEW t \in (entries \cap order) \ Popped(entries, order)
  PROVE  s < t
<1> DEFINE Since(x) == {u \in entries : u >= x}
<1> SUFFICES ASSUME t <= s PROVE FALSE
  BY DEF Popped
<1>1. IsFiniteSet(entries)
  <2>1. IsFiniteSet(1 .. n)
    BY FS_Interval
  <2> QED BY <2>1, FS_Subset
<1>2. IsFiniteSet(Since(t)) /\ Since(s) \subseteq Since(t)
  <2>1. s \in Nat /\ t \in Nat /\ \A u \in entries : u \in Nat
    BY DEF Popped
  <2>2. Since(t) \in SUBSET entries /\ Since(s) \subseteq Since(t)
    <3>1. \A u \in entries : u >= s => u >= t
      BY <2>1
    <3> QED BY <3>1
  <2>3. IsFiniteSet(Since(t))
    BY <1>1, <2>2, FS_Subset
  <2> QED BY <2>2, <2>3
<1>3. Cardinality(Since(s)) <= Cardinality(Since(t))
  BY <1>2, FS_Subset
<1>4. Cardinality(Since(s)) \in Nat /\ Cardinality(Since(t)) \in Nat
  BY <1>2, FS_Subset, FS_CardinalityType
<1>5. Cardinality(Since(s)) > MaxEntries /\ ~ (Cardinality(Since(t)) > MaxEntries)
  BY DEF Popped
<1> QED BY <1>3, <1>4, <1>5, SignsAssumption

LEMMA TrimBound ==
  ASSUME NEW n \in Nat, NEW entries \in SUBSET (1 .. n), NEW order \in SUBSET (1 .. n),
         entries \subseteq order
  PROVE  Cardinality(entries \ Popped(entries, order)) <= MaxEntries
<1> DEFINE kept == entries \ Popped(entries, order)
<1>1. CASE kept = {}
  BY <1>1, FS_EmptySet, SignsAssumption
<1>2. CASE kept # {}
  <2>1. PICK m \in kept : \A t \in kept : m <= t
    <3>1. \A t \in kept : t \in Nat
      OBVIOUS
    <3> HIDE DEF kept
    <3>2. kept \in SUBSET Nat
      BY <3>1
    <3> QED BY <1>2, <3>2, LeastOf
  <2>2. kept \subseteq {u \in entries : u >= m}
    BY <2>1
  <2>3. IsFiniteSet({u \in entries : u >= m})
    <3>1. IsFiniteSet(1 .. n)
      BY FS_Interval
    <3>2. {u \in entries : u >= m} \in SUBSET (1 .. n)
      OBVIOUS
    <3> QED BY <3>1, <3>2, FS_Subset
  <2>4. Cardinality(kept) <= Cardinality({u \in entries : u >= m})
    BY <2>2, <2>3, FS_Subset
  <2>5. /\ Cardinality(kept) \in Nat
        /\ Cardinality({u \in entries : u >= m}) \in Nat
    BY <2>2, <2>3, FS_Subset, FS_CardinalityType
  <2>6. ~ (Cardinality({u \in entries : u >= m}) > MaxEntries)
    BY <2>1 DEF Popped
  <2> QED BY <2>4, <2>5, <2>6, SignsAssumption
<1> QED BY <1>1, <1>2

-----------------------------------------------------------------------------
(* Facts about the state *)

LEMMA SignFacts ==
  ASSUME SignInv
  PROVE  /\ clients \subseteq Conns
         /\ Len(signs) \in Nat /\ DOMAIN signs = 1 .. Len(signs)
         /\ \A s \in DOMAIN signs :
              /\ signs[s] \in SummonSign
              /\ signs[s].owner \in Conns /\ signs[s].player \in Players
              /\ signs[s].area \in Areas /\ signs[s].aware \subseteq Players
              /\ signs[s].summoner \in Players \cup {NoPlayer}
         /\ \A c \in Conns :
              /\ active[c] \subseteq DOMAIN signs /\ view[c] \subseteq DOMAIN signs
              /\ waiting[c] \subseteq DOMAIN signs /\ laid[c] \subseteq DOMAIN signs
              /\ \A o \in offers[c] : /\ o[1] \in DOMAIN signs /\ o[2] \in Players
                                      /\ o = <<o[1], o[2]>>
         /\ \A a \in Areas : cache[a] \subseteq DOMAIN signs
<1>1. clients \subseteq Conns
  BY ClientsAssumption DEF SignInv, ClientsTypeOK, Conns
<1>2. /\ Len(signs) \in Nat /\ DOMAIN signs = 1 .. Len(signs)
      /\ \A s \in DOMAIN signs : signs[s] \in SummonSign
  BY LenProperties, ElementOfSeq DEF SignInv, SignsTypeOK
<1>3. \A s \in DOMAIN signs :
        /\ signs[s].owner \in Conns /\ signs[s].player \in Players
        /\ signs[s].area \in Areas /\ signs[s].aware \subseteq Players
        /\ signs[s].summoner \in Players \cup {NoPlayer}
  BY <1>2 DEF SummonSign
<1>4. ASSUME NEW c \in Conns
      PROVE  /\ active[c] \subseteq DOMAIN signs /\ view[c] \subseteq DOMAIN signs
             /\ waiting[c] \subseteq DOMAIN signs /\ laid[c] \subseteq DOMAIN signs
             /\ \A o \in offers[c] : /\ o[1] \in DOMAIN signs /\ o[2] \in Players
                                     /\ o = <<o[1], o[2]>>
  <2>1. active[c] \subseteq DOMAIN signs /\ view[c] \subseteq DOMAIN signs
    BY <1>2 DEF SignInv, SignsTypeOK
  <2>2. waiting[c] \subseteq DOMAIN signs /\ laid[c] \subseteq DOMAIN signs
    BY <1>2 DEF SignInv, SignsTypeOK
  <2>3. offers[c] \in SUBSET ((1 .. Len(signs)) \X Players)
    BY DEF SignInv, SignsTypeOK
  <2>4. \A o \in offers[c] : o \in (1 .. Len(signs)) \X Players
    BY <2>3
  <2> QED BY <1>2, <2>1, <2>2, <2>4
<1>5. \A a \in Areas : cache[a] \subseteq DOMAIN signs
  BY <1>2 DEF SignInv, SignsTypeOK
<1> QED BY <1>1, <1>2, <1>3, <1>4, <1>5

\* A client that is the only one of its player is the one Find returns.
LEMMA SoleFound ==
  ASSUME SignInv, NEW c \in clients, Sole(c)
  PROVE  c \in Find(playerId[c])
<1>1. \A d \in clients : playerId[d] = playerId[c] => d = c
  BY SignFacts DEF Sole
<1>2. c <= c
  BY ClientsAssumption, SignFacts DEF Conns
<1> QED BY <1>1, <1>2 DEF Find

LEMMA FindOne ==
  ASSUME SignInv, NEW p, NEW c \in Find(p), NEW d \in Find(p)
  PROVE  c = d
<1>1. c \in Conns /\ d \in Conns /\ c <= d /\ d <= c
  BY SignFacts DEF Find
<1> QED BY <1>1, ClientsAssumption DEF Conns

\* Signs that are replaced one for one.
LEMMA SignsReplaced ==
  ASSUME SignInv, NEW sg, sg = [s \in DOMAIN signs |-> sg[s]],
         \A s \in DOMAIN signs : sg[s] \in SummonSign
  PROVE  sg \in Seq(SummonSign) /\ Len(sg) = Len(signs) /\ DOMAIN sg = DOMAIN signs
<1>1. sg \in [1 .. Len(signs) -> SummonSign] /\ Len(signs) \in Nat
  BY SignFacts
<1>2. sg \in Seq(SummonSign)
  BY <1>1, SeqDef
<1>3. DOMAIN sg = 1 .. Len(signs) /\ DOMAIN sg = DOMAIN signs
  BY <1>1, SignFacts
<1> QED BY <1>1, <1>2, <1>3, LenProperties

\* What a change of summoners and of aware players leaves alone.
LEMMA SameOwners ==
  ASSUME SignInv, UNCHANGED <<clients, playerId, cache, queue, active, laid>>,
         Len(signs') = Len(signs), DOMAIN signs' = DOMAIN signs,
         \A s \in DOMAIN signs :
           /\ signs'[s].owner = signs[s].owner /\ signs'[s].player = signs[s].player
           /\ signs'[s].area = signs[s].area
  PROVE  /\ Owned' /\ CacheActive' /\ LaidActive' /\ KeepsNewest'
         /\ \A s \in DOMAIN signs : Cached(s)' <=> Cached(s)
<1>1. \A s \in DOMAIN signs : Cached(s)' <=> Cached(s)
  BY DEF Cached
<1>2. Owned' /\ CacheActive'
  BY SignFacts DEF SignInv, Owned, CacheActive
<1>3. KeepsNewest'
  BY <1>1, SignFacts DEF SignInv, KeepsNewest
<1>4. LaidActive'
  BY <1>1, SignFacts DEF SignInv, LaidActive
<1> QED BY <1>1, <1>2, <1>3, <1>4

LEMMA SignInitEstablishes == ClientsInit /\ SignsInit => SignInv
<1> SUFFICES ASSUME ClientsInit, SignsInit PROVE SignInv
  OBVIOUS
<1>1. signs \in Seq(SummonSign) /\ Len(signs) = 0 /\ Len(signs) <= SignLimit
  BY SignsAssumption, EmptySeq DEF SignsInit
<1>2. \A a \in Areas : Cardinality(cache[a]) <= MaxEntries
  BY FS_EmptySet, SignsAssumption DEF SignsInit
<1>3. ClientsTypeOK
  BY ClientsAssumption DEF ClientsInit, ClientsTypeOK, Conns
<1>4. SignsTypeOK
  BY <1>1, <1>2 DEF SignsInit, SignsTypeOK
<1>5. Strangers /\ Owned /\ CacheActive /\ ShownAware /\ OneOffer
  BY DEF ClientsInit, SignsInit, Strangers, Owned, CacheActive, ShownAware, OneOffer
<1>6. OfferCurrent /\ WaiterReserved /\ ShownActive /\ LaidActive /\ KeepsNewest
  BY <1>1
  DEF ClientsInit, SignsInit, OfferCurrent, WaiterReserved, ShownActive, LaidActive, KeepsNewest
<1> QED BY <1>3, <1>4, <1>5, <1>6 DEF SignInv

\* The owner of a cached sign is a client with the sign's player id, so that
\* there is a first one.  An active sign that its owner has asked to remove was no
\* longer cached.
LEMMA SignInvImplies == SignInv => OriginConnected /\ RemovalAnnounced
<1> SUFFICES ASSUME SignInv PROVE OriginConnected /\ RemovalAnnounced
  OBVIOUS
<1>1. OriginConnected
  <2> SUFFICES ASSUME NEW s \in 1 .. Len(signs), Cached(s)
               PROVE  Find(signs[s].player) # {}
    BY DEF OriginConnected
  <2> DEFINE owner == signs[s].owner
             same == {c \in clients : playerId[c] = signs[s].player}
  <2>1. owner \in Conns /\ s \in active[owner]
    BY SignFacts DEF SignInv, CacheActive, Cached
  <2>2. owner \in same
    BY <2>1 DEF SignInv, Owned, Strangers
  <2>3. same \subseteq Nat
    BY SignFacts, ClientsAssumption DEF Conns
  <2>4. PICK m \in same : \A n \in same : m <= n
    BY <2>2, <2>3, LeastOf
  <2> QED BY <2>4 DEF Find
<1>2. RemovalAnnounced
  BY SignFacts DEF SignInv, ShownActive, LaidActive, RemovalAnnounced
<1> QED BY <1>1, <1>2

-----------------------------------------------------------------------------
(* The clients come and log in *)

LEMMA AcceptSigns ==
  ASSUME SignInv, AcceptClient, UNCHANGED signVars
  PROVE  SignInv'
<1>1. /\ arrived' = arrived + 1 /\ arrived + 1 \in Conns
      /\ clients' = clients \cup {arrived + 1} /\ arrived + 1 \notin clients
      /\ playerId[arrived + 1] = NoPlayer
      /\ UNCHANGED <<playerId, signs, cache, queue, active, laid, view, waiting, offers>>
  BY ClientsAssumption
  DEF SignInv, ClientsTypeOK, Strangers, AcceptClient, signVars, Conns
<1>2. ClientsTypeOK' /\ SignsTypeOK'
  BY <1>1, ClientsAssumption DEF SignInv, ClientsTypeOK, SignsTypeOK, Conns
<1>3. Strangers'
  BY <1>1 DEF SignInv, ClientsTypeOK, Strangers, Conns
<1>4. Owned' /\ CacheActive' /\ ShownAware'
  BY <1>1 DEF SignInv, Owned, CacheActive, ShownAware
<1>5. OneOffer' /\ OfferCurrent' /\ KeepsNewest'
  BY <1>1 DEF SignInv, OneOffer, OfferCurrent, KeepsNewest, Cached
<1>6. WaiterReserved' /\ ShownActive'
  BY <1>1 DEF SignInv, Strangers, WaiterReserved, ShownActive, Sole
<1>7. LaidActive'
  BY <1>1 DEF SignInv, LaidActive, Cached
<1> QED BY <1>2, <1>3, <1>4, <1>5, <1>6, <1>7 DEF SignInv

LEMMA LoginSigns ==
  ASSUME SignInv, NEW c \in Conns, NEW p \in Players, LoginClient(c, p),
         UNCHANGED signVars
  PROVE  SignInv'
<1>1. /\ c \in clients /\ playerId[c] = NoPlayer
      /\ playerId' = [playerId EXCEPT ![c] = p]
      /\ \A d \in Conns \ {c} : playerId'[d] = playerId[d]
      /\ active[c] = {} /\ view[c] = {} /\ waiting[c] = {} /\ offers[c] = {}
      /\ UNCHANGED <<arrived, clients, signs, cache, queue, active, laid, view, waiting, offers>>
  BY DEF SignInv, ClientsTypeOK, Strangers, LoginClient, signVars
<1>2. ClientsTypeOK' /\ SignsTypeOK'
  BY <1>1 DEF SignInv, ClientsTypeOK, SignsTypeOK
<1>3. Strangers'
  BY <1>1 DEF SignInv, ClientsTypeOK, Strangers
<1>4. Owned' /\ CacheActive' /\ ShownAware'
  BY <1>1 DEF SignInv, Owned, CacheActive, ShownAware
<1>5. OneOffer' /\ OfferCurrent' /\ KeepsNewest'
  BY <1>1 DEF SignInv, OneOffer, OfferCurrent, KeepsNewest, Cached
<1>6. \A d \in Conns \ {c} : playerId[d] # NoPlayer /\ Sole(d)' => Sole(d)
  BY <1>1 DEF Sole
<1>7. \A d \in Conns : view[d] # {} \/ waiting[d] # {} => d # c /\ playerId[d] # NoPlayer
  BY <1>1 DEF SignInv, Strangers
<1>8. WaiterReserved'
  BY <1>1, <1>6, <1>7, SignFacts DEF SignInv, WaiterReserved
<1>9. ShownActive'
  BY <1>1, <1>6, <1>7, SignFacts DEF SignInv, ShownActive
<1>10. LaidActive'
  BY <1>1 DEF SignInv, LaidActive, Cached
<1> QED BY <1>2, <1>3, <1>4, <1>5, <1>8, <1>9, <1>10 DEF SignInv

-----------------------------------------------------------------------------
(* Signs are removed, by their owner or with it *)

\* Signs of one client go, and with them what other clients have been told.
LEMMA RemovePreserves ==
  ASSUME SignInv, NEW c \in clients, NEW R \in SUBSET active[c],
         RemoveAndNotifyAware(R),
         active' = [active EXCEPT ![c] = @ \ R],
         UNCHANGED <<arrived, playerId>>, clients' \subseteq clients, Strangers',
         laid' \in [Conns -> SUBSET (1 .. Len(signs))],
         view' \in [Conns -> SUBSET (1 .. Len(signs))],
         waiting' \in [Conns -> SUBSET (1 .. Len(signs))],
         offers' \in [Conns -> SUBSET ((1 .. Len(signs)) \X Players)],
         \A d \in Conns :
           /\ view'[d] \subseteq StillShown(view, R)[d]
           /\ waiting'[d] \subseteq waiting[d] /\ waiting'[d] \subseteq view'[d]
           /\ offers'[d] \subseteq offers[d]
           /\ laid'[d] \subseteq active'[d] /\ laid[d] \ R \subseteq laid'[d]
  PROVE  SignInv'
<1> DEFINE gone(s) == [signs[s] EXCEPT !.summoner = NoPlayer, !.aware = {}]
<1>c. c \in Conns /\ R \subseteq DOMAIN signs
  BY SignFacts
<1>s. /\ signs' = [s \in DOMAIN signs |-> IF s \in R THEN gone(s) ELSE signs[s]]
      /\ cache' = [a \in Areas |-> cache[a] \ R] /\ queue' = queue
  BY DEF RemoveAndNotifyAware
<1>g. \A s \in DOMAIN signs :
        /\ gone(s) \in SummonSign
        /\ gone(s).owner = signs[s].owner /\ gone(s).player = signs[s].player
        /\ gone(s).area = signs[s].area
  <2>1. \A x \in SummonSign :
          LET y == [x EXCEPT !.summoner = NoPlayer, !.aware = {}]
          IN  /\ y \in SummonSign
              /\ y.owner = x.owner /\ y.player = x.player /\ y.area = x.area
    BY DEF SummonSign
  <2>2. \A s \in DOMAIN signs : signs[s] \in SummonSign
    BY SignFacts
  <2> QED BY <2>1, <2>2
<1> HIDE DEF gone
<1>1. \A s \in DOMAIN signs :
        /\ signs'[s] \in SummonSign
        /\ signs'[s].owner = signs[s].owner /\ signs'[s].player = signs[s].player
        /\ signs'[s].area = signs[s].area
        /\ s \notin R => signs'[s] = signs[s]
  BY <1>s, <1>g, SignFacts
<1>2. signs' \in Seq(SummonSign) /\ Len(signs') = Len(signs) /\ DOMAIN signs' = DOMAIN signs
  <2>1. signs' = [s \in DOMAIN signs |-> signs'[s]]
    BY <1>s
  <2> QED BY <1>1, <2>1, SignsReplaced
<1>3. \A s \in DOMAIN signs :
        s \in active'[signs'[s].owner] <=> s \in active[signs[s].owner] /\ s \notin R
  <2> SUFFICES ASSUME NEW s \in DOMAIN signs
               PROVE  s \in active'[signs[s].owner]
                        <=> s \in active[signs[s].owner] /\ s \notin R
    BY <1>1
  <2>1. s \in R => signs[s].owner = c
    BY <1>c DEF SignInv, Owned
  <2>2. active'[c] = active[c] \ R /\ \A d \in Conns \ {c} : active'[d] = active[d]
    BY <1>c DEF SignInv, SignsTypeOK
  <2> QED BY <2>1, <2>2, SignFacts
<1>4. \A s \in DOMAIN signs : Cached(s)' <=> Cached(s) /\ s \notin R
  BY <1>1, <1>s, SignFacts DEF Cached
<1>5. \A d \in Conns : active'[d] \subseteq active[d]
  BY <1>c DEF SignInv, SignsTypeOK
<1>6. \A d \in Conns : \A s \in view'[d] : s \in view[d] /\ ~ (s \in R /\ Told(d, s))
  BY DEF StillShown
<1>t. ClientsTypeOK' /\ SignsTypeOK'
  <2>1. ClientsTypeOK'
    BY DEF SignInv, ClientsTypeOK
  <2>2. \A a \in Areas : Cardinality(cache'[a]) <= MaxEntries
    <3> SUFFICES ASSUME NEW a \in Areas PROVE Cardinality(cache'[a]) <= MaxEntries
      OBVIOUS
    <3>1. IsFiniteSet(1 .. Len(signs))
      <4>1. 1 \in Int /\ Len(signs) \in Int
        BY SignFacts
      <4> QED BY <4>1, FS_Interval
    <3>2. IsFiniteSet(cache[a])
      <4>1. cache[a] \in SUBSET (1 .. Len(signs))
        BY DEF SignInv, SignsTypeOK
      <4> QED BY <3>1, <4>1, FS_Subset
    <3>3. cache'[a] \in SUBSET cache[a]
      BY <1>s
    <3>4. Cardinality(cache'[a]) <= Cardinality(cache[a])
      BY <3>2, <3>3, FS_Subset
    <3>5. Cardinality(cache'[a]) \in Nat /\ Cardinality(cache[a]) \in Nat
      BY <3>2, <3>3, FS_Subset, FS_CardinalityType
    <3>6. Cardinality(cache[a]) <= MaxEntries
      BY DEF SignInv, SignsTypeOK
    <3> QED BY <3>4, <3>5, <3>6, SignsAssumption
  <2>3. cache' \in [Areas -> SUBSET (1 .. Len(signs))]
    BY <1>s DEF SignInv, SignsTypeOK
  <2>4. active' \in [Conns -> SUBSET (1 .. Len(signs))]
    BY DEF SignInv, SignsTypeOK
  <2> QED BY <1>s, <1>2, <2>1, <2>2, <2>3, <2>4 DEF SignInv, SignsTypeOK
<1>9. \A d \in Conns : \A s \in active'[d] : s \in active[d] /\ s \notin R
  <2> SUFFICES ASSUME NEW d \in Conns, NEW s \in active'[d]
               PROVE  s \in active[d] /\ s \notin R
    OBVIOUS
  <2>1. s \in active[d] /\ s \in DOMAIN signs
    BY <1>5, SignFacts
  <2>2. signs[s].owner = d /\ signs'[s].owner = d
    BY <1>1, <2>1 DEF SignInv, Owned
  <2> QED BY <1>3, <2>1, <2>2
<1>o. Owned'
  BY <1>1, <1>5, SignFacts DEF SignInv, Owned
<1>a. CacheActive'
  BY <1>1, <1>3, <1>s, SignFacts DEF SignInv, CacheActive
<1>w. ShownAware'
  BY <1>1, <1>3, <1>6, SignFacts DEF SignInv, ShownAware
<1>f. OneOffer' /\ OfferCurrent'
  BY <1>1, <1>4, SignFacts DEF SignInv, OneOffer, OfferCurrent
<1>7. \A d \in clients' : Sole(d)' => \A s \in view'[d] : s \notin R
  <2> SUFFICES ASSUME NEW d \in clients, Sole(d), NEW s \in view'[d], s \in R
               PROVE  FALSE
    BY DEF Sole
  <2>1. d \in Conns /\ s \in view[d] /\ ~ Told(d, s)
    BY <1>6, SignFacts
  <2>2. s \in active[signs[s].owner]
    BY <1>c DEF SignInv, Owned
  <2>3. playerId[d] \in signs[s].aware
    BY <2>1, <2>2 DEF SignInv, ShownAware
  <2> QED BY <2>1, <2>3, SoleFound DEF Told
<1>8. WaiterReserved' /\ ShownActive'
  <2> SUFFICES ASSUME NEW d \in clients', Sole(d)
               PROVE  /\ \A s \in waiting'[d] : signs'[s].summoner = playerId'[d]
                      /\ \A s \in view'[d] : s \in active'[signs'[s].owner]
    BY DEF WaiterReserved, ShownActive, Sole
  <2>1. d \in clients /\ d \in Conns /\ Sole(d)'
    BY SignFacts DEF Sole
  <2>2. \A s \in waiting'[d] : signs'[s].summoner = playerId'[d]
    BY <1>1, <1>7, <2>1, SignFacts DEF SignInv, WaiterReserved
  <2>3. \A s \in view'[d] : s \in active'[signs'[s].owner]
    BY <1>3, <1>6, <1>7, <2>1, SignFacts DEF SignInv, ShownActive
  <2> QED BY <2>2, <2>3
<1>k. KeepsNewest'
  <2> SUFFICES ASSUME NEW s \in DOMAIN signs, NEW t \in DOMAIN signs,
                      s \in active'[signs'[s].owner], ~ Cached(s)', Cached(t)',
                      signs'[t].area = signs'[s].area
               PROVE  s < t
    BY <1>2, SignFacts DEF KeepsNewest
  <2>1. s \in active[signs[s].owner] /\ ~ Cached(s) /\ Cached(t)
        /\ signs[t].area = signs[s].area
    BY <1>1, <1>3, <1>4
  <2> QED BY <2>1, SignFacts DEF SignInv, KeepsNewest
<1>l. LaidActive'
  BY <1>4, <1>5, <1>9, SignFacts DEF SignInv, LaidActive
<1> QED BY <1>t, <1>o, <1>a, <1>w, <1>f, <1>8, <1>k, <1>l DEF SignInv

LEMMA RemoveSignPreserves ==
  ASSUME SignInv, NEW c \in clients, NEW s \in 1 .. Len(signs), RemoveSign(c, s),
         UNCHANGED clientVars
  PROVE  SignInv'
<1>1. /\ laid' = [laid EXCEPT ![c] = @ \ {s}] /\ offers' = offers
      /\ UNCHANGED <<arrived, playerId, clients>>
  BY DEF RemoveSign, clientVars
<1>2. /\ laid' \in [Conns -> SUBSET (1 .. Len(signs))]
      /\ \A d \in Conns : laid'[d] \subseteq laid[d]
      /\ c \in Conns /\ laid'[c] = laid[c] \ {s}
      /\ \A d \in Conns \ {c} : laid'[d] = laid[d]
  BY <1>1, SignFacts DEF SignInv, SignsTypeOK
<1>3. CASE /\ Cached(s) /\ s \in active[c]
           /\ active' = [active EXCEPT ![c] = @ \ {s}]
           /\ RemoveAndNotifyAware({s})
           /\ view' = StillShown(view, {s}) /\ waiting' = StillShown(waiting, {s})
  <2>1. {s} \in SUBSET active[c]
    BY <1>3
  <2>2. /\ view' \in [Conns -> SUBSET (1 .. Len(signs))]
        /\ waiting' \in [Conns -> SUBSET (1 .. Len(signs))]
        /\ offers' \in [Conns -> SUBSET ((1 .. Len(signs)) \X Players)]
    BY <1>1, <1>3 DEF SignInv, SignsTypeOK, StillShown
  <2>3. \A d \in Conns :
          /\ view'[d] \subseteq StillShown(view, {s})[d] /\ view'[d] \subseteq view[d]
          /\ waiting'[d] \subseteq waiting[d] /\ waiting'[d] \subseteq view'[d]
          /\ offers'[d] \subseteq offers[d] /\ active'[d] \subseteq active[d]
    BY <1>1, <1>3 DEF SignInv, SignsTypeOK, ShownAware, StillShown
  <2>4. Strangers'
    BY <1>1, <2>3 DEF SignInv, Strangers
  <2>5. \A d \in Conns : laid'[d] \subseteq active'[d] /\ laid[d] \ {s} \subseteq laid'[d]
    <3>1. \A d \in Conns \ {c} : active'[d] = active[d]
      BY <1>3 DEF SignInv, SignsTypeOK
    <3>2. active'[c] = active[c] \ {s}
      BY <1>2, <1>3 DEF SignInv, SignsTypeOK
    <3> QED BY <1>2, <3>1, <3>2 DEF SignInv, LaidActive
  <2> QED BY <1>1, <1>2, <1>3, <2>1, <2>2, <2>3, <2>4, <2>5, RemovePreserves
<1>4. CASE ~ (Cached(s) /\ s \in active[c])
           /\ UNCHANGED <<signs, cache, queue, active, view, waiting>>
  <2>1. ClientsTypeOK' /\ SignsTypeOK'
    BY <1>1, <1>2, <1>4 DEF SignInv, ClientsTypeOK, SignsTypeOK
  <2>2. Strangers' /\ OneOffer' /\ OfferCurrent'
    BY <1>1, <1>4 DEF SignInv, Strangers, OneOffer, OfferCurrent, Cached
  <2>3. Owned' /\ CacheActive' /\ ShownAware' /\ KeepsNewest'
    BY <1>1, <1>4 DEF SignInv, Owned, CacheActive, ShownAware, KeepsNewest, Cached
  <2>4. WaiterReserved' /\ ShownActive'
    BY <1>1, <1>4 DEF SignInv, WaiterReserved, ShownActive, Sole
  <2>5. LaidActive'
    BY <1>2, <1>4 DEF SignInv, LaidActive, Cached
  <2> QED BY <2>1, <2>2, <2>3, <2>4, <2>5 DEF SignInv
<1> QED BY <1>3, <1>4 DEF RemoveSign

LEMMA LoseSignsPreserves ==
  ASSUME SignInv, NEW c \in Conns, LoseClient(c), LoseSigns(c)
  PROVE  SignInv'
<1> DEFINE R == active[c]
<1>1. /\ view' = [StillShown(view, R) EXCEPT ![c] = {}]
      /\ waiting' = [StillShown(waiting, R) EXCEPT ![c] = {}]
      /\ offers' = [offers EXCEPT ![c] = {}]
      /\ active' = [active EXCEPT ![c] = @ \ R] /\ laid' = [laid EXCEPT ![c] = {}]
      /\ RemoveAndNotifyAware(R) /\ R \in SUBSET active[c]
      /\ UNCHANGED <<arrived, playerId>> /\ c \in clients /\ clients' = clients \ {c}
  BY DEF SignInv, SignsTypeOK, LoseSigns, LoseClient
<1>2. /\ view' \in [Conns -> SUBSET (1 .. Len(signs))]
      /\ waiting' \in [Conns -> SUBSET (1 .. Len(signs))]
      /\ offers' \in [Conns -> SUBSET ((1 .. Len(signs)) \X Players)]
  BY <1>1 DEF SignInv, SignsTypeOK, StillShown
<1>3. \A d \in Conns :
        /\ view'[d] \subseteq StillShown(view, R)[d] /\ view'[d] \subseteq view[d]
        /\ waiting'[d] \subseteq waiting[d] /\ waiting'[d] \subseteq view'[d]
        /\ offers'[d] \subseteq offers[d] /\ active'[d] \subseteq active[d]
        /\ d = c => view'[d] = {} /\ waiting'[d] = {} /\ offers'[d] = {} /\ active'[d] = {}
  BY <1>1 DEF SignInv, SignsTypeOK, ShownAware, StillShown
<1>4. Strangers'
  BY <1>1, <1>3 DEF SignInv, Strangers
<1>5. /\ laid' \in [Conns -> SUBSET (1 .. Len(signs))]
      /\ \A d \in Conns : laid'[d] \subseteq active'[d] /\ laid[d] \ R \subseteq laid'[d]
  <2>1. /\ laid' \in [Conns -> SUBSET (1 .. Len(signs))] /\ laid'[c] = {}
        /\ \A d \in Conns \ {c} : laid'[d] = laid[d] /\ active'[d] = active[d]
    BY <1>1 DEF SignInv, SignsTypeOK
  <2> QED BY <2>1 DEF SignInv, LaidActive
<1> HIDE DEF R
<1> QED BY <1>1, <1>2, <1>3, <1>4, <1>5, RemovePreserves

-----------------------------------------------------------------------------
(* The other requests *)

LEMMA GetSignListPreserves ==
  ASSUME SignInv, NEW c \in clients, NEW a \in Areas, NEW max \in 1 .. MaxEntries,
         GetSignList(c, a, max), UNCHANGED clientVars
  PROVE  SignInv'
<1> DEFINE found == RecentSet(a, playerId[c], max)
           seen(s) == [signs[s] EXCEPT !.aware = @ \cup {playerId[c]}]
<1>1. /\ signs' = [s \in DOMAIN signs |-> IF s \in found THEN seen(s) ELSE signs[s]]
      /\ view' = [view EXCEPT ![c] = @ \cup found]
      /\ UNCHANGED <<arrived, clients, playerId, cache, queue, active, laid, waiting, offers>>
  BY DEF GetSignList, clientVars
<1>c. c \in Conns /\ playerId[c] \in Players /\ playerId[c] # NoPlayer
  BY SignFacts DEF GetSignList, LoggedIn, SignInv, ClientsTypeOK
<1>f. found \subseteq cache[a] /\ found \subseteq DOMAIN signs
  BY SignFacts DEF RecentSet
<1> HIDE DEF found
<1>s. \A s \in DOMAIN signs :
        /\ seen(s) \in SummonSign
        /\ seen(s).owner = signs[s].owner /\ seen(s).player = signs[s].player
        /\ seen(s).area = signs[s].area /\ seen(s).summoner = signs[s].summoner
        /\ seen(s).aware = signs[s].aware \cup {playerId[c]}
  <2>1. \A x \in SummonSign :
          LET y == [x EXCEPT !.aware = @ \cup {playerId[c]}]
          IN  /\ y \in SummonSign
              /\ y.owner = x.owner /\ y.player = x.player /\ y.area = x.area
              /\ y.summoner = x.summoner /\ y.aware = x.aware \cup {playerId[c]}
    BY <1>c DEF SummonSign
  <2>2. \A s \in DOMAIN signs : signs[s] \in SummonSign
    BY SignFacts
  <2> QED BY <2>1, <2>2
<1> HIDE DEF seen
<1>2. \A s \in DOMAIN signs :
        /\ signs'[s] \in SummonSign
        /\ signs'[s].owner = signs[s].owner /\ signs'[s].player = signs[s].player
        /\ signs'[s].area = signs[s].area /\ signs'[s].summoner = signs[s].summoner
        /\ signs[s].aware \subseteq signs'[s].aware
        /\ s \in found => playerId[c] \in signs'[s].aware
  BY <1>1, <1>s, SignFacts
<1>3. signs' \in Seq(SummonSign) /\ Len(signs') = Len(signs) /\ DOMAIN signs' = DOMAIN signs
  <2>1. signs' = [s \in DOMAIN signs |-> signs'[s]]
    BY <1>1
  <2> QED BY <1>2, <2>1, SignsReplaced
<1>4. /\ Owned' /\ CacheActive' /\ LaidActive' /\ KeepsNewest'
      /\ \A s \in DOMAIN signs : Cached(s)' <=> Cached(s)
  BY <1>1, <1>2, <1>3, SameOwners
<1>5. view'[c] = view[c] \cup found /\ \A d \in Conns \ {c} : view'[d] = view[d]
  BY <1>1, <1>c DEF SignInv, SignsTypeOK
<1>t. ClientsTypeOK' /\ SignsTypeOK'
  <2>1. view' \in [Conns -> SUBSET (1 .. Len(signs))]
    BY <1>1, <1>c, <1>f, SignFacts DEF SignInv, SignsTypeOK
  <2> QED BY <1>1, <1>3, <2>1 DEF SignInv, ClientsTypeOK, SignsTypeOK
<1>r. Strangers'
  BY <1>1, <1>c, <1>5 DEF SignInv, Strangers
<1>w. ShownAware'
  <2> SUFFICES ASSUME NEW d \in Conns
               PROVE  /\ waiting[d] \subseteq view'[d]
                      /\ \A s \in view'[d] : s \in active[signs[s].owner]
                                               => playerId[d] \in signs'[s].aware
    <3>1. \A d \in Conns : view'[d] \subseteq DOMAIN signs
      BY <1>5, <1>f, SignFacts
    <3>2. \A s \in DOMAIN signs : signs'[s].owner = signs[s].owner
      BY <1>2
    <3> QED BY <1>1, <3>1, <3>2 DEF ShownAware
  <2>1. waiting[d] \subseteq view'[d]
    BY <1>5 DEF SignInv, ShownAware
  <2>2. ASSUME NEW s \in view[d], s \in active[signs[s].owner]
        PROVE  playerId[d] \in signs'[s].aware
    BY <1>2, <2>2, SignFacts DEF SignInv, ShownAware
  <2>3. \A s \in view'[d] : s \in view[d] \/ (s \in found /\ d = c)
    BY <1>5
  <2> QED BY <1>2, <1>f, <2>1, <2>2, <2>3
<1>o. OneOffer' /\ OfferCurrent'
  BY <1>1, <1>2, <1>4, SignFacts DEF SignInv, OneOffer, OfferCurrent
<1>v. WaiterReserved'
  BY <1>1, <1>2, SignFacts DEF SignInv, WaiterReserved, Sole
<1>n. ShownActive'
  <2>1. \A s \in found : s \in active[signs'[s].owner]
    BY <1>2, <1>f DEF SignInv, CacheActive
  <2> SUFFICES ASSUME NEW d \in clients, Sole(d), NEW s \in view'[d]
               PROVE  s \in active[signs'[s].owner]
    BY <1>1 DEF ShownActive, Sole
  <2>2. CASE s \in view[d]
    <3>1. s \in DOMAIN signs /\ s \in active[signs[s].owner]
      BY <2>2, SignFacts DEF SignInv, ShownActive
    <3> QED BY <1>2, <3>1
  <2>3. CASE s \in found
    BY <2>1, <2>3
  <2> QED BY <1>5, <2>2, <2>3, SignFacts
<1> QED BY <1>t, <1>r, <1>4, <1>w, <1>o, <1>v, <1>n DEF SignInv

LEMMA CreateSignPreserves ==
  ASSUME SignInv, NEW c \in clients, NEW a \in Areas, CreateSign(c, a),
         UNCHANGED clientVars
  PROVE  SignInv'
<1> DEFINE id == Len(signs) + 1
           entries == cache[a] \cup {id}
           order == queue[a] \cup {id}
           popped == Popped(entries, order)
           new == [owner |-> c, player |-> playerId[c], area |-> a,
                   summoner |-> NoPlayer, aware |-> {}]
<1>1. /\ signs' = Append(signs, new) /\ id \in 1 .. SignLimit
      /\ cache' = [cache EXCEPT ![a] = entries \ popped]
      /\ queue' = [queue EXCEPT ![a] = order \ popped]
      /\ active' = [active EXCEPT ![c] = @ \cup {id}]
      /\ laid' = [laid EXCEPT ![c] = @ \cup {id}]
      /\ UNCHANGED <<arrived, clients, playerId, view, waiting, offers>>
  BY DEF CreateSign, clientVars, SignIds
<1>c. /\ c \in Conns /\ playerId[c] \in Players /\ playerId[c] # NoPlayer
      /\ new \in SummonSign /\ new.owner = c /\ new.player = playerId[c] /\ new.area = a
  BY SignFacts DEF CreateSign, LoggedIn, SignInv, ClientsTypeOK, SummonSign
<1> HIDE DEF new
<1>2. /\ signs' \in Seq(SummonSign) /\ Len(signs') = id /\ id \in Nat
      /\ DOMAIN signs' = 1 .. id /\ 1 .. id = DOMAIN signs \cup {id}
      /\ signs'[id] = new /\ \A s \in DOMAIN signs : signs'[s] = signs[s]
      /\ \A s \in DOMAIN signs : s < id
  BY <1>1, <1>c, SignFacts, AppendProperties, LenProperties DEF SignInv, SignsTypeOK
<1>e. /\ entries \subseteq 1 .. id /\ order \subseteq 1 .. id /\ entries \subseteq order
      /\ popped \subseteq order
  <2>1. cache[a] \subseteq queue[a]
    BY DEF SignInv, CacheActive
  <2>2. cache[a] \subseteq 1 .. Len(signs) /\ queue[a] \subseteq 1 .. Len(signs)
    BY DEF SignInv, SignsTypeOK
  <2>3. popped \subseteq order
    BY DEF Popped
  <2>4. 1 .. Len(signs) \subseteq 1 .. id /\ id \in 1 .. id
    BY <1>2, SignFacts
  <2>5. entries \subseteq 1 .. id /\ order \subseteq 1 .. id
    BY <2>2, <2>4
  <2>6. entries \subseteq order
    BY <2>1
  <2> HIDE DEF id, entries, order, popped
  <2> QED BY <2>3, <2>5, <2>6
<1>b. Cardinality(entries \ popped) <= MaxEntries
  <2> HIDE DEF id, entries, order
  <2>1. id \in Nat /\ entries \in SUBSET (1 .. id) /\ order \in SUBSET (1 .. id)
    BY <1>2, <1>e
  <2> QED BY <1>e, <2>1, TrimBound
<1>p. \A s \in popped, t \in entries \ popped : s < t
  <2> HIDE DEF id, entries, order
  <2> SUFFICES ASSUME NEW s \in popped, NEW t \in entries \ popped PROVE s < t
    OBVIOUS
  <2>1. id \in Nat /\ entries \in SUBSET (1 .. id) /\ order \in SUBSET (1 .. id)
    BY <1>2, <1>e
  <2>2. t \in (entries \cap order) \ popped
    BY <1>e
  <2> QED BY <2>1, <2>2, PoppedOldest
<1> HIDE DEF id, entries, order, popped
<1>3. /\ cache'[a] = entries \ popped /\ queue'[a] = order \ popped
      /\ \A b \in Areas \ {a} : cache'[b] = cache[b] /\ queue'[b] = queue[b]
  BY <1>1 DEF SignInv, SignsTypeOK
<1>4. /\ active'[c] = active[c] \cup {id} /\ laid'[c] = laid[c] \cup {id}
      /\ \A d \in Conns \ {c} : active'[d] = active[d] /\ laid'[d] = laid[d]
  BY <1>1, <1>c DEF SignInv, SignsTypeOK
<1>5. entries = cache[a] \cup {id} /\ order = queue[a] \cup {id} /\ id \notin DOMAIN signs
  BY SignFacts DEF entries, order, id
<1>6. \A s \in DOMAIN signs : Cached(s)' => Cached(s)
  BY <1>2, <1>3, <1>5, SignFacts DEF Cached
<1>7. \A s \in DOMAIN signs : s \in active'[signs'[s].owner] <=> s \in active[signs[s].owner]
  BY <1>2, <1>4, <1>5, SignFacts
<1>t. ClientsTypeOK' /\ SignsTypeOK'
  <2>1. /\ cache' \in [Areas -> SUBSET (1 .. id)] /\ queue' \in [Areas -> SUBSET (1 .. id)]
        /\ active' \in [Conns -> SUBSET (1 .. id)] /\ laid' \in [Conns -> SUBSET (1 .. id)]
    <3>1. /\ cache \in [Areas -> SUBSET (1 .. id)] /\ queue \in [Areas -> SUBSET (1 .. id)]
          /\ active \in [Conns -> SUBSET (1 .. id)] /\ laid \in [Conns -> SUBSET (1 .. id)]
      BY <1>2, SignFacts DEF SignInv, SignsTypeOK
    <3>2. entries \ popped \subseteq 1 .. id /\ order \ popped \subseteq 1 .. id
      BY <1>e
    <3>3. id \in 1 .. id
      BY <1>2
    <3>4. cache' \in [Areas -> SUBSET (1 .. id)]
      BY <1>1, <3>1, <3>2
    <3>5. queue' \in [Areas -> SUBSET (1 .. id)]
      BY <1>1, <3>1, <3>2
    <3>6. active' \in [Conns -> SUBSET (1 .. id)]
      BY <1>1, <3>1, <3>3
    <3>7. laid' \in [Conns -> SUBSET (1 .. id)]
      BY <1>1, <3>1, <3>3
    <3> QED BY <3>4, <3>5, <3>6, <3>7
  <2>2. \A b \in Areas : Cardinality(cache'[b]) <= MaxEntries
    BY <1>3, <1>b DEF SignInv, SignsTypeOK
  <2>3. /\ view \in [Conns -> SUBSET (1 .. id)] /\ waiting \in [Conns -> SUBSET (1 .. id)]
        /\ offers \in [Conns -> SUBSET ((1 .. id) \X Players)]
    BY <1>2, SignFacts DEF SignInv, SignsTypeOK
  <2>4. id <= SignLimit
    BY <1>1
  <2> QED BY <1>1, <1>2, <2>1, <2>2, <2>3, <2>4 DEF SignInv, ClientsTypeOK, SignsTypeOK
<1>r. Strangers'
  BY <1>1, <1>c, <1>4 DEF SignInv, Strangers
<1>o. Owned'
  BY <1>1, <1>2, <1>4, <1>c, SignFacts DEF SignInv, Owned
<1>a. CacheActive'
  <2> SUFFICES ASSUME NEW b \in Areas, NEW s \in cache'[b]
               PROVE  /\ signs'[s].area = b /\ s \in queue'[b]
                      /\ s \in active'[signs'[s].owner]
    BY DEF CacheActive
  <2>1. CASE s = id
    <3>1. b = a
      BY <1>3, <1>5, <2>1, SignFacts
    <3> QED BY <1>2, <1>3, <1>4, <1>5, <1>c, <2>1, <3>1
  <2>2. CASE s # id
    <3>1. s \in cache[b] /\ s \in DOMAIN signs
      BY <1>3, <1>5, <2>2, SignFacts
    <3>2. signs[s].area = b /\ s \in queue[b] /\ s \in active[signs[s].owner]
      BY <3>1 DEF SignInv, CacheActive
    <3> QED BY <1>2, <1>3, <1>5, <1>7, <3>1, <3>2
  <2> QED BY <2>1, <2>2
<1>w. ShownAware'
  BY <1>1, <1>2, <1>7, SignFacts DEF SignInv, ShownAware
<1>f. OneOffer' /\ OfferCurrent'
  BY <1>1, <1>2, <1>6, SignFacts DEF SignInv, OneOffer, OfferCurrent
<1>n. WaiterReserved' /\ ShownActive'
  <2>1. \A d \in clients : waiting[d] \subseteq DOMAIN signs /\ view[d] \subseteq DOMAIN signs
    BY SignFacts
  <2>2. WaiterReserved'
    BY <1>1, <1>2, <2>1 DEF SignInv, WaiterReserved, Sole
  <2>3. ShownActive'
    BY <1>1, <1>7, <2>1 DEF SignInv, ShownActive, Sole
  <2> QED BY <2>2, <2>3
<1>k. KeepsNewest'
  <2> SUFFICES ASSUME NEW s \in 1 .. id, NEW t \in 1 .. id,
                      s \in active'[signs'[s].owner], ~ Cached(s)', Cached(t)',
                      signs'[t].area = signs'[s].area
               PROVE  s < t
    BY <1>2 DEF KeepsNewest
  <2>1. CASE s \in popped /\ t \in entries \ popped
    BY <1>p, <2>1
  <2>2. CASE t = id
    BY <1>2, <2>2
  <2>3. CASE s = id /\ t # id
    <3>1. signs'[t].area = a /\ t \in cache'[a] /\ id \notin cache'[a]
      BY <1>2, <1>c, <2>3 DEF Cached
    <3> QED BY <1>3, <1>5, <2>1, <2>3, <3>1
  <2>4. CASE s # id /\ t # id
    <3>1. /\ s \in DOMAIN signs /\ t \in DOMAIN signs /\ Cached(t)
          /\ s \in active[signs[s].owner] /\ signs[t].area = signs[s].area
      BY <1>2, <1>6, <1>7, <2>4
    <3>2. CASE ~ Cached(s)
      BY <3>1, <3>2, SignFacts DEF SignInv, KeepsNewest
    <3>3. CASE Cached(s)
      <4>1. signs[s].area = a
        BY <1>2, <1>3, <3>1, <3>3, SignFacts DEF Cached
      <4>2. s \in popped /\ t \in entries \ popped
        BY <1>2, <1>3, <1>5, <3>1, <3>3, <4>1 DEF Cached
      <4> QED BY <1>p, <4>2
    <3> QED BY <3>2, <3>3
  <2> QED BY <2>2, <2>3, <2>4
<1>l. LaidActive'
  BY <1>4, <1>6, SignFacts DEF SignInv, LaidActive
<1> QED BY <1>t, <1>r, <1>o, <1>a, <1>w, <1>f, <1>n, <1>k, <1>l DEF SignInv

LEMMA SummonPreserves ==
  ASSUME SignInv, NEW c \in clients, NEW s \in 1 .. Len(signs), SummonFreeSign(c, s),
         UNCHANGED clientVars
  PROVE  SignInv'
<1>1. /\ signs' = [signs EXCEPT ![s].summoner = playerId[c]]
      /\ offers' = [d \in Conns |-> IF d \in Find(signs[s].player)
                                      THEN offers[d] \cup {<<s, playerId[c]>>}
                                      ELSE offers[d]]
      /\ waiting' = [waiting EXCEPT ![c] = @ \cup {s}]
      /\ s \in view[c] /\ Cached(s) /\ signs[s].summoner = NoPlayer
      /\ UNCHANGED <<arrived, clients, playerId, cache, queue, active, laid, view>>
  BY DEF SummonFreeSign, clientVars
<1>c. /\ c \in Conns /\ playerId[c] \in Players /\ playerId[c] # NoPlayer
      /\ s \in DOMAIN signs
  BY SignFacts DEF SummonFreeSign, LoggedIn, SignInv, ClientsTypeOK
<1>2. /\ signs' = [t \in DOMAIN signs |-> signs'[t]]
      /\ \A t \in DOMAIN signs :
           /\ signs'[t] \in SummonSign
           /\ signs'[t].owner = signs[t].owner /\ signs'[t].player = signs[t].player
           /\ signs'[t].area = signs[t].area /\ signs'[t].aware = signs[t].aware
           /\ t # s => signs'[t].summoner = signs[t].summoner
      /\ signs'[s].summoner = playerId[c]
  <2>1. \A x \in SummonSign :
          LET y == [x EXCEPT !.summoner = playerId[c]]
          IN  /\ y \in SummonSign
              /\ y.owner = x.owner /\ y.player = x.player /\ y.area = x.area
              /\ y.aware = x.aware /\ y.summoner = playerId[c]
    BY <1>c DEF SummonSign
  <2>2. \A t \in DOMAIN signs : signs[t] \in SummonSign
    BY SignFacts
  <2>3. /\ signs' = [t \in DOMAIN signs |-> signs'[t]]
        /\ signs'[s] = [signs[s] EXCEPT !.summoner = playerId[c]]
        /\ \A t \in DOMAIN signs \ {s} : signs'[t] = signs[t]
    BY <1>1, <1>c
  <2>4. /\ signs'[s] \in SummonSign
        /\ signs'[s].owner = signs[s].owner /\ signs'[s].player = signs[s].player
        /\ signs'[s].area = signs[s].area /\ signs'[s].aware = signs[s].aware
        /\ signs'[s].summoner = playerId[c]
    BY <1>c, <2>1, <2>2, <2>3
  <2> QED BY <2>2, <2>3, <2>4
<1>3. signs' \in Seq(SummonSign) /\ Len(signs') = Len(signs) /\ DOMAIN signs' = DOMAIN signs
  BY <1>2, SignsReplaced
<1>4. /\ Owned' /\ CacheActive' /\ LaidActive' /\ KeepsNewest'
      /\ \A t \in DOMAIN signs : Cached(t)' <=> Cached(t)
  BY <1>1, <1>2, <1>3, SameOwners
<1>5. waiting'[c] = waiting[c] \cup {s} /\ \A d \in Conns \ {c} : waiting'[d] = waiting[d]
  BY <1>1, <1>c DEF SignInv, SignsTypeOK
\* The sign was free, so that nobody had an open offer of it.
<1>6. \A d \in Conns : \A o \in offers[d] : o[1] # s
  BY <1>1, <1>c, SignFacts, ClientsAssumption DEF SignInv, OfferCurrent
<1>7. \A d \in Conns : \A o \in offers'[d] :
        o \in offers[d] \/ (o = <<s, playerId[c]>> /\ d \in Find(signs[s].player))
  BY <1>1
<1>t. ClientsTypeOK' /\ SignsTypeOK'
  <2>1. waiting' \in [Conns -> SUBSET (1 .. Len(signs))]
    BY <1>1 DEF SignInv, SignsTypeOK
  <2>2. offers' \in [Conns -> SUBSET ((1 .. Len(signs)) \X Players)]
    <3>1. <<s, playerId[c]>> \in (1 .. Len(signs)) \X Players
      BY <1>c
    <3>2. \A d \in Conns : offers[d] \in SUBSET ((1 .. Len(signs)) \X Players)
      BY DEF SignInv, SignsTypeOK
    <3> QED BY <1>1, <3>1, <3>2
  <2> QED BY <1>1, <1>3, <2>1, <2>2 DEF SignInv, ClientsTypeOK, SignsTypeOK
<1>r. Strangers'
  <2>1. \A d \in Conns : d \notin clients \/ playerId[d] = NoPlayer => offers'[d] = offers[d]
    <3>1. signs[s].player \in Players /\ NoPlayer \notin Players
      BY <1>c, SignFacts, ClientsAssumption
    <3> QED BY <1>1, <3>1 DEF Find
  <2> QED BY <1>1, <1>5, <1>c, <2>1 DEF SignInv, Strangers
<1>w. ShownAware'
  <2>1. \A d \in Conns : waiting'[d] \subseteq view[d]
    BY <1>1, <1>5 DEF SignInv, ShownAware
  <2> QED BY <1>1, <1>2, <2>1, SignFacts DEF SignInv, ShownAware
<1>o. OneOffer'
  <2> SUFFICES ASSUME NEW d \in Conns, NEW e \in Conns,
                      NEW o \in offers'[d], NEW q \in offers'[e],
                      o[1] = q[1], Cached(o[1])'
               PROVE  d = e
    BY DEF OneOffer
  <2>1. CASE o \in offers[d] /\ q \in offers[e]
    <3>1. Cached(o[1])
      BY <1>4, <2>1, SignFacts
    <3> QED BY <2>1, <3>1 DEF SignInv, OneOffer
  <2>2. CASE o \notin offers[d] \/ q \notin offers[e]
    <3>1. o[1] = s
      BY <1>7, <2>2
    <3>2. d \in Find(signs[s].player) /\ e \in Find(signs[s].player)
      BY <1>6, <1>7, <3>1
    <3> QED BY <3>2, FindOne
  <2> QED BY <2>1, <2>2
<1>f. OfferCurrent'
  <2> SUFFICES ASSUME NEW d \in Conns, NEW o \in offers'[d], Cached(o[1])'
               PROVE  signs'[o[1]].summoner = o[2]
    BY DEF OfferCurrent
  <2>1. CASE o \in offers[d]
    BY <1>2, <1>4, <1>6, <2>1, SignFacts DEF SignInv, OfferCurrent
  <2>2. CASE o = <<s, playerId[c]>>
    BY <1>2, <2>2
  <2> QED BY <1>7, <2>1, <2>2
<1>v. WaiterReserved'
  <2> SUFFICES ASSUME NEW d \in clients, Sole(d), NEW t \in waiting'[d]
               PROVE  signs'[t].summoner = playerId[d]
    BY <1>1 DEF WaiterReserved, Sole
  <2>1. CASE t \in waiting[d]
    <3>1. d \in Conns /\ t \in DOMAIN signs /\ playerId[d] # NoPlayer
      BY <2>1, SignFacts DEF SignInv, Strangers
    <3>2. signs[t].summoner = playerId[d]
      BY <2>1 DEF SignInv, WaiterReserved
    <3> QED BY <1>1, <1>2, <3>1, <3>2
  <2>2. CASE t \notin waiting[d]
    BY <1>2, <1>5, <2>2, SignFacts
  <2> QED BY <2>1, <2>2
<1>n. ShownActive'
  BY <1>1, <1>2, SignFacts DEF SignInv, ShownActive, Sole
<1> QED BY <1>t, <1>r, <1>4, <1>w, <1>o, <1>f, <1>v, <1>n DEF SignInv

LEMMA RejectPreserves ==
  ASSUME SignInv, NEW c \in clients, NEW s \in 1 .. Len(signs), NEW p \in Players,
         RejectSign(c, s, p), UNCHANGED clientVars
  PROVE  SignInv'
<1>1. /\ offers' = [offers EXCEPT ![c] = @ \ {<<s, p>>}] /\ <<s, p>> \in offers[c]
      /\ UNCHANGED <<arrived, clients, playerId, cache, queue, active, laid, view>>
  BY DEF RejectSign, clientVars
<1>c. c \in Conns /\ s \in DOMAIN signs
  BY SignFacts
<1>2. \A d \in Conns : offers'[d] \subseteq offers[d] /\ <<s, p>> \notin offers'[c]
  BY <1>1, <1>c DEF SignInv, SignsTypeOK
<1>3. CASE UNCHANGED <<signs, waiting>>
  <2>1. ClientsTypeOK' /\ SignsTypeOK'
    BY <1>1, <1>3 DEF SignInv, ClientsTypeOK, SignsTypeOK
  <2>2. Strangers' /\ OneOffer' /\ OfferCurrent'
    BY <1>1, <1>2, <1>3 DEF SignInv, Strangers, OneOffer, OfferCurrent, Cached
  <2>3. Owned' /\ CacheActive' /\ ShownAware' /\ KeepsNewest'
    BY <1>1, <1>3 DEF SignInv, Owned, CacheActive, ShownAware, KeepsNewest, Cached
  <2>4. WaiterReserved' /\ ShownActive' /\ LaidActive'
    BY <1>1, <1>3 DEF SignInv, WaiterReserved, ShownActive, LaidActive, Sole, Cached
  <2> QED BY <2>1, <2>2, <2>3, <2>4 DEF SignInv
<1>4. CASE /\ Cached(s)
           /\ waiting' = [d \in Conns |-> IF d \in Find(signs[s].summoner)
                                            THEN waiting[d] \ {s} ELSE waiting[d]]
           /\ signs' = [signs EXCEPT ![s].summoner = NoPlayer]
  <2>1. /\ signs' = [t \in DOMAIN signs |-> signs'[t]]
        /\ \A t \in DOMAIN signs :
             /\ signs'[t] \in SummonSign
             /\ signs'[t].owner = signs[t].owner /\ signs'[t].player = signs[t].player
             /\ signs'[t].area = signs[t].area /\ signs'[t].aware = signs[t].aware
             /\ t # s => signs'[t].summoner = signs[t].summoner
    <3>1. \A x \in SummonSign :
            LET y == [x EXCEPT !.summoner = NoPlayer]
            IN  /\ y \in SummonSign
                /\ y.owner = x.owner /\ y.player = x.player /\ y.area = x.area
                /\ y.aware = x.aware
      BY DEF SummonSign
    <3>2. \A t \in DOMAIN signs : signs[t] \in SummonSign
      BY SignFacts
    <3>3. /\ signs' = [t \in DOMAIN signs |-> signs'[t]]
          /\ signs'[s] = [signs[s] EXCEPT !.summoner = NoPlayer]
          /\ \A t \in DOMAIN signs \ {s} : signs'[t] = signs[t]
      BY <1>4, <1>c
    <3>4. /\ signs'[s] \in SummonSign
          /\ signs'[s].owner = signs[s].owner /\ signs'[s].player = signs[s].player
          /\ signs'[s].area = signs[s].area /\ signs'[s].aware = signs[s].aware
      BY <1>c, <3>1, <3>2, <3>3
    <3> QED BY <3>2, <3>3, <3>4
  <2>2. signs' \in Seq(SummonSign) /\ Len(signs') = Len(signs) /\ DOMAIN signs' = DOMAIN signs
    BY <2>1, SignsReplaced
  <2>3. /\ Owned' /\ CacheActive' /\ LaidActive' /\ KeepsNewest'
        /\ \A t \in DOMAIN signs : Cached(t)' <=> Cached(t)
    BY <1>1, <2>1, <2>2, SameOwners
  <2>4. \A d \in Conns : waiting'[d] \subseteq waiting[d]
    BY <1>4
  <2>t. ClientsTypeOK' /\ SignsTypeOK'
    <3>1. waiting' \in [Conns -> SUBSET (1 .. Len(signs))]
      BY <1>4 DEF SignInv, SignsTypeOK
    <3>2. offers' \in [Conns -> SUBSET ((1 .. Len(signs)) \X Players)]
      BY <1>1 DEF SignInv, SignsTypeOK
    <3> QED BY <1>1, <2>2, <3>1, <3>2 DEF SignInv, ClientsTypeOK, SignsTypeOK
  <2>r. Strangers'
    BY <1>1, <1>2, <2>4 DEF SignInv, Strangers
  <2>w. ShownAware'
    BY <1>1, <2>1, <2>4, SignFacts DEF SignInv, ShownAware
  <2>o. OneOffer'
    BY <1>2, <2>3, SignFacts DEF SignInv, OneOffer
  \* No other offer of the sign is open.
  <2>f. OfferCurrent'
    <3> SUFFICES ASSUME NEW d \in Conns, NEW o \in offers'[d], Cached(o[1])'
                 PROVE  signs'[o[1]].summoner = o[2]
      BY DEF OfferCurrent
    <3>1. o \in offers[d] /\ o[1] \in DOMAIN signs /\ Cached(o[1]) /\ o = <<o[1], o[2]>>
      BY <1>2, <2>3, SignFacts
    <3>2. signs[o[1]].summoner = o[2] /\ signs[s].summoner = p
      BY <1>1, <1>4, <1>c, <3>1 DEF SignInv, OfferCurrent
    <3>3. o[1] # s
      <4> SUFFICES ASSUME o[1] = s PROVE FALSE
        OBVIOUS
      <4>1. d = c
        BY <1>1, <1>c, <3>1 DEF SignInv, OneOffer
      <4> QED BY <1>2, <3>1, <3>2, <4>1
    <3> QED BY <2>1, <3>1, <3>2, <3>3
  <2>v. WaiterReserved'
    <3> SUFFICES ASSUME NEW d \in clients, Sole(d), NEW t \in waiting'[d]
                 PROVE  signs'[t].summoner = playerId[d]
      BY <1>1 DEF WaiterReserved, Sole
    <3>1. d \in Conns /\ t \in waiting[d] /\ t \in DOMAIN signs
      BY <2>4, SignFacts
    <3>2. signs[t].summoner = playerId[d]
      BY <3>1 DEF SignInv, WaiterReserved
    <3>3. t # s
      BY <1>4, <3>1, <3>2, SoleFound
    <3> QED BY <2>1, <3>1, <3>2, <3>3
  <2>n. ShownActive'
    BY <1>1, <2>1, SignFacts DEF SignInv, ShownActive, Sole
  <2> QED BY <2>t, <2>r, <2>3, <2>w, <2>o, <2>f, <2>v, <2>n DEF SignInv
<1> QED BY <1>3, <1>4 DEF RejectSign

LEMMA SignRequestPreserves ==
  ASSUME SignInv, SignRequest, UNCHANGED clientVars
  PROVE  SignInv'
BY GetSignListPreserves, CreateSignPreserves, RemoveSignPreserves, SummonPreserves,
   RejectPreserves
DEF SignRequest

LEMMA SignsStutter ==
  ASSUME SignInv, UNCHANGED <<clientVars, signVars>>
  PROVE  SignInv'
<1> USE DEF SignInv, clientVars, signVars
<1>1. ClientsTypeOK' /\ SignsTypeOK' /\ Strangers' /\ Owned' /\ CacheActive' /\ ShownAware'
  BY DEF ClientsTypeOK, SignsTypeOK, Strangers, Owned, CacheActive, ShownAware
<1>2. OneOffer' /\ OfferCurrent' /\ WaiterReserved' /\ KeepsNewest'
  BY DEF OneOffer, OfferCurrent, WaiterReserved, KeepsNewest, Sole, Cached
<1>3. ShownActive' /\ LaidActive'
  BY DEF ShownActive, LaidActive, Sole, Cached
<1> QED BY <1>1, <1>2, <1>3
=============================================================================
