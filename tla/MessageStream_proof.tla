------------------------ MODULE MessageStream_proof ------------------------
(***************************************************************************)
(* Proofs about MessageStream: any sizes, limits and number of messages.   *)
(***************************************************************************)
EXTENDS MessageStream, SequenceTheorems, FiniteSetTheorems, TLAPS

-----------------------------------------------------------------------------
(* Peers, messages and their fragments *)

LEMMA PeersFacts ==
  /\ Client \in Peers /\ Server \in Peers /\ Client # Server
  /\ Other(Client) = Server /\ Other(Server) = Client
  /\ \A p \in Peers : Other(p) \in Peers /\ Other(p) # p /\ Other(Other(p)) = p
  /\ \A p, q \in Peers : q # p => q = Other(p)
BY MessageAssumption DEF Peers, Other

\* The last fragment, and it alone, brings a payload to its size.
LEMMA CountFacts ==
  ASSUME NEW size \in Sizes
  PROVE  /\ size \in Nat \ {0} /\ size < LengthLimit
         /\ FragmentCount(size) \in Nat \ {0}
         /\ (FragmentCount(size) - 1) * MaxFragmentLength < size
         /\ size <= FragmentCount(size) * MaxFragmentLength
<1> DEFINE M == MaxFragmentLength
           n == FragmentCount(size)
<1>1. M \in Nat \ {0} /\ size \in Nat \ {0} /\ size < LengthLimit
  BY MessageAssumption
<1>2. n = (size + M - 1) \div M /\ size + M - 1 \in Nat
  BY <1>1 DEF FragmentCount
<1>3. n \in Int /\ n * M <= size + M - 1 /\ size + M - 1 < (n + 1) * M
  BY <1>1, <1>2
<1> HIDE DEF n, M
<1>4. (n + 1) * M = n * M + M /\ (n - 1) * M = n * M - M /\ n * M \in Int
  BY <1>1, <1>3
<1>5. (n - 1) * M < size /\ size <= n * M
  BY <1>1, <1>3, <1>4
<1>6. n > 0
  <2> SUFFICES ASSUME n <= 0 PROVE FALSE
    BY <1>3
  <2>1. n * M <= 0
    BY <1>1, <1>3
  <2> QED BY <1>1, <1>4, <1>5, <2>1
<1> QED BY <1>1, <1>3, <1>5, <1>6 DEF n, M

LEMMA MinFacts ==
  ASSUME NEW a \in Int, NEW b \in Int
  PROVE  Min({a, b}) = IF a <= b THEN a ELSE b
BY DEF Min

LEMMA FragmentsFacts ==
  ASSUME NEW m \in Message
  PROVE  LET n == FragmentCount(m.size)
         IN  /\ Fragments(m) \in Seq(Fragment)
             /\ Len(Fragments(m)) = n /\ DOMAIN Fragments(m) = 1 .. n
             /\ \A i \in 1 .. n :
                  LET f == Fragments(m)[i]
                  IN  /\ f \in Fragment /\ f.msg = m /\ f.part = i /\ f.total = m.size
                      /\ i < n => f.length = MaxFragmentLength
                      /\ i = n => f.length = m.size - (n - 1) * MaxFragmentLength
<1> DEFINE M == MaxFragmentLength
           n == FragmentCount(m.size)
           size == m.size
           len(i) == Min({M, size - (i - 1) * M})
           frag(i) == [msg |-> m, part |-> i, length |-> len(i), total |-> size % LengthLimit]
<1>1. /\ size \in Nat \ {0} /\ size < LengthLimit /\ n \in Nat \ {0}
      /\ (n - 1) * M < size /\ size <= n * M /\ M \in Nat \ {0}
  <2>1. size \in Sizes
    BY DEF Message
  <2> QED BY <2>1, CountFacts, MessageAssumption
<1>2. size % LengthLimit = size
  BY <1>1, MessageAssumption
<1>3. Fragments(m) = [i \in 1 .. n |-> frag(i)]
  BY DEF Fragments
<1> HIDE DEF n, size
<1>4. ASSUME NEW i \in 1 .. n
      PROVE  /\ len(i) \in Nat
             /\ i < n => len(i) = M
             /\ i = n => len(i) = size - (n - 1) * M
  <2>1. (i - 1) * M \in Int /\ size - (i - 1) * M \in Int
    BY <1>1
  <2>2. len(i) = IF M <= size - (i - 1) * M THEN M ELSE size - (i - 1) * M
    BY <1>1, <2>1, MinFacts
  <2>3. CASE i < n
    <3>1. (i - 1) * M + M <= (n - 1) * M
      <4>1. (i - 1) * M + M = i * M
        BY <1>1
      <4>2. i <= n - 1
        BY <1>1, <2>3
      <4>3. i * M <= (n - 1) * M
        BY <1>1, <4>2
      <4> QED BY <4>1, <4>3
    <3>2. (n - 1) * M \in Int
      BY <1>1
    <3> QED BY <1>1, <2>1, <2>2, <2>3, <3>1, <3>2
  <2>4. CASE i = n
    <3>1. n * M = (n - 1) * M + M
      BY <1>1
    <3> QED BY <1>1, <2>1, <2>2, <2>4, <3>1
  <2> QED BY <1>1, <2>3, <2>4
<1> HIDE DEF len, M
<1>5. ASSUME NEW i \in 1 .. n
      PROVE  frag(i) \in Fragment /\ frag(i).total = size
  BY <1>1, <1>2, <1>4, <1>5 DEF Fragment
<1>6. Fragments(m) \in [1 .. n -> Fragment]
  BY <1>3, <1>5
<1>7. Fragments(m) \in Seq(Fragment) /\ DOMAIN Fragments(m) = 1 .. n
  BY <1>1, <1>6, SeqDef
<1>8. Len(Fragments(m)) = n
  BY <1>1, <1>7, LenProperties
<1>9. ASSUME NEW i \in 1 .. n
      PROVE  LET f == Fragments(m)[i]
             IN  /\ f \in Fragment /\ f.msg = m /\ f.part = i /\ f.total = size
                 /\ i < n => f.length = M
                 /\ i = n => f.length = size - (n - 1) * M
  BY <1>3, <1>4, <1>5
<1> QED BY <1>7, <1>8, <1>9 DEF n, M, size

-----------------------------------------------------------------------------
(* One direction of the conversation: w is what its sender, who has sent k      *)
(* messages, has on the wire; fr, len and rq are the receiver's fragments,      *)
(* their length and its queue; tk is what it has taken.                         *)

IsPart(f) ==
  /\ f \in Fragment
  /\ f.part \in 1 .. FragmentCount(f.msg.size)
  /\ f = Fragments(f.msg)[f.part]

LastPart(f) == f.part = FragmentCount(f.msg.size)

Before(f, g) == f.msg.n < g.msg.n \/ (f.msg = g.msg /\ f.part < g.part)

Follows(f, g) ==
  IF LastPart(f) THEN g.part = 1 /\ g.msg.n = f.msg.n + 1
                 ELSE g.msg = f.msg /\ g.part = f.part + 1

\* The fragments of the messages after the d-th, up to the k-th, without a gap.
Line(w, d, k) ==
  /\ w \in Seq(Fragment)
  /\ \A i \in 1 .. Len(w) : IsPart(w[i]) /\ d < w[i].msg.n /\ w[i].msg.n <= k
  /\ \A i, j \in 1 .. Len(w) : i < j => Before(w[i], w[j])
  /\ \A i \in 1 .. (Len(w) - 1) : Follows(w[i], w[i + 1])
  /\ w = <<>> => d = k
  /\ w # <<>> => w[1].msg.n = d + 1 /\ LastPart(w[Len(w)]) /\ w[Len(w)].msg.n = k

\* The receiver holds the parts of the message that come before the next on the wire.
Held(w, fr, len) ==
  /\ fr \in Seq(Fragment) /\ len \in Nat
  /\ w = <<>> => fr = <<>> /\ len = 0
  /\ w # <<>> => /\ Len(fr) = w[1].part - 1
                 /\ len = (w[1].part - 1) * MaxFragmentLength
                 /\ \A i \in 1 .. Len(fr) : fr[i] = Fragments(w[1].msg)[i]

\* Its queue holds the messages after the d-th, whole.
Queued(rq, d) ==
  /\ rq \in Seq(Received)
  /\ \A i \in 1 .. Len(rq) : rq[i].whole /\ rq[i].msg.n = d + i

Counted(tk) == tk \in Seq(Nat) /\ \A i \in 1 .. Len(tk) : tk[i] = i

Channel(w, fr, len, rq, tk, k) ==
  /\ k \in Nat
  /\ Line(w, Len(tk) + Len(rq), k)
  /\ Held(w, fr, len)
  /\ Queued(rq, Len(tk))
  /\ Counted(tk)

Between(w, fr, rq) == Messages(w) \cup Messages(fr) \cup Messages(rq)

\* The parts of a message are a line of their own.
LEMMA PartsFacts ==
  ASSUME NEW m \in Message
  PROVE  LET F == Fragments(m)
         IN  /\ F \in Seq(Fragment) /\ Len(F) \in Nat \ {0}
             /\ \A i \in 1 .. Len(F) : IsPart(F[i]) /\ F[i].msg = m /\ F[i].part = i
             /\ \A i, j \in 1 .. Len(F) : i < j => Before(F[i], F[j])
             /\ \A i \in 1 .. (Len(F) - 1) : Follows(F[i], F[i + 1])
             /\ LastPart(F[Len(F)])
<1> DEFINE F == Fragments(m)
           n == FragmentCount(m.size)
<1>1. m.size \in Sizes
  BY DEF Message
<1>2. n \in Nat \ {0}
  BY <1>1, CountFacts
<1>3. /\ F \in Seq(Fragment) /\ Len(F) = n
      /\ \A i \in 1 .. n : F[i] \in Fragment /\ F[i].msg = m /\ F[i].part = i
  BY FragmentsFacts
<1> HIDE DEF F
<1>4. \A i \in 1 .. n : IsPart(F[i])
  BY <1>3 DEF IsPart, F
<1>5. \A i, j \in 1 .. n : i < j => Before(F[i], F[j])
  BY <1>3 DEF Before
<1>6. ASSUME NEW i \in 1 .. (n - 1) PROVE Follows(F[i], F[i + 1])
  BY <1>2, <1>3 DEF Follows, LastPart
<1>7. LastPart(F[n])
  BY <1>2, <1>3 DEF LastPart
<1> QED BY <1>2, <1>3, <1>4, <1>5, <1>6, <1>7 DEF F

Extended(w, m) == w \o Fragments(m)

LEMMA MessageAt ==
  ASSUME NEW s, NEW i \in 1 .. Len(s)
  PROVE  s[i].msg \in Messages(s)
BY DEF Messages

\* A message sent extends the line.
LEMMA LineExtended ==
  ASSUME NEW w, NEW d \in Nat, NEW k \in Nat, Line(w, d, k),
         NEW m \in Message, m.n = k + 1,
         NEW u, u = Extended(w, m)
  PROVE  /\ Line(u, d, k + 1) /\ u # <<>>
         /\ w # <<>> => u[1] = w[1]
         /\ w = <<>> => u[1].part = 1
<1> DEFINE F == Fragments(m)
<1>1. /\ F \in Seq(Fragment) /\ Len(F) \in Nat \ {0}
      /\ \A i \in 1 .. Len(F) : IsPart(F[i]) /\ F[i].msg = m /\ F[i].part = i
      /\ \A i, j \in 1 .. Len(F) : i < j => Before(F[i], F[j])
      /\ \A i \in 1 .. (Len(F) - 1) : Follows(F[i], F[i + 1])
      /\ LastPart(F[Len(F)])
  BY PartsFacts
<1> HIDE DEF F
<1>2. w \in Seq(Fragment) /\ Len(w) \in Nat
  BY LenProperties DEF Line
<1>3. /\ u \in Seq(Fragment) /\ Len(u) = Len(w) + Len(F)
      /\ \A i \in 1 .. Len(w) : u[i] = w[i]
      /\ \A i \in 1 .. Len(F) : u[Len(w) + i] = F[i]
      /\ \A i \in 1 .. Len(u) : i > Len(w) => i - Len(w) \in 1 .. Len(F) /\ u[i] = F[i - Len(w)]
  <2>1. u = w \o F
    BY DEF F, Extended
  <2> QED BY <1>1, <1>2, <2>1, ConcatProperties
<1>4. d <= k
  <2>1. CASE w = <<>>
    BY <2>1 DEF Line
  <2>2. CASE w # <<>>
    <3>1. 1 \in 1 .. Len(w)
      BY <1>2, <2>2, EmptySeq
    <3>2. w[1].msg.n \in Nat /\ d < w[1].msg.n /\ w[1].msg.n <= k
      <4>1. w[1] \in Fragment
        BY <1>2, <3>1, ElementOfSeq
      <4> QED BY <3>1, <4>1 DEF Line, Fragment, Message
    <3> QED BY <3>2
  <2> QED BY <2>1, <2>2
<1>5. ASSUME NEW i \in 1 .. Len(u)
      PROVE  /\ IsPart(u[i]) /\ d < u[i].msg.n /\ u[i].msg.n <= k + 1
             /\ i <= Len(w) => u[i].msg.n \in Nat /\ u[i].msg.n <= k
             /\ i > Len(w) => u[i].msg = m
  <2>1. CASE i <= Len(w)
    <3>1. i \in 1 .. Len(w) /\ u[i] = w[i]
      BY <1>2, <1>3, <2>1
    <3>2. IsPart(u[i]) /\ d < u[i].msg.n /\ u[i].msg.n <= k
      BY <3>1 DEF Line
    <3>3. u[i].msg.n \in Nat
      <4>1. u[i] \in Fragment
        BY <1>3, ElementOfSeq
      <4> QED BY <4>1 DEF Fragment, Message
    <3> QED BY <1>2, <2>1, <3>2, <3>3
  <2>2. CASE i > Len(w)
    <3>1. IsPart(u[i]) /\ u[i].msg = m
      BY <1>1, <1>3, <2>2
    <3> QED BY <1>2, <1>4, <2>2, <3>1
  <2> QED BY <1>2, <2>1, <2>2
<1>6. ASSUME NEW i \in 1 .. Len(u), NEW j \in 1 .. Len(u), i < j
      PROVE  Before(u[i], u[j])
  <2>1. CASE j <= Len(w)
    BY <1>2, <1>3, <1>6, <2>1 DEF Line
  <2>2. CASE i > Len(w)
    <3>1. /\ i - Len(w) \in 1 .. Len(F) /\ j - Len(w) \in 1 .. Len(F)
          /\ i - Len(w) < j - Len(w)
          /\ u[i] = F[i - Len(w)] /\ u[j] = F[j - Len(w)]
      <4>1. j > Len(w) /\ i \in Int /\ j \in Int
        BY <1>2, <1>6, <2>2
      <4>2. i - Len(w) < j - Len(w)
        BY <1>2, <1>6, <4>1
      <4> QED BY <1>3, <2>2, <4>1, <4>2
    <3> QED BY <1>1, <3>1
  <2>3. CASE i <= Len(w) /\ j > Len(w)
    BY <1>5, <2>3 DEF Before
  <2> QED BY <1>2, <1>6, <2>1, <2>2, <2>3
<1>7. ASSUME NEW i \in 1 .. (Len(u) - 1) PROVE Follows(u[i], u[i + 1])
  <2>1. CASE i < Len(w)
    <3>1. i \in 1 .. (Len(w) - 1) /\ u[i] = w[i] /\ u[i + 1] = w[i + 1]
      BY <1>2, <1>3, <2>1
    <3> QED BY <3>1 DEF Line
  <2>2. CASE i > Len(w)
    <3>1. /\ i - Len(w) \in 1 .. (Len(F) - 1)
          /\ u[i] = F[i - Len(w)] /\ u[i + 1] = F[(i - Len(w)) + 1]
      <4>1. i - Len(w) \in 1 .. (Len(F) - 1) /\ i \in 1 .. Len(u)
        BY <1>1, <1>2, <1>3, <2>2
      <4>2. (i - Len(w)) + 1 \in 1 .. Len(F) /\ Len(w) + ((i - Len(w)) + 1) = i + 1
        BY <1>1, <1>2, <4>1
      <4>3. u[i] = F[i - Len(w)]
        BY <1>3, <2>2, <4>1
      <4>4. ASSUME NEW j \in 1 .. Len(F) PROVE u[Len(w) + j] = F[j]
        BY <1>3
      <4>5. u[Len(w) + ((i - Len(w)) + 1)] = F[(i - Len(w)) + 1]
        BY <4>2, <4>4
      <4>6. u[i + 1] = F[(i - Len(w)) + 1]
        BY <4>2, <4>5
      <4> QED BY <4>1, <4>3, <4>6
    <3> QED BY <1>1, <3>1
  <2>3. CASE i = Len(w)
    <3>1. w # <<>> /\ u[i] = w[Len(w)] /\ u[i + 1] = F[1] /\ 1 \in 1 .. Len(F)
      BY <1>1, <1>2, <1>3, <2>3, EmptySeq
    <3>2. LastPart(u[i]) /\ u[i].msg.n = k
      BY <3>1 DEF Line
    <3>3. u[i + 1].part = 1 /\ u[i + 1].msg = m
      BY <1>1, <3>1
    <3> QED BY <3>2, <3>3 DEF Follows
  <2> QED BY <1>2, <2>1, <2>2, <2>3
<1>8. Len(u) \in Nat \ {0} /\ u # <<>>
  BY <1>1, <1>2, <1>3, EmptySeq
<1>9. /\ w # <<>> => u[1] = w[1]
      /\ w = <<>> => u[1] = F[1] /\ d = k
  <2>1. CASE w # <<>>
    BY <1>2, <1>3, <2>1, EmptySeq
  <2>2. CASE w = <<>>
    <3>1. Len(w) = 0
      BY <2>2, EmptySeq
    <3> QED BY <1>1, <1>3, <2>2, <3>1 DEF Line
  <2> QED BY <2>1, <2>2
<1>10. u[1].msg.n = d + 1
  <2>1. F[1].msg = m
    BY <1>1
  <2> QED BY <1>9, <2>1 DEF Line
<1>11. LastPart(u[Len(u)]) /\ u[Len(u)].msg.n = k + 1
  <2>1. u[Len(u)] = F[Len(F)] /\ Len(F) \in 1 .. Len(F)
    BY <1>1, <1>2, <1>3
  <2> QED BY <1>1, <2>1
<1>12. Line(u, d, k + 1)
  BY <1>3, <1>5, <1>6, <1>7, <1>8, <1>10, <1>11 DEF Line
<1>13. w = <<>> => u[1].part = 1
  BY <1>1, <1>9
<1> QED BY <1>8, <1>9, <1>12, <1>13

LEMMA MessageAdded ==
  ASSUME NEW w \in Seq(Fragment), NEW m \in Message,
         NEW u, u = Extended(w, m)
  PROVE  Messages(u) = Messages(w) \cup {m}
<1> DEFINE F == Fragments(m)
<1>1. /\ F \in Seq(Fragment) /\ Len(F) \in Nat \ {0}
      /\ \A i \in 1 .. Len(F) : F[i].msg = m
  BY PartsFacts
<1> HIDE DEF F
<1>2. Len(w) \in Nat
  BY LenProperties
<1>3. /\ Len(u) = Len(w) + Len(F)
      /\ \A i \in 1 .. Len(w) : u[i] = w[i]
      /\ \A i \in 1 .. Len(u) : i > Len(w) => i - Len(w) \in 1 .. Len(F) /\ u[i] = F[i - Len(w)]
  <2>1. u = w \o F
    BY DEF F, Extended
  <2> QED BY <1>1, <1>2, <2>1, ConcatProperties
<1>4. ASSUME NEW i \in 1 .. Len(u)
      PROVE  u[i].msg \in Messages(w) \cup {m}
  <2>1. CASE i <= Len(w)
    <3>1. i \in 1 .. Len(w)
      BY <1>2, <1>3, <2>1
    <3> QED BY <1>3, <3>1 DEF Messages
  <2>2. CASE i > Len(w)
    BY <1>1, <1>3, <2>2
  <2> QED BY <1>1, <1>2, <1>3, <2>1, <2>2
<1>5. ASSUME NEW i \in 1 .. Len(w)
      PROVE  w[i].msg \in Messages(u)
  <2>1. i \in 1 .. Len(u) /\ u[i] = w[i]
    BY <1>1, <1>2, <1>3
  <2> QED BY <2>1 DEF Messages
<1>6. m \in Messages(u)
  <2>1. Len(u) \in 1 .. Len(u) /\ Len(u) > Len(w)
    BY <1>1, <1>2, <1>3
  <2>2. Len(u) - Len(w) \in 1 .. Len(F) /\ u[Len(u)] = F[Len(u) - Len(w)]
    BY <1>3, <2>1
  <2>3. u[Len(u)].msg = m
    BY <1>1, <2>2
  <2>4. u[Len(u)].msg \in Messages(u)
    BY <2>1, MessageAt
  <2> QED BY <2>3, <2>4
<1>7. \A o \in Messages(u) : o \in Messages(w) \cup {m}
  BY <1>4 DEF Messages
<1>8. \A o \in Messages(w) : o \in Messages(u)
  BY <1>5 DEF Messages
<1> QED BY <1>6, <1>7, <1>8

\* What the first of a line leaves behind it.
LEMMA LineTail ==
  ASSUME NEW w, NEW d \in Nat, NEW k \in Nat, Line(w, d, k), w # <<>>
  PROVE  /\ 1 \in 1 .. Len(w) /\ IsPart(w[1]) /\ w[1].msg.n = d + 1 /\ Tail(w) \in Seq(Fragment)
         /\ LastPart(w[1]) => /\ Line(Tail(w), d + 1, k)
                              /\ Tail(w) # <<>> => Tail(w)[1].part = 1
         /\ ~LastPart(w[1]) => /\ Line(Tail(w), d, k) /\ Tail(w) # <<>>
                               /\ Tail(w)[1].msg = w[1].msg
                               /\ Tail(w)[1].part = w[1].part + 1
<1> DEFINE v == Tail(w)
<1>1. w \in Seq(Fragment) /\ Len(w) \in Nat \ {0}
  BY EmptySeq DEF Line
<1>2. /\ v \in Seq(Fragment) /\ Len(v) = Len(w) - 1
      /\ \A i \in 1 .. Len(v) : v[i] = w[i + 1] /\ i + 1 \in 1 .. Len(w)
  BY <1>1, HeadTailProperties
<1> HIDE DEF v
<1>3. 1 \in 1 .. Len(w) /\ IsPart(w[1]) /\ w[1].msg.n = d + 1
  BY <1>1 DEF Line
<1>4. \A i \in 1 .. Len(w) : w[i] \in Fragment /\ w[i].msg \in Message /\ w[i].msg.n \in Nat
                             /\ w[i].part \in 1 .. FragmentCount(w[i].msg.size)
                             /\ w[i].msg.size \in Sizes
  BY <1>1, ElementOfSeq DEF Line, IsPart, Fragment, Message
<1>5. \A i, j \in 1 .. Len(v) : i < j => Before(v[i], v[j])
  BY <1>1, <1>2 DEF Line
<1>6. ASSUME NEW i \in 1 .. (Len(v) - 1) PROVE Follows(v[i], v[i + 1])
  <2>1. i + 1 \in 1 .. (Len(w) - 1) /\ v[i] = w[i + 1] /\ v[i + 1] = w[(i + 1) + 1]
    BY <1>1, <1>2
  <2> QED BY <2>1 DEF Line
<1>7. v # <<>> => /\ Len(v) \in 1 .. Len(v) /\ v[Len(v)] = w[Len(w)]
                  /\ 1 \in 1 .. Len(v) /\ 1 \in 1 .. (Len(w) - 1) /\ v[1] = w[2]
                  /\ Follows(w[1], v[1])
  <2> SUFFICES ASSUME v # <<>>
               PROVE  /\ Len(v) \in 1 .. Len(v) /\ v[Len(v)] = w[Len(w)]
                      /\ 1 \in 1 .. Len(v) /\ 1 \in 1 .. (Len(w) - 1) /\ v[1] = w[2]
                      /\ Follows(w[1], v[1])
    OBVIOUS
  <2>1. Len(v) \in Nat \ {0}
    BY <1>2, EmptySeq
  <2>2. Len(v) + 1 = Len(w) /\ 1 \in 1 .. (Len(w) - 1) /\ v[1] = w[1 + 1]
    BY <1>1, <1>2, <2>1
  <2>3. Follows(w[1], w[1 + 1])
    BY <2>2 DEF Line
  <2> QED BY <1>2, <2>1, <2>2, <2>3
<1>8. v # <<>> => LastPart(v[Len(v)]) /\ v[Len(v)].msg.n = k
  BY <1>7 DEF Line
<1>9. v = <<>> => Len(w) = 1
  BY <1>1, <1>2, EmptySeq
<1>10. ASSUME LastPart(w[1])
       PROVE  Line(v, d + 1, k) /\ (v # <<>> => v[1].part = 1)
  <2>1. ASSUME NEW i \in 1 .. Len(v)
        PROVE  IsPart(v[i]) /\ d + 1 < v[i].msg.n /\ v[i].msg.n <= k
    <3>1. v[i] = w[i + 1] /\ i + 1 \in 1 .. Len(w) /\ 1 < i + 1
      BY <1>2
    <3>2. IsPart(v[i]) /\ v[i].msg.n <= k /\ Before(w[1], v[i])
      BY <1>3, <3>1 DEF Line
    <3>3. FragmentCount(w[1].msg.size) \in Nat
      BY <1>3, <1>4, CountFacts
    <3>4. w[1].msg.n < v[i].msg.n
      BY <1>3, <1>4, <1>10, <3>1, <3>2, <3>3 DEF Before, LastPart
    <3> QED BY <1>3, <3>2, <3>4
  <2>2. v = <<>> => d + 1 = k
    BY <1>3, <1>9 DEF Line
  <2>3. v # <<>> => v[1].part = 1 /\ v[1].msg.n = (d + 1) + 1
    BY <1>3, <1>7, <1>10 DEF Follows
  <2> QED BY <1>2, <1>5, <1>6, <1>8, <2>1, <2>2, <2>3 DEF Line
<1>11. ASSUME ~LastPart(w[1])
       PROVE  /\ Line(v, d, k) /\ v # <<>>
              /\ v[1].msg = w[1].msg /\ v[1].part = w[1].part + 1
  <2>1. v # <<>>
    BY <1>9, <1>11 DEF Line
  <2>2. v[1].msg = w[1].msg /\ v[1].part = w[1].part + 1
    BY <1>7, <1>11, <2>1 DEF Follows
  <2>3. \A i \in 1 .. Len(v) : IsPart(v[i]) /\ d < v[i].msg.n /\ v[i].msg.n <= k
    BY <1>2 DEF Line
  <2> QED BY <1>2, <1>3, <1>5, <1>6, <1>8, <2>1, <2>2, <2>3 DEF Line
<1> QED BY <1>2, <1>3, <1>10, <1>11 DEF v

\* What is between the two ends has been sent and not taken.
LEMMA ChannelFacts ==
  ASSUME NEW w, NEW fr, NEW len, NEW rq, NEW tk, NEW k, Channel(w, fr, len, rq, tk, k)
  PROVE  /\ Len(tk) \in Nat /\ Len(rq) \in Nat /\ Len(tk) + Len(rq) <= k
         /\ \A m \in Between(w, fr, rq) :
              m \in Message /\ m.n \in Nat /\ Len(tk) < m.n /\ m.n <= k
<1>1. /\ Len(tk) \in Nat /\ Len(rq) \in Nat /\ Len(fr) \in Nat /\ k \in Nat
      /\ w \in Seq(Fragment) /\ Len(w) \in Nat
  BY LenProperties DEF Channel, Line, Held, Queued, Counted
<1> DEFINE d == Len(tk) + Len(rq)
<1>2. d \in Nat /\ Line(w, d, k)
  BY <1>1 DEF Channel
<1>3. ASSUME NEW i \in 1 .. Len(w)
      PROVE  w[i].msg \in Message /\ w[i].msg.n \in Nat /\ d < w[i].msg.n /\ w[i].msg.n <= k
  <2>1. w[i] \in Fragment
    BY <1>1, ElementOfSeq
  <2> QED BY <1>2, <2>1 DEF Line, Fragment, Message
<1>4. d <= k
  <2>1. CASE w = <<>>
    BY <1>1, <1>2, <2>1 DEF Line
  <2>2. CASE w # <<>>
    <3>1. 1 \in 1 .. Len(w)
      BY <1>1, <2>2, EmptySeq
    <3> HIDE DEF d
    <3> QED BY <1>1, <1>2, <1>3, <3>1
  <2> QED BY <2>1, <2>2
<1>5. ASSUME NEW i \in 1 .. Len(fr)
      PROVE  fr[i].msg \in Message /\ fr[i].msg.n \in Nat /\ d < fr[i].msg.n /\ fr[i].msg.n <= k
  <2>1. w # <<>>
    <3> SUFFICES ASSUME w = <<>> PROVE FALSE
      OBVIOUS
    <3>1. Len(fr) = 0
      BY EmptySeq DEF Channel, Held
    <3> QED BY <3>1
  <2>2. 1 \in 1 .. Len(w) /\ IsPart(w[1])
    BY <1>2, <2>1, LineTail, <1>1
  <2>3. w[1].msg \in Message
    BY <1>3, <2>2
  <2>4. fr[i] = Fragments(w[1].msg)[i] /\ i \in 1 .. FragmentCount(w[1].msg.size)
    <3>1. fr[i] = Fragments(w[1].msg)[i] /\ Len(fr) = w[1].part - 1
      BY <2>1 DEF Channel, Held
    <3>2. w[1].part \in 1 .. FragmentCount(w[1].msg.size)
      BY <2>2 DEF IsPart
    <3>3. FragmentCount(w[1].msg.size) \in Nat
      BY <2>3, CountFacts DEF Message
    <3> QED BY <1>1, <3>1, <3>2, <3>3
  <2>5. fr[i].msg = w[1].msg
    BY <2>3, <2>4, FragmentsFacts
  <2> QED BY <1>3, <2>2, <2>5
<1>6. ASSUME NEW i \in 1 .. Len(rq)
      PROVE  rq[i].msg \in Message /\ rq[i].msg.n = Len(tk) + i
  <2>1. rq[i] \in Received
    BY ElementOfSeq DEF Channel, Queued
  <2> QED BY <2>1 DEF Channel, Queued, Received
<1>7. ASSUME NEW m \in Between(w, fr, rq)
      PROVE  m \in Message /\ m.n \in Nat /\ Len(tk) < m.n /\ m.n <= k
  <2>1. ASSUME NEW i \in 1 .. Len(w), m = w[i].msg
        PROVE  m \in Message /\ m.n \in Nat /\ Len(tk) < m.n /\ m.n <= k
    BY <1>1, <1>3, <2>1
  <2>2. ASSUME NEW i \in 1 .. Len(fr), m = fr[i].msg
        PROVE  m \in Message /\ m.n \in Nat /\ Len(tk) < m.n /\ m.n <= k
    BY <1>1, <1>5, <2>2
  <2>3. ASSUME NEW i \in 1 .. Len(rq), m = rq[i].msg
        PROVE  m \in Message /\ m.n \in Nat /\ Len(tk) < m.n /\ m.n <= k
    BY <1>1, <1>4, <1>6, <2>3
  <2> QED BY <2>1, <2>2, <2>3 DEF Between, Messages
<1> QED BY <1>1, <1>4, <1>7

LEMMA ChannelSent ==
  ASSUME NEW w, NEW fr, NEW len, NEW rq, NEW tk, NEW k, Channel(w, fr, len, rq, tk, k),
         NEW m \in Message, m.n = k + 1,
         NEW u, u = Extended(w, m)
  PROVE  /\ Channel(u, fr, len, rq, tk, k + 1)
         /\ Between(u, fr, rq) = Between(w, fr, rq) \cup {m}
<1> DEFINE d == Len(tk) + Len(rq)
<1>1. Len(tk) \in Nat /\ Len(rq) \in Nat /\ d \in Nat /\ k \in Nat /\ Line(w, d, k)
  BY ChannelFacts DEF Channel
<1>2. /\ Line(u, d, k + 1) /\ u # <<>>
      /\ w # <<>> => u[1] = w[1]
      /\ w = <<>> => u[1].part = 1
      /\ Messages(u) = Messages(w) \cup {m}
  <2> HIDE DEF d
  <2>1. /\ Line(u, d, k + 1) /\ u # <<>>
    BY <1>1, LineExtended
  <2>2. /\ w # <<>> => u[1] = w[1]
        /\ w = <<>> => u[1].part = 1
    BY <1>1, LineExtended
  <2>3. Messages(u) = Messages(w) \cup {m}
    <3>1. w \in Seq(Fragment)
      BY <1>1 DEF Line
    <3> QED BY <3>1, MessageAdded
  <2> QED BY <2>1, <2>2, <2>3
<1>3. Held(u, fr, len)
  <2>1. CASE w # <<>>
    BY <1>2, <2>1 DEF Channel, Held
  <2>2. CASE w = <<>>
    <3>1. fr = <<>> /\ len = 0 /\ fr \in Seq(Fragment)
      BY <2>2 DEF Channel, Held
    <3>2. Len(fr) = 0 /\ u[1].part = 1 /\ (u[1].part - 1) * MaxFragmentLength = 0
      BY <1>2, <2>2, <3>1, EmptySeq, MessageAssumption
    <3> QED BY <1>2, <3>1, <3>2 DEF Held
  <2> QED BY <2>1, <2>2
<1>4. Channel(u, fr, len, rq, tk, k + 1)
  BY <1>1, <1>2, <1>3 DEF Channel
<1>5. Between(u, fr, rq) = Between(w, fr, rq) \cup {m}
  BY <1>2 DEF Between
<1> QED BY <1>4, <1>5

LEMMA ChannelTaken ==
  ASSUME NEW w, NEW fr, NEW len, NEW rq, NEW tk, NEW k, Channel(w, fr, len, rq, tk, k),
         rq # <<>>
  PROVE  LET m == Head(rq).msg
         IN  /\ Head(rq).whole /\ m \in Between(w, fr, rq) /\ m.n = Len(tk) + 1
             /\ Channel(w, fr, len, Tail(rq), Append(tk, m.n), k)
             /\ Between(w, fr, Tail(rq)) = Between(w, fr, rq) \ {m}
<1> DEFINE m == Head(rq).msg
           rt == Tail(rq)
           tt == Append(tk, m.n)
<1>1. /\ rq \in Seq(Received) /\ tk \in Seq(Nat) /\ k \in Nat
      /\ Len(tk) \in Nat /\ Len(rq) \in Nat \ {0}
  BY EmptySeq, LenProperties DEF Channel, Queued, Counted
<1>2. /\ rt \in Seq(Received) /\ Len(rt) = Len(rq) - 1
      /\ \A i \in 1 .. Len(rt) : rt[i] = rq[i + 1] /\ i + 1 \in 1 .. Len(rq)
      /\ Head(rq) = rq[1] /\ 1 \in 1 .. Len(rq)
  BY <1>1, HeadTailProperties
<1>3. Head(rq).whole /\ m.n = Len(tk) + 1
  BY <1>1, <1>2 DEF Channel, Queued
<1>4. m \in Between(w, fr, rq)
  BY <1>2 DEF Between, Messages
<1> HIDE DEF m, rt
<1>5. /\ tt \in Seq(Nat) /\ Len(tt) = Len(tk) + 1 /\ \A i \in 1 .. Len(tt) : tt[i] = i
  <2>1. m.n \in Nat
    BY <1>1, <1>3
  <2>2. /\ tt \in Seq(Nat) /\ Len(tt) = Len(tk) + 1
        /\ \A i \in 1 .. Len(tk) : tt[i] = tk[i]
        /\ tt[Len(tk) + 1] = m.n
    BY <1>1, <2>1, AppendProperties
  <2> QED BY <1>1, <1>3, <2>2 DEF Channel, Counted
<1> HIDE DEF tt
<1>6. Queued(rt, Len(tt))
  <2>1. ASSUME NEW i \in 1 .. Len(rt) PROVE rt[i].whole /\ rt[i].msg.n = Len(tt) + i
    <3>1. rt[i] = rq[i + 1] /\ i + 1 \in 1 .. Len(rq)
      BY <1>2
    <3>2. rt[i].whole /\ rt[i].msg.n = Len(tk) + (i + 1)
      BY <3>1 DEF Channel, Queued
    <3> QED BY <1>1, <1>5, <3>2
  <2> QED BY <1>2, <2>1 DEF Queued
<1>7. Len(tt) + Len(rt) = Len(tk) + Len(rq)
  BY <1>1, <1>2, <1>5
<1>8. Channel(w, fr, len, rt, tt, k)
  BY <1>1, <1>5, <1>6, <1>7 DEF Channel, Counted
<1>9. \A o \in Between(w, fr, rt) : o # m
  <2>1. \A o \in Between(w, fr, rt) : o.n \in Nat /\ Len(tt) < o.n
    BY <1>8, ChannelFacts
  <2> QED BY <1>1, <1>3, <1>5, <2>1
<1>10. ASSUME NEW i \in 1 .. Len(rq), rq[i].msg # m
       PROVE  rq[i].msg \in Messages(rt)
  <2>1. i # 1
    BY <1>2, <1>10 DEF m
  <2>2. i - 1 \in 1 .. Len(rt) /\ (i - 1) + 1 = i
    BY <1>1, <1>2, <2>1
  <2> QED BY <1>2, <2>2 DEF Messages
<1>11. \A i \in 1 .. Len(rt) : rt[i].msg \in Messages(rq)
  BY <1>2 DEF Messages
<1>12. Between(w, fr, rt) = Between(w, fr, rq) \ {m}
  BY <1>9, <1>10, <1>11 DEF Between, Messages
<1> QED BY <1>3, <1>4, <1>8, <1>12 DEF m, rt, tt

\* The receiver takes the parts of a message one by one, and has it with the last.
LEMMA ChannelPumped ==
  ASSUME NEW w, NEW fr, NEW len, NEW rq, NEW tk, NEW k, Channel(w, fr, len, rq, tk, k),
         w # <<>>
  PROVE  LET f == Head(w)
             length == len + f.length
             whole == Append(rq, Combined(Append(fr, f)))
         IN  /\ length \in Nat
             /\ Complete(length, f.total) =>
                  /\ Channel(Tail(w), <<>>, 0, whole, tk, k)
                  /\ Between(Tail(w), <<>>, whole) = Between(w, fr, rq)
             /\ ~Complete(length, f.total) =>
                  /\ Channel(Tail(w), Append(fr, f), length, rq, tk, k)
                  /\ Between(Tail(w), Append(fr, f), rq) = Between(w, fr, rq)
<1> DEFINE f == Head(w)
           m == w[1].msg
           n == FragmentCount(m.size)
           length == len + f.length
           v == Tail(w)
           fa == Append(fr, f)
           d == Len(tk) + Len(rq)
<1>1. /\ Len(tk) \in Nat /\ Len(rq) \in Nat /\ d \in Nat /\ k \in Nat /\ Line(w, d, k)
      /\ fr \in Seq(Fragment) /\ Len(fr) \in Nat /\ len \in Nat
      /\ w \in Seq(Fragment) /\ Len(w) \in Nat \ {0} /\ rq \in Seq(Received)
  BY ChannelFacts, LenProperties, EmptySeq DEF Channel, Held, Line, Queued
<1> HIDE DEF d
<1>2. /\ 1 \in 1 .. Len(w) /\ IsPart(w[1]) /\ m.n = d + 1 /\ v \in Seq(Fragment)
      /\ LastPart(w[1]) => Line(v, d + 1, k) /\ (v # <<>> => v[1].part = 1)
      /\ ~LastPart(w[1]) => Line(v, d, k) /\ v # <<>> /\ v[1].msg = m /\ v[1].part = w[1].part + 1
  BY <1>1, LineTail
<1>3. f = w[1] /\ f \in Fragment /\ m \in Message
  <2>1. f = w[1]
    BY <1>1, HeadTailProperties
  <2>2. w[1] \in Fragment
    BY <1>2 DEF IsPart
  <2>3. m \in Message
    BY <2>2 DEF Fragment
  <2> QED BY <2>1, <2>2, <2>3
<1>4. Len(v) = Len(w) - 1 /\ \A i \in 1 .. Len(v) : v[i] = w[i + 1]
  BY <1>1, HeadTailProperties
<1>5. /\ n \in Nat \ {0} /\ f.part \in 1 .. n /\ f = Fragments(m)[f.part]
      /\ m.size \in Nat \ {0} /\ (n - 1) * MaxFragmentLength < m.size
      /\ MaxFragmentLength \in Nat \ {0}
  <2>1. m.size \in Sizes
    BY <1>3 DEF Message
  <2>2. /\ n \in Nat \ {0} /\ m.size \in Nat \ {0}
        /\ (n - 1) * MaxFragmentLength < m.size
    BY <2>1, CountFacts
  <2>3. f.part \in 1 .. n /\ f = Fragments(m)[f.part]
    BY <1>2, <1>3 DEF IsPart
  <2>4. MaxFragmentLength \in Nat \ {0}
    BY MessageAssumption
  <2> QED BY <2>2, <2>3, <2>4
<1>6. /\ Len(fr) = f.part - 1 /\ len = (f.part - 1) * MaxFragmentLength
      /\ \A i \in 1 .. Len(fr) : fr[i] = Fragments(m)[i]
  BY <1>3 DEF Channel, Held
<1>7. /\ Fragments(m) \in Seq(Fragment) /\ Len(Fragments(m)) = n
      /\ f.total = m.size /\ f.msg = m
      /\ f.part < n => f.length = MaxFragmentLength
      /\ f.part = n => f.length = m.size - (n - 1) * MaxFragmentLength
  <2> HIDE DEF m, f
  <2>1. f = Fragments(m)[f.part] /\ f.part \in 1 .. FragmentCount(m.size)
    BY <1>5
  <2> QED BY <1>3, <1>5, <2>1, FragmentsFacts
<1>8. LastPart(w[1]) <=> f.part = n
  BY <1>3 DEF LastPart
<1> HIDE DEF v, n, m, f
<1>0. n \in Nat \ {0} /\ f.part \in 1 .. n /\ Len(fr) \in Nat /\ Len(fr) + 1 = f.part
  <2>1. n \in Nat \ {0} /\ f.part \in 1 .. n
    BY <1>5
  <2>2. Len(fr) \in Nat
    BY <1>1
  <2>3. Len(fr) = f.part - 1
    BY <1>6
  <2> QED BY <2>1, <2>2, <2>3
<1>9. /\ length \in Nat
      /\ f.part < n => length = f.part * MaxFragmentLength /\ length < m.size
      /\ f.part = n => length = m.size
  <2>1. length \in Nat
    <3>1. f.length \in Nat
      BY <1>3 DEF Fragment
    <3> QED BY <1>1, <3>1
  <2>2. CASE f.part < n
    <3>1. length = (f.part - 1) * MaxFragmentLength + MaxFragmentLength
      BY <1>6, <1>7, <2>2
    <3>2. (f.part - 1) * MaxFragmentLength + MaxFragmentLength = f.part * MaxFragmentLength
      BY <1>5
    <3>3. f.part * MaxFragmentLength <= (n - 1) * MaxFragmentLength
      <4>1. f.part <= n - 1
        BY <1>5, <2>2
      <4> QED BY <1>5, <4>1
    <3>4. (n - 1) * MaxFragmentLength \in Int /\ f.part * MaxFragmentLength \in Int
      BY <1>5
    <3> QED BY <1>5, <2>1, <2>2, <3>1, <3>2, <3>3, <3>4
  <2>3. CASE f.part = n
    <3>1. (n - 1) * MaxFragmentLength \in Int
      BY <1>5
    <3> QED BY <1>5, <1>6, <1>7, <2>1, <2>3, <3>1
  <2> QED BY <1>5, <2>1, <2>2, <2>3
<1> HIDE DEF length
<1>10. Complete(length, f.total) <=> f.part = n
  <2>1. f.part < n \/ f.part = n
    BY <1>5
  <2>2. CASE f.part < n
    <3>1. length < f.total /\ f.total \in Nat
      BY <1>5, <1>7, <1>9, <2>2
    <3> QED BY <1>5, <1>9, <2>2, <3>1 DEF Complete
  <2>3. CASE f.part = n
    <3>1. length = f.total /\ f.total \in Nat
      BY <1>5, <1>7, <1>9, <2>3
    <3> QED BY <2>3, <3>1 DEF Complete
  <2> QED BY <2>1, <2>2, <2>3
<1>11. /\ fa \in Seq(Fragment) /\ Len(fa) = f.part
       /\ \A i \in 1 .. Len(fr) : fa[i] = fr[i]
       /\ fa[Len(fr) + 1] = f
  <2>1. fr \in Seq(Fragment) /\ f \in Fragment
    BY <1>1, <1>3
  <2>2. /\ fa \in Seq(Fragment) /\ Len(fa) = Len(fr) + 1
        /\ \A i \in 1 .. Len(fr) : fa[i] = fr[i]
        /\ fa[Len(fr) + 1] = f
    BY <2>1, AppendProperties
  <2> QED BY <1>0, <2>2
<1> HIDE DEF fa
<1>12. \A i \in 1 .. Len(fa) : fa[i] = Fragments(m)[i]
  <2>1. ASSUME NEW i \in 1 .. Len(fa) PROVE fa[i] = Fragments(m)[i]
    <3>1. i \in 1 .. Len(fr) \/ (i = f.part /\ i = Len(fr) + 1)
      <4>1. i \in 1 .. f.part
        BY <1>11
      <4> QED BY <1>0, <4>1
    <3>2. CASE i \in 1 .. Len(fr)
      BY <1>6, <1>11, <3>2
    <3>3. CASE i = f.part /\ i = Len(fr) + 1
      BY <1>5, <1>11, <3>3
    <3> QED BY <3>1, <3>2, <3>3
  <2> QED BY <2>1
<1>13. \A i \in 1 .. Len(fr) : fr[i].msg = m
  <2>1. ASSUME NEW i \in 1 .. Len(fr) PROVE fr[i].msg = m
    <3>1. i \in 1 .. n /\ fr[i] = Fragments(m)[i]
      BY <1>0, <1>6
    <3> QED BY <1>3, <3>1, FragmentsFacts DEF n
  <2> QED BY <2>1
<1>14. Messages(w) = {m} \cup Messages(v)
  <2>1. ASSUME NEW i \in 1 .. Len(w)
        PROVE  w[i].msg = m \/ w[i].msg \in Messages(v)
    <3>1. CASE i = 1
      BY <3>1 DEF m
    <3>2. CASE i # 1
      <4>1. i - 1 \in 1 .. Len(v) /\ (i - 1) + 1 = i
        BY <1>1, <1>4, <3>2
      <4> QED BY <1>4, <4>1 DEF Messages
    <3> QED BY <3>1, <3>2
  <2>2. ASSUME NEW i \in 1 .. Len(v) PROVE v[i].msg \in Messages(w)
    <3>1. i + 1 \in 1 .. Len(w) /\ v[i] = w[i + 1]
      BY <1>1, <1>4
    <3> QED BY <3>1 DEF Messages
  <2>3. m \in Messages(w)
    BY <1>2 DEF m, Messages
  <2> QED BY <2>1, <2>2, <2>3 DEF Messages
<1>15. CASE f.part = n
  <2> DEFINE c == Combined(fa)
             rw == Append(rq, c)
  <2>1. fa = Fragments(m)
    BY <1>7, <1>11, <1>12, <1>15, SeqEqual
  <2>2. fa[1].msg = m
    <3>1. 1 \in 1 .. n
      BY <1>5
    <3> QED BY <1>3, <2>1, <3>1, FragmentsFacts DEF n
  <2>3. c = [msg |-> m, whole |-> TRUE] /\ c \in Received
    BY <1>3, <2>1, <2>2 DEF Combined, Received
  <2> HIDE DEF c
  <2>4. /\ rw \in Seq(Received) /\ Len(rw) = Len(rq) + 1
        /\ \A i \in 1 .. Len(rq) : rw[i] = rq[i]
        /\ rw[Len(rq) + 1] = c
    BY <1>1, <2>3, AppendProperties
  <2> HIDE DEF rw
  <2>5. Queued(rw, Len(tk))
    <3>1. ASSUME NEW i \in 1 .. Len(rw) PROVE rw[i].whole /\ rw[i].msg.n = Len(tk) + i
      <4>1. CASE i \in 1 .. Len(rq)
        BY <2>4, <4>1 DEF Channel, Queued
      <4>2. CASE i = Len(rq) + 1
        BY <1>1, <1>2, <2>3, <2>4, <4>2 DEF m, d
      <4> QED BY <1>1, <2>4, <4>1, <4>2
    <3> QED BY <2>4, <3>1 DEF Queued
  <2>6. Line(v, Len(tk) + Len(rw), k) /\ (v # <<>> => v[1].part = 1)
    <3>1. Len(tk) + Len(rw) = d + 1
      BY <1>1, <2>4 DEF d
    <3> QED BY <1>2, <1>8, <1>15, <3>1
  <2>7. Held(v, <<>>, 0)
    <3>1. <<>> \in Seq(Fragment) /\ Len(<<>>) = 0
      BY EmptySeq
    <3>2. v # <<>> => v[1].part - 1 = 0 /\ (v[1].part - 1) * MaxFragmentLength = 0
      BY <1>5, <2>6
    <3> QED BY <3>1, <3>2 DEF Held
  <2>8. Channel(v, <<>>, 0, rw, tk, k)
    BY <1>1, <2>5, <2>6, <2>7 DEF Channel
  <2>9. Messages(rw) = Messages(rq) \cup {m}
    <3>1. c.msg = m
      BY <2>3
    <3>2. ASSUME NEW i \in 1 .. Len(rw)
          PROVE  rw[i].msg = m \/ rw[i].msg \in Messages(rq)
      <4>1. i \in 1 .. Len(rq) \/ i = Len(rq) + 1
        BY <1>1, <2>4
      <4> QED BY <2>4, <3>1, <4>1 DEF Messages
    <3>3. ASSUME NEW i \in 1 .. Len(rq) PROVE rq[i].msg \in Messages(rw)
      <4>1. i \in 1 .. Len(rw) /\ rw[i] = rq[i]
        BY <1>1, <2>4
      <4> QED BY <4>1 DEF Messages
    <3>4. m \in Messages(rw)
      <4>1. Len(rq) + 1 \in 1 .. Len(rw)
        BY <1>1, <2>4
      <4> QED BY <2>4, <3>1, <4>1 DEF Messages
    <3> QED BY <3>2, <3>3, <3>4 DEF Messages
  <2>10. Messages(<<>>) = {}
    BY EmptySeq DEF Messages
  <2>11. Between(v, <<>>, rw) = Between(w, fr, rq)
    BY <1>13, <1>14, <2>9, <2>10 DEF Between, Messages
  <2> QED BY <1>9, <1>10, <1>15, <2>8, <2>11 DEF f, length, fa, v, c, rw
<1>16. CASE f.part # n
  <2>1. f.part < n /\ ~LastPart(w[1])
    BY <1>5, <1>8, <1>16
  <2>2. Held(v, fa, length)
    <3>1. v # <<>> /\ v[1].msg = m /\ v[1].part = f.part + 1
      BY <1>2, <1>3, <2>1
    <3>2. Len(fa) = v[1].part - 1 /\ length = (v[1].part - 1) * MaxFragmentLength
      BY <1>5, <1>9, <1>11, <2>1, <3>1
    <3> QED BY <1>9, <1>11, <1>12, <3>1, <3>2 DEF Held
  <2>3. Channel(v, fa, length, rq, tk, k)
    BY <1>2, <2>1, <2>2 DEF Channel, d
  <2>4. Messages(fa) = {m}
    <3>1. \A i \in 1 .. Len(fa) : fa[i].msg = m
      <4>1. Len(fa) = Len(fr) + 1
        BY <1>0, <1>11
      <4>2. \A i \in 1 .. Len(fa) : i \in 1 .. Len(fr) \/ i = Len(fr) + 1
        BY <1>0, <4>1
      <4>3. f.msg = m
        BY <1>7
      <4> QED BY <1>11, <1>13, <4>2, <4>3
    <3>2. f.part \in 1 .. Len(fa)
      <4>1. Len(fa) = f.part
        BY <1>11
      <4> QED BY <1>0, <4>1
    <3> QED BY <3>1, <3>2 DEF Messages
  <2>5. Between(v, fa, rq) = Between(w, fr, rq)
    BY <1>13, <1>14, <2>4 DEF Between, Messages
  <2> QED BY <1>9, <1>10, <1>16, <2>3, <2>5 DEF f, length, fa, v
<1> QED BY <1>15, <1>16

-----------------------------------------------------------------------------
(* The inductive invariant *)

\* From p to the other end.
Way(p) ==
  Channel(wire[p], fragments[Other(p)], receivedLength[Other(p)],
          receiveQueue[Other(p)], taken[p], sent[p])

Channels == \A p \in Peers : Way(p)

\* A request carries its number among the client's messages, from 0.
Requests ==
  /\ counter[Client] = sent[Client]
  /\ \A m \in Underway(Server) : m.kind \in Answered \cup OneWay /\ m.index = m.n - 1

\* A reply carries the number of a request, and no two carry the same.
Replies ==
  \A m \in Underway(Client) :
    /\ m.kind \in Pushes \cup {"reply"}
    /\ m.kind = "bell" => Contains(pushes, "bell")
    /\ m.kind = "reply" =>
         /\ m.index \in 0 .. (counter[Client] - 1)
         /\ \A o \in Underway(Client) : o.kind = "reply" /\ o.index = m.index => o = m

\* Until its login is over the session has one request outstanding at most: the
\* one it awaits.
OneAtATime ==
  /\ phase < Idle => outstanding[Client] \subseteq awaiting
  /\ phase = Idle => awaiting = {}

IInv ==
  /\ TypeOK /\ Channels /\ Requests /\ Replies /\ OneAtATime
  /\ OutstandingAccounted /\ OnlyPushesFail

LEMMA UnderwayIs ==
  \A p \in Peers :
    /\ Underway(Other(p)) = Between(wire[p], fragments[Other(p)], receiveQueue[Other(p)])
    /\ Underway(Other(p))' =
         Between(wire'[p], fragments'[Other(p)], receiveQueue'[Other(p)])
BY PeersFacts DEF Underway, Between

LEMMA WayTypes ==
  ASSUME NEW w, NEW fr, NEW len, NEW rq, NEW tk, NEW k, Channel(w, fr, len, rq, tk, k)
  PROVE  /\ w \in Seq(Fragment) /\ fr \in Seq(Fragment) /\ len \in Nat
         /\ rq \in Seq(Received) /\ tk \in Seq(Nat) /\ k \in Nat
BY DEF Channel, Line, Held, Queued, Counted

\* What is underway to an end has been sent by the other.
LEMMA UnderwayFacts ==
  ASSUME Channels, NEW p \in Peers
  PROVE  \A m \in Underway(Other(p)) :
           m \in Message /\ m.n \in Nat /\ Len(taken[p]) < m.n /\ m.n <= sent[p]
<1>1. Way(p)
  BY DEF Channels
<1>2. Underway(Other(p)) = Between(wire[p], fragments[Other(p)], receiveQueue[Other(p)])
  BY UnderwayIs
<1> QED BY <1>1, <1>2, ChannelFacts DEF Way

LEMMA IndicesMember ==
  ASSUME NEW S, NEW K, NEW i \in Indices(S, K)
  PROVE  \E m \in S : m.kind \in K /\ m.index = i
BY DEF Indices

LEMMA IndicesHas ==
  ASSUME NEW S, NEW K, NEW m \in S, m.kind \in K
  PROVE  m.index \in Indices(S, K)
BY DEF Indices

LEMMA IndicesAdded ==
  ASSUME NEW S, NEW K, NEW m
  PROVE  /\ m.kind \in K => Indices(S \cup {m}, K) = Indices(S, K) \cup {m.index}
         /\ m.kind \notin K => Indices(S \cup {m}, K) = Indices(S, K)
BY DEF Indices

LEMMA IndicesRemoved ==
  ASSUME NEW S, NEW K, NEW m \in S,
         \A o \in S : o.kind \in K /\ m.kind \in K /\ o.index = m.index => o = m
  PROVE  /\ m.kind \in K => Indices(S \ {m}, K) = Indices(S, K) \ {m.index}
         /\ m.kind \notin K => Indices(S \ {m}, K) = Indices(S, K)
BY DEF Indices

-----------------------------------------------------------------------------
(* What Queue adds *)

Numbered(h, size, n) == [kind |-> h.kind, index |-> h.index, size |-> size, n |-> n]

Header == [kind : Kinds, index : Int]

LEMMA NumberedFacts ==
  ASSUME NEW h \in Header, NEW size \in Sizes, NEW n \in Nat
  PROVE  /\ Numbered(h, size, n) \in Message /\ Numbered(h, size, n).n = n
         /\ Numbered(h, size, n).kind = h.kind /\ Numbered(h, size, n).index = h.index
BY DEF Numbered, Header, Message

LEMMA QueueNone ==
  ASSUME TypeOK, NEW p \in Peers, NEW size \in Sizes, Queue(p, <<>>, size)
  PROVE  wire' = wire /\ sent' = sent
<1>1. Piece(p, <<>>, 1, size) = <<>> /\ Piece(p, <<>>, 2, size) = <<>>
  BY DEF Piece
<1>2. wire[p] \in Seq(Fragment) /\ wire[p] \o <<>> = wire[p] /\ sent[p] + Len(<<>>) = sent[p]
  BY ConcatEmptySeq, EmptySeq DEF TypeOK
<1>3. wire' = [wire EXCEPT ![p] = wire[p]]
  BY <1>1, <1>2 DEF Queue
<1>4. sent' = [sent EXCEPT ![p] = sent[p]]
  BY <1>2 DEF Queue
<1> QED BY <1>3, <1>4 DEF TypeOK

LEMMA QueueOne ==
  ASSUME TypeOK, NEW p \in Peers, NEW size \in Sizes, NEW h \in Header,
         Queue(p, <<h>>, size)
  PROVE  /\ wire' = [wire EXCEPT ![p] = Extended(wire[p], Numbered(h, size, sent[p] + 1))]
         /\ sent' = [sent EXCEPT ![p] = sent[p] + 1]
<1> DEFINE m == Numbered(h, size, sent[p] + 1)
<1>1. Piece(p, <<h>>, 1, size) = Fragments(m) /\ Piece(p, <<h>>, 2, size) = <<>>
  BY DEF Piece, Numbered
<1>2. wire[p] \in Seq(Fragment) /\ Fragments(m) \in Seq(Fragment)
  BY PartsFacts, NumberedFacts DEF TypeOK
<1> HIDE DEF m
<1>3. wire[p] \o Fragments(m) \in Seq(Fragment)
  BY <1>2, ConcatProperties
<1>4. (wire[p] \o Fragments(m)) \o <<>> = Extended(wire[p], m)
  BY <1>3, ConcatEmptySeq DEF Extended
<1>5. wire' = [wire EXCEPT ![p] = Extended(wire[p], m)]
  BY <1>1, <1>4 DEF Queue
<1>6. sent' = [sent EXCEPT ![p] = sent[p] + 1]
  BY DEF Queue
<1> QED BY <1>5, <1>6 DEF m

LEMMA QueueTwo ==
  ASSUME TypeOK, NEW p \in Peers, NEW size \in Sizes, NEW h \in Header, NEW g \in Header,
         Queue(p, <<h, g>>, size)
  PROVE  /\ wire' = [wire EXCEPT ![p] =
                       Extended(Extended(wire[p], Numbered(h, size, sent[p] + 1)),
                                Numbered(g, size, sent[p] + 2))]
         /\ sent' = [sent EXCEPT ![p] = sent[p] + 2]
<1> DEFINE m == Numbered(h, size, sent[p] + 1)
           o == Numbered(g, size, sent[p] + 2)
<1>1. Piece(p, <<h, g>>, 1, size) = Fragments(m) /\ Piece(p, <<h, g>>, 2, size) = Fragments(o)
  BY DEF Piece, Numbered
<1> HIDE DEF m, o
<1>2. wire' = [wire EXCEPT ![p] = Extended(Extended(wire[p], m), o)]
  BY <1>1 DEF Queue, Extended
<1>3. sent' = [sent EXCEPT ![p] = sent[p] + 2]
  BY DEF Queue
<1> QED BY <1>2, <1>3 DEF m, o

LEMMA WaySent ==
  ASSUME Channels, NEW p \in Peers, NEW m \in Message, m.n = sent[p] + 1,
         NEW w, w = Extended(wire[p], m)
  PROVE  LET q == Other(p)
         IN  /\ Channel(w, fragments[q], receivedLength[q], receiveQueue[q], taken[p],
                        sent[p] + 1)
             /\ Between(w, fragments[q], receiveQueue[q]) = Underway(q) \cup {m}
<1>1. Channel(wire[p], fragments[Other(p)], receivedLength[Other(p)],
              receiveQueue[Other(p)], taken[p], sent[p])
  BY DEF Channels, Way
<1>2. Underway(Other(p)) = Between(wire[p], fragments[Other(p)], receiveQueue[Other(p)])
  BY UnderwayIs
<1> QED BY <1>1, <1>2, ChannelSent

LEMMA WaySentTwo ==
  ASSUME Channels, NEW p \in Peers, NEW m \in Message, m.n = sent[p] + 1,
         NEW o \in Message, o.n = sent[p] + 2,
         NEW w, w = Extended(Extended(wire[p], m), o)
  PROVE  LET q == Other(p)
         IN  /\ Channel(w, fragments[q], receivedLength[q], receiveQueue[q], taken[p],
                        sent[p] + 2)
             /\ Between(w, fragments[q], receiveQueue[q]) = Underway(q) \cup {m} \cup {o}
<1> DEFINE q == Other(p)
           u == Extended(wire[p], m)
<1>1. /\ Channel(u, fragments[q], receivedLength[q], receiveQueue[q], taken[p], sent[p] + 1)
      /\ Between(u, fragments[q], receiveQueue[q]) = Underway(q) \cup {m}
  BY WaySent
<1>2. sent[p] \in Nat /\ (sent[p] + 1) + 1 = sent[p] + 2
  <2>1. Way(p)
    BY DEF Channels
  <2>2. sent[p] \in Nat
    BY <2>1, WayTypes DEF Way
  <2> QED BY <2>2
<1> HIDE DEF u, q
<1>3. w = Extended(u, o)
  BY DEF u
<1>4. o.n = (sent[p] + 1) + 1
  BY <1>2
<1>5. /\ Channel(w, fragments[q], receivedLength[q], receiveQueue[q], taken[p],
                 (sent[p] + 1) + 1)
      /\ Between(w, fragments[q], receiveQueue[q])
           = Between(u, fragments[q], receiveQueue[q]) \cup {o}
  BY <1>1, <1>3, <1>4, ChannelSent
<1> QED BY <1>1, <1>2, <1>5 DEF q

-----------------------------------------------------------------------------
(* The steps *)

LEMMA InitInv ==
  ASSUME Init
  PROVE  IInv
<1>1. \A S : <<>> \in Seq(S) /\ Len(<<>>) = 0
  BY EmptySeq
<1>2. TypeOK
  <2>1. Cardinality(awaiting) = 0
    BY FS_EmptySet DEF Init
  <2>2. phase \in 1 .. Idle
    BY MessageAssumption DEF Init, Idle
  <2>3. pushes \in Seq(Pushes) /\ Len(pushes) <= PushLimit
    BY <1>1, MessageAssumption DEF Init
  <2> QED BY <1>1, <2>1, <2>2, <2>3, PeersFacts DEF Init, TypeOK
<1>3. Channels
  <2> SUFFICES ASSUME NEW p \in Peers PROVE Way(p)
    BY DEF Channels
  <2>1. Other(p) \in Peers
    BY PeersFacts
  <2>2. /\ wire[p] = <<>> /\ fragments[Other(p)] = <<>> /\ receivedLength[Other(p)] = 0
        /\ receiveQueue[Other(p)] = <<>> /\ taken[p] = <<>> /\ sent[p] = 0
    BY <2>1 DEF Init
  <2>3. Line(<<>>, 0, 0) /\ Held(<<>>, <<>>, 0) /\ Queued(<<>>, 0) /\ Counted(<<>>)
    BY <1>1 DEF Line, Held, Queued, Counted
  <2>4. Len(<<>>) + Len(<<>>) = 0
    BY <1>1
  <2>5. Channel(<<>>, <<>>, 0, <<>>, <<>>, 0)
    BY <1>1, <2>3, <2>4 DEF Channel
  <2> QED BY <2>2, <2>5 DEF Way
<1>4. Underway(Client) = {} /\ Underway(Server) = {}
  BY <1>1, PeersFacts DEF Init, Underway, Messages
<1>5. Asked = {} /\ Replied = {}
  BY <1>4 DEF Asked, Replied, Indices
<1> QED
  BY <1>2, <1>3, <1>4, <1>5, PeersFacts, MessageAssumption
  DEF IInv, Init, Requests, Replies, OneAtATime, OutstandingAccounted, OnlyPushesFail, Idle

\* A step that leaves what is underway, and what is outstanding, as it was.
LEMMA KeptInv ==
  ASSUME IInv, TypeOK', Channels', OneAtATime',
         Underway(Client)' = Underway(Client), Underway(Server)' = Underway(Server),
         UNCHANGED <<outstanding, counter, inErrorState, sent, pushes, unanswered>>
  PROVE  IInv'
<1>1. Asked' = Asked /\ Replied' = Replied
  BY DEF Asked, Replied
<1>2. OutstandingAccounted'
  BY <1>1 DEF IInv, OutstandingAccounted
<1>3. OnlyPushesFail'
  BY DEF IInv, OnlyPushesFail
<1>4. Requests'
  BY DEF IInv, Requests
<1>5. Replies'
  BY DEF IInv, Replies
<1> QED BY <1>2, <1>3, <1>4, <1>5 DEF IInv

LEMMA PumpStep ==
  ASSUME IInv, NEW p \in Peers, Pump(p)
  PROVE  IInv'
<1> DEFINE q == Other(p)
           f == Head(wire[q])
           length == receivedLength[p] + f.length
           combined == Append(receiveQueue[p], Combined(Append(fragments[p], f)))
<1>1. TypeOK /\ Channels
  BY DEF IInv
<1>2. q \in Peers /\ q # p /\ Other(q) = p /\ \A r \in Peers : r = p \/ r = q
  BY PeersFacts
<1>3. /\ Channel(wire[q], fragments[p], receivedLength[p], receiveQueue[p], taken[q], sent[q])
      /\ Channel(wire[p], fragments[q], receivedLength[q], receiveQueue[q], taken[p], sent[p])
  BY <1>1, <1>2 DEF Channels, Way
<1>4. wire[q] # <<>>
  BY DEF Pump
<1>5. /\ length \in Nat
      /\ Complete(length, f.total) =>
           /\ Channel(Tail(wire[q]), <<>>, 0, combined, taken[q], sent[q])
           /\ Between(Tail(wire[q]), <<>>, combined)
                = Between(wire[q], fragments[p], receiveQueue[p])
      /\ ~Complete(length, f.total) =>
           /\ Channel(Tail(wire[q]), Append(fragments[p], f), length, receiveQueue[p],
                      taken[q], sent[q])
           /\ Between(Tail(wire[q]), Append(fragments[p], f), receiveQueue[p])
                = Between(wire[q], fragments[p], receiveQueue[p])
  BY <1>3, <1>4, ChannelPumped
<1>6. /\ wire' = [wire EXCEPT ![q] = Tail(wire[q])]
      /\ IF Complete(length, f.total)
           THEN /\ fragments' = [fragments EXCEPT ![p] = <<>>]
                /\ receivedLength' = [receivedLength EXCEPT ![p] = 0]
                /\ receiveQueue' = [receiveQueue EXCEPT ![p] = combined]
           ELSE /\ fragments' = [fragments EXCEPT ![p] = Append(fragments[p], f)]
                /\ receivedLength' = [receivedLength EXCEPT ![p] = length]
                /\ receiveQueue' = receiveQueue
      /\ UNCHANGED <<outstanding, counter, inErrorState, phase, awaiting, sent, taken,
                     pushes, unanswered>>
  BY DEF Pump
<1> HIDE DEF combined, length, f
<1>7. /\ wire \in [Peers -> Seq(Fragment)] /\ fragments \in [Peers -> Seq(Fragment)]
      /\ receivedLength \in [Peers -> Nat] /\ receiveQueue \in [Peers -> Seq(Received)]
  BY <1>1 DEF TypeOK
<1>8. /\ wire'[q] = Tail(wire[q]) /\ wire'[p] = wire[p]
      /\ fragments'[q] = fragments[q] /\ receivedLength'[q] = receivedLength[q]
      /\ receiveQueue'[q] = receiveQueue[q]
      /\ Complete(length, f.total) =>
           fragments'[p] = <<>> /\ receivedLength'[p] = 0 /\ receiveQueue'[p] = combined
      /\ ~Complete(length, f.total) =>
           /\ fragments'[p] = Append(fragments[p], f) /\ receivedLength'[p] = length
           /\ receiveQueue'[p] = receiveQueue[p]
  BY <1>2, <1>6, <1>7
<1>9. /\ Channel(wire'[q], fragments'[p], receivedLength'[p], receiveQueue'[p], taken[q], sent[q])
      /\ Between(wire'[q], fragments'[p], receiveQueue'[p])
           = Between(wire[q], fragments[p], receiveQueue[p])
  BY <1>5, <1>8
<1>10. Channels'
  <2>1. Way(q)'
    BY <1>2, <1>6, <1>9 DEF Way
  <2>2. Way(p)'
    BY <1>2, <1>3, <1>6, <1>8 DEF Way
  <2> QED BY <1>2, <2>1, <2>2 DEF Channels
<1>11. Underway(p)' = Underway(p) /\ Underway(q)' = Underway(q)
  <2>1. Underway(p) = Between(wire[q], fragments[p], receiveQueue[p])
    BY <1>2, UnderwayIs
  <2>2. Underway(p)' = Between(wire'[q], fragments'[p], receiveQueue'[p])
    BY <1>2, UnderwayIs
  <2>3. Underway(q) = Between(wire[p], fragments[q], receiveQueue[q])
    BY UnderwayIs
  <2>4. Underway(q)' = Between(wire'[p], fragments'[q], receiveQueue'[q])
    BY UnderwayIs
  <2> QED BY <1>8, <1>9, <2>1, <2>2, <2>3, <2>4
<1>12. TypeOK'
  <2>1. /\ wire'[q] \in Seq(Fragment) /\ fragments'[p] \in Seq(Fragment)
        /\ receivedLength'[p] \in Nat /\ receiveQueue'[p] \in Seq(Received)
    BY <1>9, WayTypes
  <2>2. wire' \in [Peers -> Seq(Fragment)]
    BY <1>6, <1>7, <1>8, <2>1
  <2>3. /\ fragments' \in [Peers -> Seq(Fragment)] /\ receivedLength' \in [Peers -> Nat]
        /\ receiveQueue' \in [Peers -> Seq(Received)]
    <3>1. CASE Complete(length, f.total)
      BY <1>6, <1>7, <1>8, <2>1, <3>1
    <3>2. CASE ~Complete(length, f.total)
      BY <1>6, <1>7, <1>8, <2>1, <3>2
    <3> QED BY <3>1, <3>2
  <2> QED BY <1>1, <1>6, <2>2, <2>3 DEF TypeOK
<1>13. Underway(Client)' = Underway(Client) /\ Underway(Server)' = Underway(Server)
  <2>1. (p = Client /\ q = Server) \/ (p = Server /\ q = Client)
    BY PeersFacts DEF Peers
  <2> QED BY <1>11, <2>1
<1>14. OneAtATime'
  BY <1>6 DEF IInv, OneAtATime
<1> QED BY <1>6, <1>10, <1>12, <1>13, <1>14, KeptInv

LEMMA RequestStep ==
  ASSUME IInv, NEW kind \in Answered \cup OneWay, NEW size \in Sizes, Request(kind, size),
         UNCHANGED <<streamVars, inErrorState, phase, taken, pushes, unanswered>>,
         awaiting' \subseteq 0 .. counter[Client], Cardinality(awaiting') <= 1, OneAtATime'
  PROVE  IInv'
<1> DEFINE c == counter[Client]
           h == [kind |-> kind, index |-> c]
           m == Numbered(h, size, sent[Client] + 1)
           w == Extended(wire[Client], m)
<1>1. TypeOK /\ Channels /\ Requests /\ Replies /\ OutstandingAccounted /\ OnlyPushesFail
  BY DEF IInv
<1>2. Client \in Peers /\ Server \in Peers /\ Other(Client) = Server /\ Other(Server) = Client
      /\ Client # Server /\ \A p \in Peers : p = Client \/ p = Server
  BY PeersFacts DEF Peers
<1>3. /\ c \in Nat /\ c = sent[Client] /\ sent[Client] \in Nat
      /\ wire \in [Peers -> Seq(Fragment)] /\ sent \in [Peers -> Nat]
      /\ counter \in [Peers -> Nat] /\ outstanding \in [Peers -> SUBSET Nat]
  BY <1>1, <1>2 DEF TypeOK, Requests
<1>4. h \in Header
  BY <1>3 DEF Header, Kinds
<1>5. m \in Message /\ m.n = sent[Client] + 1 /\ m.kind = kind /\ m.index = c
  BY <1>3, <1>4, NumberedFacts
<1>6. /\ wire' = [wire EXCEPT ![Client] = w]
      /\ sent' = [sent EXCEPT ![Client] = sent[Client] + 1]
  BY <1>1, <1>2, <1>4, QueueOne DEF Request
<1>7. /\ counter' = [counter EXCEPT ![Client] = c + 1]
      /\ outstanding' = [outstanding EXCEPT ![Client] =
           IF kind \in Answered THEN outstanding[Client] \cup {c} ELSE outstanding[Client]]
  BY DEF Request
<1>8. UNCHANGED <<fragments, receivedLength, receiveQueue, inErrorState, phase, taken, pushes,
                  unanswered>>
  BY DEF streamVars
<1> HIDE DEF h, m
<1>9. /\ Channel(w, fragments[Server], receivedLength[Server], receiveQueue[Server],
                 taken[Client], sent[Client] + 1)
      /\ Between(w, fragments[Server], receiveQueue[Server]) = Underway(Server) \cup {m}
  BY <1>1, <1>2, <1>5, WaySent
<1> HIDE DEF w, c
<1>10. /\ wire'[Client] = w /\ wire'[Server] = wire[Server]
       /\ sent'[Client] = sent[Client] + 1 /\ sent'[Server] = sent[Server]
       /\ counter'[Client] = c + 1 /\ counter'[Server] = counter[Server]
       /\ outstanding'[Server] = outstanding[Server]
       /\ kind \in Answered => outstanding'[Client] = outstanding[Client] \cup {c}
       /\ kind \notin Answered => outstanding'[Client] = outstanding[Client]
  BY <1>2, <1>3, <1>6, <1>7
<1>11. Channels'
  <2>1. Way(Client)'
    BY <1>2, <1>8, <1>9, <1>10 DEF Way
  <2>2. Way(Server)'
    <3>1. Way(Server)
      BY <1>1, <1>2 DEF Channels
    <3> QED BY <1>2, <1>8, <1>10, <3>1 DEF Way
  <2> QED BY <1>2, <2>1, <2>2 DEF Channels
<1>12. Underway(Server)' = Underway(Server) \cup {m} /\ Underway(Client)' = Underway(Client)
  <2>1. Underway(Server)' = Between(wire'[Client], fragments'[Server], receiveQueue'[Server])
    BY <1>2, UnderwayIs
  <2>2. /\ Underway(Client)' = Between(wire'[Server], fragments'[Client], receiveQueue'[Client])
        /\ Underway(Client) = Between(wire[Server], fragments[Client], receiveQueue[Client])
    BY <1>2, UnderwayIs
  <2> QED BY <1>8, <1>9, <1>10, <2>1, <2>2
<1>13. TypeOK'
  <2>1. w \in Seq(Fragment)
    BY <1>9, WayTypes
  <2>2. wire' \in [Peers -> Seq(Fragment)] /\ sent' \in [Peers -> Nat]
        /\ counter' \in [Peers -> Nat] /\ outstanding' \in [Peers -> SUBSET Nat]
    BY <1>2, <1>3, <1>6, <1>7, <2>1 DEF c
  <2>3. awaiting' \subseteq 0 .. (counter'[Client] - 1) /\ Cardinality(awaiting') <= 1
    BY <1>3, <1>10 DEF c
  <2>4. unanswered' \subseteq 0 .. (counter'[Client] - 1)
    <3>1. unanswered \subseteq 0 .. (c - 1)
      BY <1>1 DEF TypeOK, c
    <3>2. 0 .. (c - 1) \subseteq 0 .. ((c + 1) - 1)
      BY <1>3
    <3> QED BY <1>8, <1>10, <3>1, <3>2
  <2> QED BY <1>1, <1>8, <1>10, <2>2, <2>3, <2>4 DEF TypeOK
<1>14. Requests'
  <2>1. counter'[Client] = sent'[Client]
    BY <1>3, <1>10
  <2>2. m.kind \in Answered \cup OneWay /\ m.index = m.n - 1
    <3>1. m.n = c + 1 /\ c \in Nat
      BY <1>3, <1>5
    <3>2. m.index = m.n - 1
      BY <1>5, <3>1
    <3> QED BY <1>5, <3>2
  <2>3. \A o \in Underway(Server) : o.kind \in Answered \cup OneWay /\ o.index = o.n - 1
    BY <1>1 DEF Requests
  <2>4. \A o \in Underway(Server)' : o.kind \in Answered \cup OneWay /\ o.index = o.n - 1
    BY <1>12, <2>2, <2>3
  <2> QED BY <2>1, <2>4 DEF Requests
<1>15. Replies'
  <2>1. 0 .. (counter[Client] - 1) \subseteq 0 .. (counter'[Client] - 1)
    BY <1>3, <1>10 DEF c
  <2> QED BY <1>1, <1>8, <1>12, <2>1 DEF Replies
<1>16. OutstandingAccounted'
  <2>1. Replied' = Replied /\ unanswered' = unanswered
    BY <1>8, <1>12 DEF Replied
  <2>2. /\ kind \in Answered => Asked' = Asked \cup {c}
        /\ kind \notin Answered => Asked' = Asked
    <3>1. Asked = Indices(Underway(Server), Answered)
          /\ Asked' = Indices(Underway(Server) \cup {m}, Answered)
      BY <1>12 DEF Asked
    <3>2. /\ m.kind \in Answered => Indices(Underway(Server) \cup {m}, Answered)
                                      = Indices(Underway(Server), Answered) \cup {m.index}
          /\ m.kind \notin Answered => Indices(Underway(Server) \cup {m}, Answered)
                                         = Indices(Underway(Server), Answered)
      BY IndicesAdded
    <3> QED BY <1>5, <3>1, <3>2
  <2>3. c \notin Replied
    <3> SUFFICES ASSUME c \in Replied PROVE FALSE
      OBVIOUS
    <3>1. PICK o \in Underway(Client) : o.kind \in {"reply"} /\ o.index = c
      BY IndicesMember DEF Replied
    <3>2. c \in 0 .. (counter[Client] - 1)
      BY <1>1, <3>1 DEF Replies
    <3> QED BY <1>3, <3>2 DEF c
  <2>4. c \notin unanswered
    BY <1>1, <1>3 DEF TypeOK, c
  <2>5. CASE kind \in Answered
    BY <1>1, <1>10, <2>1, <2>2, <2>3, <2>4, <2>5 DEF OutstandingAccounted
  <2>6. CASE kind \notin Answered
    BY <1>1, <1>10, <2>1, <2>2, <2>6 DEF OutstandingAccounted
  <2> QED BY <2>5, <2>6
<1>17. OnlyPushesFail'
  BY <1>1, <1>8 DEF OnlyPushesFail
<1> QED BY <1>11, <1>13, <1>14, <1>15, <1>16, <1>17 DEF IInv

LEMMA SendAndAwaitStep ==
  ASSUME IInv, SendAndAwait
  PROVE  IInv'
<1> DEFINE kind == IF phase = 1 THEN "login" ELSE "step"
           c == counter[Client]
<1>1. PICK size \in Sizes : Request(kind, size)
  BY DEF SendAndAwait
<1>2. kind \in Answered \cup OneWay /\ kind \in Answered
  BY DEF Answered
<1>3. c \in Nat
  BY PeersFacts DEF IInv, TypeOK
<1>4. /\ UNCHANGED <<streamVars, inErrorState, phase, taken, pushes, unanswered>>
      /\ phase < Idle /\ awaiting = {} /\ awaiting' = {c}
  BY DEF SendAndAwait
<1>5. awaiting' \subseteq 0 .. c /\ Cardinality(awaiting') <= 1
  <2>1. Cardinality({c}) = 1
    BY FS_Singleton
  <2> QED BY <1>3, <1>4, <2>1
<1>6. OneAtATime'
  <2>1. outstanding[Client] = {}
    BY <1>4 DEF IInv, OneAtATime
  <2>2. outstanding'[Client] = {c}
    <3>1. outstanding \in [Peers -> SUBSET Nat] /\ Client \in Peers
      BY PeersFacts DEF IInv, TypeOK
    <3>2. outstanding' = [outstanding EXCEPT ![Client] =
            IF kind \in Answered THEN outstanding[Client] \cup {c} ELSE outstanding[Client]]
      BY <1>1 DEF Request
    <3> HIDE DEF kind
    <3> QED BY <1>2, <2>1, <3>1, <3>2
  <2>3. phase' # Idle
    <3>1. phase \in Int /\ Idle \in Int
      BY MessageAssumption DEF IInv, TypeOK, Idle
    <3> QED BY <1>4, <3>1
  <2> QED BY <1>4, <2>2, <2>3 DEF OneAtATime, Idle
<1> HIDE DEF kind
<1> QED BY <1>1, <1>2, <1>4, <1>5, <1>6, RequestStep

LEMMA IdleSendStep ==
  ASSUME IInv, IdleSend
  PROVE  IInv'
<1>1. PICK kind \in {"query", "note"}, size \in Sizes : Request(kind, size)
  BY DEF IdleSend
<1>2. kind \in Answered \cup OneWay
  BY DEF Answered, OneWay
<1>3. /\ UNCHANGED <<streamVars, inErrorState, phase, awaiting, taken, pushes, unanswered>>
      /\ phase = Idle
  BY DEF IdleSend
<1>4. awaiting = {} /\ OneAtATime' /\ awaiting' \subseteq 0 .. counter[Client]
  <2>1. phase' = Idle /\ Idle' = Idle /\ Idle \in Int
    BY <1>3, MessageAssumption DEF Idle
  <2> QED BY <1>3, <2>1 DEF IInv, OneAtATime
<1>5. Cardinality(awaiting') <= 1
  BY <1>3, <1>4, FS_EmptySet
<1> QED BY <1>1, <1>2, <1>3, <1>4, <1>5, RequestStep

\* What Receive does to the direction it takes from.
LEMMA ReceiveFacts ==
  ASSUME IInv, NEW p \in Peers, Receive(p),
         UNCHANGED <<fragments, receivedLength>>,
         wire'[Other(p)] = wire[Other(p)], sent'[Other(p)] = sent[Other(p)]
  PROVE  LET m == Head(receiveQueue[p]).msg
         IN  /\ Head(receiveQueue[p]).whole
             /\ m \in Underway(p) /\ m \in Message
             /\ \A o \in Underway(p) : o.n = m.n => o = m
             /\ Way(Other(p))'
             /\ Underway(p)' = Underway(p) \ {m}
             /\ receiveQueue' \in [Peers -> Seq(Received)] /\ taken' \in [Peers -> Seq(Nat)]
             /\ receiveQueue'[Other(p)] = receiveQueue[Other(p)] /\ taken'[p] = taken[p]
<1> DEFINE q == Other(p)
           m == Head(receiveQueue[p]).msg
           rt == Tail(receiveQueue[p])
           tt == Append(taken[q], m.n)
<1>1. q \in Peers /\ q # p /\ Other(q) = p
  BY PeersFacts
<1>2. TypeOK /\ Channels
  BY DEF IInv
<1>3. /\ receiveQueue \in [Peers -> Seq(Received)] /\ taken \in [Peers -> Seq(Nat)]
  BY <1>2 DEF TypeOK
<1>4. Channel(wire[q], fragments[p], receivedLength[p], receiveQueue[p], taken[q], sent[q])
  BY <1>1, <1>2 DEF Channels, Way
<1>5. /\ receiveQueue[p] # <<>>
      /\ receiveQueue' = [receiveQueue EXCEPT ![p] = rt]
      /\ taken' = [taken EXCEPT ![q] = tt]
  BY DEF Receive
<1>6. Underway(p) = Between(wire[q], fragments[p], receiveQueue[p])
  BY <1>1, UnderwayIs
<1>7. Underway(p)' = Between(wire'[q], fragments'[p], receiveQueue'[p])
  BY <1>1, UnderwayIs
<1>8. /\ Head(receiveQueue[p]).whole
      /\ m \in Between(wire[q], fragments[p], receiveQueue[p]) /\ m.n = Len(taken[q]) + 1
      /\ Channel(wire[q], fragments[p], receivedLength[p], rt, tt, sent[q])
      /\ Between(wire[q], fragments[p], rt)
           = Between(wire[q], fragments[p], receiveQueue[p]) \ {m}
  BY <1>4, <1>5, ChannelTaken
<1>9. /\ \A o \in Between(wire[q], fragments[p], receiveQueue[p]) : o \in Message
      /\ Len(taken[q]) \in Nat
  BY <1>4, ChannelFacts
<1>10. Len(tt) = Len(taken[q]) + 1
  <2>1. taken[q] \in Seq(Nat)
    BY <1>1, <1>3
  <2>2. m.n \in Nat
    BY <1>8, <1>9
  <2> HIDE DEF q, m
  <2> QED BY <2>1, <2>2, AppendProperties
<1> HIDE DEF m, rt, tt, q
<1>11. \A o \in Between(wire[q], fragments[p], rt) : o.n \in Nat /\ Len(tt) < o.n
  <2>1. Channel(wire[q], fragments[p], receivedLength[p], rt, tt, sent[q])
    BY <1>8
  <2> QED BY <2>1, ChannelFacts
<1>12. \A o \in Underway(p) : o.n = m.n => o = m
  BY <1>6, <1>8, <1>9, <1>10, <1>11
<1>13. /\ receiveQueue'[p] = rt /\ taken'[q] = tt
       /\ receiveQueue'[q] = receiveQueue[q] /\ taken'[p] = taken[p]
  BY <1>1, <1>3, <1>5
<1>14. rt \in Seq(Received) /\ tt \in Seq(Nat)
  BY <1>8, WayTypes
<1>15. receiveQueue' \in [Peers -> Seq(Received)] /\ taken' \in [Peers -> Seq(Nat)]
  BY <1>1, <1>3, <1>5, <1>14
<1>16. wire'[q] = wire[q] /\ sent'[q] = sent[q]
  BY DEF q
<1>17. Way(q)'
  BY <1>1, <1>8, <1>13, <1>16 DEF Way
<1>18. Underway(p)' = Underway(p) \ {m}
  BY <1>6, <1>7, <1>8, <1>13, <1>16
<1> QED BY <1>6, <1>8, <1>9, <1>12, <1>13, <1>15, <1>17, <1>18 DEF m, q

\* The client reads every message it gets but a "bell", and knows every reply.
LEMMA ClientUnderstands ==
  ASSUME IInv, NEW m \in Underway(Client)
  PROVE  /\ m.kind = "reply" => m.index \in Replied /\ m.index \in outstanding[Client]
         /\ m.kind \in Pushes => m.kind \in ReadablePushes \/ Contains(pushes, "bell")
         /\ m.kind \in Pushes \/ m.kind = "reply"
         /\ \A o \in Underway(Client) :
              o.kind \in {"reply"} /\ m.kind \in {"reply"} /\ o.index = m.index => o = m
<1>1. m.kind = "reply" => m.index \in Replied
  BY IndicesHas DEF Replied
<1> QED BY <1>1 DEF IInv, Replies, OutstandingAccounted, Pushes, ReadablePushes

LEMMA ClientReceiveStep ==
  ASSUME IInv, ClientReceive
  PROVE  IInv'
<1> DEFINE m == Head(receiveQueue[Client]).msg
           i == m.index
<1>1. TypeOK /\ Channels /\ Requests /\ Replies /\ OutstandingAccounted /\ OnlyPushesFail
      /\ OneAtATime
  BY DEF IInv
<1>2. Client \in Peers /\ Server \in Peers /\ Other(Client) = Server /\ Other(Server) = Client
      /\ Client # Server /\ \A p \in Peers : p = Client \/ p = Server
  BY PeersFacts DEF Peers
<1>3. /\ Receive(Client)
      /\ UNCHANGED <<wire, fragments, receivedLength, counter, sent, pushes, unanswered>>
      /\ awaiting # {} \/ phase = Idle
  BY DEF ClientReceive
<1>4. /\ Head(receiveQueue[Client]).whole
      /\ m \in Underway(Client) /\ m \in Message
      /\ Way(Server)'
      /\ Underway(Client)' = Underway(Client) \ {m}
      /\ receiveQueue' \in [Peers -> Seq(Received)] /\ taken' \in [Peers -> Seq(Nat)]
      /\ receiveQueue'[Server] = receiveQueue[Server] /\ taken'[Client] = taken[Client]
  BY <1>2, <1>3, ReceiveFacts
<1>5. IF Understood(Client, Head(receiveQueue[Client]))
        THEN /\ outstanding' = [outstanding EXCEPT ![Client] =
                  IF m.kind = "reply" THEN outstanding[Client] \ {i} ELSE outstanding[Client]]
             /\ IF awaiting # {} /\ m.kind = "reply"
                  THEN phase' = phase + 1 /\ awaiting' = {}
                  ELSE UNCHANGED <<phase, awaiting>>
             /\ UNCHANGED inErrorState
        ELSE /\ inErrorState' = [inErrorState EXCEPT ![Client] = TRUE]
             /\ UNCHANGED <<outstanding, phase, awaiting>>
  BY DEF ClientReceive, Settled
<1>6. Understood(Client, Head(receiveQueue[Client])) <=>
        /\ m.kind = "reply" => i \in outstanding[Client]
        /\ m.kind \in Pushes => m.kind \in ReadablePushes
  BY <1>4 DEF Understood
<1> HIDE DEF m
<1>7. /\ m.kind = "reply" => i \in Replied /\ i \in outstanding[Client]
      /\ m.kind \in Pushes => m.kind \in ReadablePushes \/ Contains(pushes, "bell")
      /\ m.kind \in Pushes \/ m.kind = "reply"
      /\ \A o \in Underway(Client) :
           o.kind \in {"reply"} /\ m.kind \in {"reply"} /\ o.index = i => o = m
  BY <1>4, ClientUnderstands
<1>8. "reply" \notin Pushes
  BY DEF Pushes
<1>9. /\ wire \in [Peers -> Seq(Fragment)] /\ outstanding \in [Peers -> SUBSET Nat]
      /\ outstanding[Server] = {} /\ inErrorState \in [Peers -> BOOLEAN]
      /\ phase \in 1 .. Idle /\ Idle \in Nat
      /\ awaiting \subseteq 0 .. (counter[Client] - 1) /\ Cardinality(awaiting) <= 1
  BY <1>1, MessageAssumption DEF TypeOK, Idle
<1> HIDE DEF i
<1>10. Channels'
  <2>1. Way(Client)'
    <3>1. Way(Client)
      BY <1>1, <1>2 DEF Channels
    <3> QED BY <1>2, <1>3, <1>4, <3>1 DEF Way
  <2> QED BY <1>2, <1>4, <2>1 DEF Channels
<1>11. Underway(Server)' = Underway(Server)
  <2>1. /\ Underway(Server)' = Between(wire'[Client], fragments'[Server], receiveQueue'[Server])
        /\ Underway(Server) = Between(wire[Client], fragments[Server], receiveQueue[Server])
    BY <1>2, UnderwayIs
  <2> QED BY <1>3, <1>4, <2>1
<1>12. Requests'
  BY <1>1, <1>3, <1>11 DEF Requests
<1>13. Replies'
  BY <1>1, <1>3, <1>4 DEF Replies
<1>14. Asked' = Asked /\ unanswered' = unanswered
  BY <1>3, <1>11 DEF Asked
<1>15. /\ Replied' = Indices(Underway(Client) \ {m}, {"reply"})
       /\ m.kind \in {"reply"} => Replied' = Replied \ {i}
       /\ m.kind \notin {"reply"} => Replied' = Replied
  <2>1. Replied = Indices(Underway(Client), {"reply"})
        /\ Replied' = Indices(Underway(Client) \ {m}, {"reply"})
    BY <1>4 DEF Replied
  <2>2. \A o \in Underway(Client) :
          o.kind \in {"reply"} /\ m.kind \in {"reply"} /\ o.index = m.index => o = m
    BY <1>7 DEF i
  <2>3. /\ m.kind \in {"reply"} => Indices(Underway(Client) \ {m}, {"reply"})
                                    = Indices(Underway(Client), {"reply"}) \ {m.index}
        /\ m.kind \notin {"reply"} => Indices(Underway(Client) \ {m}, {"reply"})
                                       = Indices(Underway(Client), {"reply"})
    BY <1>4, <2>2, IndicesRemoved
  <2> QED BY <2>1, <2>3 DEF i
<1>16. ASSUME outstanding' \in [Peers -> SUBSET Nat], outstanding'[Server] = {},
              inErrorState' \in [Peers -> BOOLEAN], phase' \in 1 .. Idle,
              awaiting' = awaiting \/ awaiting' = {}
       PROVE  TypeOK'
  <2>1. Cardinality({}) = 0
    BY FS_EmptySet
  <2>2. awaiting' \subseteq 0 .. (counter'[Client] - 1) /\ Cardinality(awaiting') <= 1
    <3>1. counter'[Client] = counter[Client]
      BY <1>3
    <3>2. CASE awaiting' = awaiting
      BY <1>9, <3>1, <3>2
    <3>3. CASE awaiting' = {}
      BY <2>1, <3>3
    <3> QED BY <1>16, <3>2, <3>3
  <2>3. Idle' = Idle
    BY DEF Idle
  <2> QED BY <1>1, <1>3, <1>4, <1>16, <2>2, <2>3 DEF TypeOK
<1>17. CASE m.kind = "reply"
  <2>1. /\ outstanding' = [outstanding EXCEPT ![Client] = outstanding[Client] \ {i}]
        /\ IF awaiting # {} THEN phase' = phase + 1 /\ awaiting' = {}
                            ELSE UNCHANGED <<phase, awaiting>>
        /\ UNCHANGED inErrorState
    BY <1>5, <1>6, <1>7, <1>8, <1>17
  <2>2. /\ outstanding'[Client] = outstanding[Client] \ {i} /\ outstanding'[Server] = {}
        /\ outstanding' \in [Peers -> SUBSET Nat]
    BY <1>2, <1>9, <2>1
  <2>3. /\ awaiting # {} => phase < Idle
        /\ phase' \in 1 .. Idle
    <3>1. phase = Idle => awaiting = {}
      BY <1>1 DEF OneAtATime
    <3>2. phase \in 1 .. Idle /\ Idle \in Nat
      BY <1>9
    <3>3. awaiting # {} => phase < Idle
      BY <3>1, <3>2
    <3> QED BY <2>1, <3>2, <3>3
  <2>4. TypeOK'
    BY <1>9, <1>16, <2>1, <2>2, <2>3
  <2>5. OneAtATime'
    <3>1. Idle' = Idle
      BY DEF Idle
    <3>2. CASE awaiting # {}
      <4>1. phase < Idle
        BY <2>3, <3>2
      <4>2. outstanding[Client] \subseteq awaiting /\ i \in awaiting
        BY <1>1, <1>7, <1>17, <4>1 DEF OneAtATime
      <4>3. PICK c : awaiting = {c}
        <5>1. IsFiniteSet(awaiting)
          <6>1. counter[Client] \in Nat
            BY <1>1, <1>2 DEF TypeOK
          <6>2. IsFiniteSet(0 .. (counter[Client] - 1))
            BY <6>1, FS_Interval
          <6> QED BY <1>9, <6>2, FS_Subset
        <5>2. Cardinality(awaiting) \in Nat /\ Cardinality(awaiting) # 0
          BY <3>2, <5>1, FS_CardinalityType, FS_EmptySet
        <5>3. Cardinality(awaiting) = 1
          BY <1>9, <5>2
        <5> QED BY <5>1, <5>3, FS_Singleton
      <4>4. outstanding'[Client] = {}
        BY <2>2, <4>2, <4>3
      <4> QED BY <2>1, <3>1, <3>2, <4>4 DEF OneAtATime
    <3>3. CASE awaiting = {}
      BY <1>1, <1>3, <2>1, <3>1, <3>3, <1>9 DEF OneAtATime
    <3> QED BY <3>2, <3>3
  <2>6. OutstandingAccounted'
    <3>1. Replied' = Replied \ {i} /\ i \notin Asked /\ i \notin unanswered
      BY <1>1, <1>7, <1>15, <1>17 DEF OutstandingAccounted
    <3> QED BY <1>1, <1>14, <2>2, <3>1 DEF OutstandingAccounted
  <2>7. OnlyPushesFail'
    BY <1>1, <1>3, <2>1 DEF OnlyPushesFail
  <2> QED BY <1>10, <1>12, <1>13, <2>4, <2>5, <2>6, <2>7 DEF IInv
<1>18. CASE m.kind # "reply"
  <2>1. /\ outstanding' = outstanding /\ UNCHANGED <<phase, awaiting>>
        /\ \/ UNCHANGED inErrorState
           \/ /\ inErrorState' = [inErrorState EXCEPT ![Client] = TRUE]
              /\ Contains(pushes, "bell")
    <3>1. outstanding = [outstanding EXCEPT ![Client] = outstanding[Client]]
      BY <1>9
    <3>2. CASE m.kind \in ReadablePushes
      BY <1>5, <1>6, <1>18, <3>1, <3>2
    <3>3. CASE m.kind \notin ReadablePushes
      BY <1>5, <1>6, <1>7, <1>18, <3>3
    <3> QED BY <3>2, <3>3
  <2>2. inErrorState' \in [Peers -> BOOLEAN] /\ inErrorState'[Server] = inErrorState[Server]
    BY <1>2, <1>9, <2>1
  <2>3. TypeOK'
    BY <1>9, <1>16, <2>1, <2>2
  <2>4. OneAtATime'
    BY <1>1, <2>1 DEF OneAtATime, Idle
  <2>5. OutstandingAccounted'
    BY <1>1, <1>14, <1>15, <1>18, <2>1 DEF OutstandingAccounted
  <2>6. OnlyPushesFail'
    BY <1>1, <1>3, <2>1, <2>2 DEF OnlyPushesFail
  <2> QED BY <1>10, <1>12, <1>13, <2>3, <2>4, <2>5, <2>6 DEF IInv
<1> QED BY <1>17, <1>18

\* No two requests underway have the same index.
LEMMA RequestTaken ==
  ASSUME IInv, NEW m \in Underway(Server),
         \A o \in Underway(Server) : o.n = m.n => o = m
  PROVE  /\ m.kind \in Answered => Indices(Underway(Server) \ {m}, Answered)
                                    = Indices(Underway(Server), Answered) \ {m.index}
         /\ m.kind \notin Answered => Indices(Underway(Server) \ {m}, Answered)
                                       = Indices(Underway(Server), Answered)
<1>1. ASSUME NEW o \in Underway(Server) PROVE o.n \in Nat /\ o.index = o.n - 1
  <2>1. Channels /\ Requests /\ Client \in Peers /\ Other(Client) = Server
    BY PeersFacts DEF IInv
  <2> QED BY <2>1, UnderwayFacts DEF Requests
<1>2. \A o \in Underway(Server) :
        o.kind \in Answered /\ m.kind \in Answered /\ o.index = m.index => o = m
  BY <1>1
<1> QED BY <1>2, IndicesRemoved

\* The server has taken the message m and sends the client those of R, a reply to
\* m among them or none.
AnswerStep(m, R) ==
  /\ Receive(Server)
  /\ UNCHANGED <<fragments, receivedLength, outstanding, counter, inErrorState, phase,
                 awaiting, pushes>>
  /\ wire'[Client] = wire[Client] /\ sent'[Client] = sent[Client]
  /\ wire' \in [Peers -> Seq(Fragment)] /\ sent' \in [Peers -> Nat]
  /\ Way(Server)'
  /\ m = Head(receiveQueue[Server]).msg
  /\ Underway(Client)' = Underway(Client) \cup R
  /\ \A r \in R : r.kind = "config" \/ (r.kind = "reply" /\ r.index = m.index)
  /\ \A r, s \in R : r.kind = "reply" /\ s.kind = "reply" => r = s
  /\ \/ m.kind \in Answered /\ (\E r \in R : r.kind = "reply") /\ unanswered' = unanswered
     \/ m.kind \in Answered /\ R = {} /\ unanswered' = unanswered \cup {m.index}
     \/ m.kind \notin Answered /\ R = {} /\ unanswered' = unanswered

LEMMA AnswerInv ==
  ASSUME IInv, NEW m, NEW R, AnswerStep(m, R)
  PROVE  IInv'
<1> USE DEF AnswerStep
<1>1. TypeOK /\ Channels /\ Requests /\ Replies /\ OutstandingAccounted /\ OnlyPushesFail
      /\ OneAtATime
  BY DEF IInv
<1>2. Client \in Peers /\ Server \in Peers /\ Other(Client) = Server /\ Other(Server) = Client
      /\ Client # Server /\ \A p \in Peers : p = Client \/ p = Server
  BY PeersFacts DEF Peers
<1>3. /\ m \in Underway(Server) /\ m \in Message
      /\ \A o \in Underway(Server) : o.n = m.n => o = m
      /\ Way(Client)'
      /\ Underway(Server)' = Underway(Server) \ {m}
      /\ receiveQueue' \in [Peers -> Seq(Received)] /\ taken' \in [Peers -> Seq(Nat)]
  <2>1. wire'[Other(Server)] = wire[Other(Server)] /\ sent'[Other(Server)] = sent[Other(Server)]
    BY <1>2
  <2> DEFINE o == Head(receiveQueue[Server]).msg
  <2>2. /\ o \in Underway(Server) /\ o \in Message
        /\ \A x \in Underway(Server) : x.n = o.n => x = o
        /\ Way(Other(Server))'
        /\ Underway(Server)' = Underway(Server) \ {o}
        /\ receiveQueue' \in [Peers -> Seq(Received)] /\ taken' \in [Peers -> Seq(Nat)]
    BY <1>2, <2>1, ReceiveFacts
  <2>3. m = o
    OBVIOUS
  <2> HIDE DEF o
  <2> QED BY <1>2, <2>2, <2>3
<1>4. /\ m.kind \in Answered \cup OneWay /\ m.index = m.n - 1
      /\ m.n \in Nat /\ m.n <= sent[Client] /\ 0 < m.n /\ sent[Client] \in Nat
      /\ counter[Client] = sent[Client]
  <2>1. Len(taken[Client]) \in Nat /\ sent[Client] \in Nat
    BY <1>1, <1>2, LenProperties DEF TypeOK
  <2>2. m.n \in Nat /\ Len(taken[Client]) < m.n /\ m.n <= sent[Client]
    BY <1>1, <1>2, <1>3, UnderwayFacts
  <2>3. m.kind \in Answered \cup OneWay /\ m.index = m.n - 1 /\ counter[Client] = sent[Client]
    BY <1>1, <1>3 DEF Requests
  <2> QED BY <2>1, <2>2, <2>3
<1>5. m.index \in 0 .. (counter[Client] - 1)
  <2>1. \A a, b \in Nat : 0 < a /\ a <= b => a - 1 \in 0 .. (b - 1)
    OBVIOUS
  <2> QED BY <1>4, <2>1
<1>6. Channels'
  BY <1>2, <1>3 DEF Channels
<1>7. TypeOK'
  <2>1. unanswered' \subseteq 0 .. (counter[Client] - 1)
    BY <1>1, <1>5 DEF TypeOK
  <2>2. Idle' = Idle
    BY DEF Idle
  <2> QED BY <1>1, <1>3, <2>1, <2>2 DEF TypeOK
<1>8. Requests'
  BY <1>1, <1>3 DEF Requests
<1>9. OneAtATime'
  BY <1>1 DEF OneAtATime, Idle
<1>10. OnlyPushesFail'
  BY <1>1 DEF OnlyPushesFail
<1>11. /\ m.kind \in Answered => Asked' = Asked \ {m.index} /\ m.index \in Asked
       /\ m.kind \notin Answered => Asked' = Asked
  <2>1. Asked = Indices(Underway(Server), Answered)
        /\ Asked' = Indices(Underway(Server) \ {m}, Answered)
    BY <1>3 DEF Asked
  <2>2. /\ m.kind \in Answered => Indices(Underway(Server) \ {m}, Answered)
                                   = Indices(Underway(Server), Answered) \ {m.index}
        /\ m.kind \notin Answered => Indices(Underway(Server) \ {m}, Answered)
                                      = Indices(Underway(Server), Answered)
    BY <1>3, RequestTaken
  <2>4. m.kind \in Answered => m.index \in Asked
    BY <1>3, IndicesHas DEF Asked
  <2> QED BY <2>1, <2>2, <2>4
<1>12. \A o \in Underway(Client) : o.kind = "reply" => o.index \in Replied
  BY IndicesHas DEF Replied
<1>13. Replies'
  <2>1. \A r \in R : r.kind = "reply" => m.kind \in Answered
    OBVIOUS
  <2>2. ASSUME NEW o \in Underway(Client)', NEW r \in Underway(Client)',
               o.kind = "reply", r.kind = "reply", r.index = o.index
        PROVE  r = o
    <3>1. ASSUME NEW a \in Underway(Client), NEW b \in R,
                 a.kind = "reply", b.kind = "reply", a.index = b.index
          PROVE  FALSE
      <4>1. m.index \in Replied /\ m.index \in Asked
        BY <1>11, <1>12, <2>1, <3>1
      <4> QED BY <1>1, <4>1 DEF OutstandingAccounted
    <3>2. CASE o \in Underway(Client) /\ r \in Underway(Client)
      BY <1>1, <2>2, <3>2 DEF Replies
    <3>3. CASE o \in R /\ r \in R
      BY <2>2, <3>3
    <3> QED BY <2>2, <3>1, <3>2, <3>3
  <2>3. ASSUME NEW o \in Underway(Client)'
        PROVE  /\ o.kind \in Pushes \cup {"reply"}
               /\ o.kind = "bell" => Contains(pushes, "bell")
               /\ o.kind = "reply" => o.index \in 0 .. (counter[Client] - 1)
    <3>1. CASE o \in Underway(Client)
      BY <1>1, <3>1 DEF Replies
    <3>2. CASE o \in R
      BY <1>5, <3>2 DEF Pushes
    <3> QED BY <3>1, <3>2
  <2> QED BY <2>2, <2>3 DEF Replies
<1>14. OutstandingAccounted'
  <2>1. Replied' = Indices(Underway(Client) \cup R, {"reply"})
        /\ Replied = Indices(Underway(Client), {"reply"})
    BY DEF Replied
  <2>2. ASSUME NEW r \in R, r.kind = "reply" PROVE Replied' = Replied \cup {m.index}
    <3>1. \A i \in Replied' : i \in Replied \cup {m.index}
      BY <2>1 DEF Indices
    <3>2. \A i \in Replied : i \in Replied'
      BY <2>1 DEF Indices
    <3>3. m.index \in Replied'
      BY <2>1, <2>2 DEF Indices
    <3> QED BY <3>1, <3>2, <3>3
  <2>3. ASSUME R = {} PROVE Replied' = Replied
    <3>1. Underway(Client) \cup R = Underway(Client)
      BY <2>3
    <3> QED BY <2>1, <3>1
  <2>4. CASE m.kind \in Answered /\ (\E r \in R : r.kind = "reply") /\ unanswered' = unanswered
    BY <1>1, <1>11, <2>2, <2>4 DEF OutstandingAccounted
  <2>5. CASE m.kind \in Answered /\ R = {} /\ unanswered' = unanswered \cup {m.index}
    BY <1>1, <1>11, <2>3, <2>5 DEF OutstandingAccounted
  <2>6. CASE m.kind \notin Answered /\ R = {} /\ unanswered' = unanswered
    BY <1>1, <1>11, <2>3, <2>6 DEF OutstandingAccounted
  <2> QED BY <2>4, <2>5, <2>6
<1> QED BY <1>6, <1>7, <1>8, <1>9, <1>10, <1>13, <1>14 DEF IInv

\* What the server sends, the client's side being as it was.
LEMMA ServerSends ==
  ASSUME IInv, NEW w, NEW k,
         wire' = [wire EXCEPT ![Server] = w], sent' = [sent EXCEPT ![Server] = k],
         UNCHANGED <<fragments, receivedLength>>,
         receiveQueue'[Client] = receiveQueue[Client], taken'[Server] = taken[Server],
         Channel(w, fragments[Client], receivedLength[Client], receiveQueue[Client],
                 taken[Server], k)
  PROVE  /\ wire'[Client] = wire[Client] /\ sent'[Client] = sent[Client]
         /\ wire' \in [Peers -> Seq(Fragment)] /\ sent' \in [Peers -> Nat]
         /\ Way(Server)'
         /\ Underway(Client)' = Between(w, fragments[Client], receiveQueue[Client])
<1>1. Client \in Peers /\ Server \in Peers /\ Other(Server) = Client /\ Client # Server
  BY PeersFacts
<1>2. wire \in [Peers -> Seq(Fragment)] /\ sent \in [Peers -> Nat]
  BY DEF IInv, TypeOK
<1>3. w \in Seq(Fragment) /\ k \in Nat
  BY WayTypes
<1>4. /\ wire'[Client] = wire[Client] /\ sent'[Client] = sent[Client]
      /\ wire'[Server] = w /\ sent'[Server] = k
      /\ wire' \in [Peers -> Seq(Fragment)] /\ sent' \in [Peers -> Nat]
  BY <1>1, <1>2, <1>3
<1>5. Way(Server)'
  BY <1>1, <1>4 DEF Way
<1>6. Underway(Client)' = Between(wire'[Server], fragments'[Client], receiveQueue'[Client])
  BY <1>1, UnderwayIs
<1> QED BY <1>4, <1>5, <1>6

LEMMA ServerReceiveStep ==
  ASSUME IInv, ServerReceive
  PROVE  IInv'
<1> DEFINE m == Head(receiveQueue[Server]).msg
           k == sent[Server]
           h == [kind |-> "reply", index |-> m.index]
           g == [kind |-> "config", index |-> PushIndex]
<1>1. TypeOK /\ Channels /\ Requests
  BY DEF IInv
<1>2. Client \in Peers /\ Server \in Peers /\ Other(Client) = Server /\ Other(Server) = Client
      /\ Client # Server
  BY PeersFacts
<1>3. /\ Receive(Server)
      /\ UNCHANGED <<fragments, receivedLength, outstanding, counter, phase, awaiting, pushes>>
  BY DEF ServerReceive
<1>4. \/ /\ UNCHANGED inErrorState
         /\ \/ \E size \in Sizes : Queue(Server, Answers(m), size) /\ UNCHANGED unanswered
            \/ /\ m.kind \in Answered /\ unanswered' = unanswered \cup {m.index}
               /\ UNCHANGED <<wire, sent>>
      \/ ~Understood(Server, Head(receiveQueue[Server]))
  BY DEF ServerReceive
<1>5. /\ Head(receiveQueue[Server]).whole
      /\ Way(Server) /\ k \in Nat
  <2>1. /\ Channel(wire[Client], fragments[Server], receivedLength[Server],
                   receiveQueue[Server], taken[Client], sent[Client])
        /\ Way(Server)
    BY <1>1, <1>2 DEF Channels, Way
  <2> QED BY <1>3, <2>1, ChannelTaken, WayTypes DEF Receive, Way
<1>6. m \in Underway(Server) /\ m \in Message
  <2>1. /\ Channel(wire[Client], fragments[Server], receivedLength[Server],
                   receiveQueue[Server], taken[Client], sent[Client])
        /\ Underway(Server) = Between(wire[Client], fragments[Server], receiveQueue[Server])
    BY <1>1, <1>2, UnderwayIs DEF Channels, Way
  <2> QED BY <1>3, <2>1, ChannelTaken, ChannelFacts DEF Receive
<1>7. m.kind \in Answered \cup OneWay
  BY <1>1, <1>6 DEF Requests
<1>8. Understood(Server, Head(receiveQueue[Server]))
  BY <1>5, <1>7 DEF Understood, Answered, OneWay, Pushes
<1>9. receiveQueue'[Client] = receiveQueue[Client] /\ taken'[Server] = taken[Server]
  BY <1>1, <1>2, <1>3 DEF Receive, TypeOK
<1>10. h \in Header /\ g \in Header
  BY <1>6 DEF Header, Kinds, Pushes, Message, PushIndex
<1>11. /\ m.kind = "login" => Answers(m) = <<h, g>>
       /\ m.kind \in {"step", "query"} => Answers(m) = <<h>>
       /\ m.kind \notin Answered => Answers(m) = <<>>
  BY DEF Answers, Answered
<1> HIDE DEF m, k
<1>12. CASE ~Understood(Server, Head(receiveQueue[Server]))
  BY <1>8, <1>12
<1>13. ASSUME UNCHANGED inErrorState, UNCHANGED <<wire, sent>>,
              \/ m.kind \in Answered /\ unanswered' = unanswered \cup {m.index}
              \/ m.kind \notin Answered /\ unanswered' = unanswered
       PROVE  IInv'
  <2>1. Way(Server)'
    BY <1>2, <1>3, <1>5, <1>9, <1>13 DEF Way
  <2>2. Underway(Client)' = Underway(Client) \cup {}
    <3>1. /\ Underway(Client) = Between(wire[Server], fragments[Client], receiveQueue[Client])
          /\ Underway(Client)' = Between(wire'[Server], fragments'[Client], receiveQueue'[Client])
      BY <1>2, UnderwayIs
    <3> QED BY <1>3, <1>9, <1>13, <3>1
  <2>3. wire' \in [Peers -> Seq(Fragment)] /\ sent' \in [Peers -> Nat]
        /\ wire'[Client] = wire[Client] /\ sent'[Client] = sent[Client]
    BY <1>1, <1>13 DEF TypeOK
  <2>4. m = Head(receiveQueue[Server]).msg
    BY DEF m
  <2>5. AnswerStep(m, {})
    BY <1>3, <1>13, <2>1, <2>2, <2>3, <2>4 DEF AnswerStep
  <2> QED BY <2>5, AnswerInv
<1>14. ASSUME UNCHANGED inErrorState, UNCHANGED unanswered,
              NEW size \in Sizes, Queue(Server, Answers(m), size)
       PROVE  IInv'
  <2> DEFINE a == Numbered(h, size, k + 1)
             b == Numbered(g, size, k + 2)
  <2>1. /\ a \in Message /\ a.n = k + 1 /\ a.kind = "reply" /\ a.index = m.index
        /\ b \in Message /\ b.n = k + 2 /\ b.kind = "config"
    BY <1>5, <1>10, NumberedFacts
  <2>2. m = Head(receiveQueue[Server]).msg
    BY DEF m
  <2>3. CASE m.kind \notin Answered
    <3>1. wire' = wire /\ sent' = sent
      BY <1>1, <1>2, <1>11, <1>14, <2>3, QueueNone
    <3> QED BY <1>13, <1>14, <2>3, <3>1
  <2>4. CASE m.kind \in {"step", "query"}
    <3> DEFINE w == Extended(wire[Server], a)
    <3>1. Queue(Server, <<h>>, size)
      BY <1>11, <1>14, <2>4
    <3>2. wire' = [wire EXCEPT ![Server] = w] /\ sent' = [sent EXCEPT ![Server] = k + 1]
      BY <1>1, <1>2, <1>10, <3>1, QueueOne DEF k
    <3> HIDE DEF a
    <3>3. /\ Channel(w, fragments[Client], receivedLength[Client], receiveQueue[Client],
                     taken[Server], k + 1)
          /\ Between(w, fragments[Client], receiveQueue[Client]) = Underway(Client) \cup {a}
      BY <1>1, <1>2, <2>1, WaySent DEF k
    <3> HIDE DEF w
    <3>4. /\ wire'[Client] = wire[Client] /\ sent'[Client] = sent[Client]
          /\ wire' \in [Peers -> Seq(Fragment)] /\ sent' \in [Peers -> Nat]
          /\ Way(Server)'
          /\ Underway(Client)' = Between(w, fragments[Client], receiveQueue[Client])
      BY <1>3, <1>9, <3>2, <3>3, ServerSends
    <3>5. Underway(Client)' = Underway(Client) \cup {a} /\ m.kind \in Answered
      BY <2>4, <3>3, <3>4 DEF Answered
    <3>6. /\ \A r \in {a} : r.kind = "config" \/ (r.kind = "reply" /\ r.index = m.index)
          /\ \A r, s \in {a} : r.kind = "reply" /\ s.kind = "reply" => r = s
          /\ \E r \in {a} : r.kind = "reply"
      BY <2>1
    <3>7. \/ m.kind \in Answered /\ (\E r \in {a} : r.kind = "reply") /\ unanswered' = unanswered
          \/ m.kind \in Answered /\ {a} = {} /\ unanswered' = unanswered \cup {m.index}
          \/ m.kind \notin Answered /\ {a} = {} /\ unanswered' = unanswered
      BY <1>14, <3>5, <3>6
    <3>8. /\ UNCHANGED <<fragments, receivedLength, outstanding, counter, inErrorState, phase,
                         awaiting, pushes>>
          /\ Receive(Server)
      BY <1>3, <1>14
    <3>9. AnswerStep(m, {a})
      BY <2>2, <3>4, <3>5, <3>6, <3>7, <3>8 DEF AnswerStep
    <3> QED BY <3>9, AnswerInv
  <2>5. CASE m.kind = "login"
    <3> DEFINE w == Extended(Extended(wire[Server], a), b)
    <3>1. Queue(Server, <<h, g>>, size)
      BY <1>11, <1>14, <2>5
    <3>2. wire' = [wire EXCEPT ![Server] = w] /\ sent' = [sent EXCEPT ![Server] = k + 2]
      BY <1>1, <1>2, <1>10, <3>1, QueueTwo DEF k
    <3> HIDE DEF a, b
    <3>3. /\ Channel(w, fragments[Client], receivedLength[Client], receiveQueue[Client],
                     taken[Server], k + 2)
          /\ Between(w, fragments[Client], receiveQueue[Client])
               = Underway(Client) \cup {a} \cup {b}
      BY <1>1, <1>2, <2>1, WaySentTwo DEF k
    <3> HIDE DEF w
    <3>4. /\ wire'[Client] = wire[Client] /\ sent'[Client] = sent[Client]
          /\ wire' \in [Peers -> Seq(Fragment)] /\ sent' \in [Peers -> Nat]
          /\ Way(Server)'
          /\ Underway(Client)' = Between(w, fragments[Client], receiveQueue[Client])
      BY <1>3, <1>9, <3>2, <3>3, ServerSends
    <3>5. Underway(Client)' = Underway(Client) \cup {a, b} /\ m.kind \in Answered
      BY <2>5, <3>3, <3>4 DEF Answered
    <3>6. /\ \A r \in {a, b} : r.kind = "config" \/ (r.kind = "reply" /\ r.index = m.index)
          /\ \A r, s \in {a, b} : r.kind = "reply" /\ s.kind = "reply" => r = s
          /\ \E r \in {a, b} : r.kind = "reply"
      BY <2>1
    <3>7. \/ m.kind \in Answered /\ (\E r \in {a, b} : r.kind = "reply") /\ unanswered' = unanswered
          \/ m.kind \in Answered /\ {a, b} = {} /\ unanswered' = unanswered \cup {m.index}
          \/ m.kind \notin Answered /\ {a, b} = {} /\ unanswered' = unanswered
      BY <1>14, <3>5, <3>6
    <3>8. /\ UNCHANGED <<fragments, receivedLength, outstanding, counter, inErrorState, phase,
                         awaiting, pushes>>
          /\ Receive(Server)
      BY <1>3, <1>14
    <3>9. AnswerStep(m, {a, b})
      BY <2>2, <3>4, <3>5, <3>6, <3>7, <3>8 DEF AnswerStep
    <3> QED BY <3>9, AnswerInv
  <2> QED BY <2>3, <2>4, <2>5 DEF Answered
<1> QED BY <1>4, <1>8, <1>13, <1>14

LEMMA ServerPushStep ==
  ASSUME IInv, ServerPush
  PROVE  IInv'
<1> DEFINE k == sent[Server]
<1>1. TypeOK /\ Channels /\ Requests /\ Replies /\ OutstandingAccounted /\ OnlyPushesFail
      /\ OneAtATime
  BY DEF IInv
<1>2. Client \in Peers /\ Server \in Peers /\ Other(Client) = Server /\ Other(Server) = Client
      /\ Client # Server /\ \A p \in Peers : p = Client \/ p = Server
  BY PeersFacts DEF Peers
<1>3. PICK kind \in {"sign", "bell"}, size \in Sizes :
        /\ Queue(Server, <<[kind |-> kind, index |-> PushIndex]>>, size)
        /\ pushes' = Append(pushes, kind)
  BY DEF ServerPush
<1>4. /\ UNCHANGED <<fragments, receivedLength, receiveQueue, outstanding, counter,
                     inErrorState, phase, awaiting, taken, unanswered>>
      /\ Len(pushes) < PushLimit
  BY DEF ServerPush, streamVars
<1> DEFINE h == [kind |-> kind, index |-> PushIndex]
           a == Numbered(h, size, k + 1)
           w == Extended(wire[Server], a)
<1>5. h \in Header
  BY DEF Header, Kinds, Pushes, PushIndex
<1>6. k \in Nat /\ pushes \in Seq(Pushes)
  BY <1>1, <1>2 DEF TypeOK
<1>7. a \in Message /\ a.n = k + 1 /\ a.kind = kind
  BY <1>5, <1>6, NumberedFacts
<1>8. wire' = [wire EXCEPT ![Server] = w] /\ sent' = [sent EXCEPT ![Server] = k + 1]
  BY <1>1, <1>2, <1>3, <1>5, QueueOne
<1> HIDE DEF a, h
<1>9. /\ Channel(w, fragments[Client], receivedLength[Client], receiveQueue[Client],
                 taken[Server], k + 1)
      /\ Between(w, fragments[Client], receiveQueue[Client]) = Underway(Client) \cup {a}
  BY <1>1, <1>2, <1>7, WaySent
<1> HIDE DEF w, k
<1>10. /\ wire'[Client] = wire[Client] /\ sent'[Client] = sent[Client]
       /\ wire' \in [Peers -> Seq(Fragment)] /\ sent' \in [Peers -> Nat]
       /\ Way(Server)'
       /\ Underway(Client)' = Between(w, fragments[Client], receiveQueue[Client])
  BY <1>4, <1>8, <1>9, ServerSends
<1>11. Underway(Client)' = Underway(Client) \cup {a}
  BY <1>9, <1>10
<1>12. Underway(Server)' = Underway(Server)
  <2>1. /\ Underway(Server)' = Between(wire'[Client], fragments'[Server], receiveQueue'[Server])
        /\ Underway(Server) = Between(wire[Client], fragments[Server], receiveQueue[Server])
    BY <1>2, UnderwayIs
  <2> QED BY <1>4, <1>10, <2>1
<1>13. Channels'
  <2>1. Way(Client)'
    <3>1. Way(Client)
      BY <1>1, <1>2 DEF Channels
    <3> QED BY <1>2, <1>4, <1>10, <3>1 DEF Way
  <2> QED BY <1>2, <1>10, <2>1 DEF Channels
<1>14. /\ pushes' \in Seq(Pushes) /\ Len(pushes') = Len(pushes) + 1
       /\ \A i \in 1 .. Len(pushes) : pushes'[i] = pushes[i]
       /\ pushes'[Len(pushes) + 1] = kind
       /\ Len(pushes) \in Nat
  <2>1. kind \in Pushes
    BY DEF Pushes
  <2> QED BY <1>3, <1>6, <2>1, AppendProperties, LenProperties
<1>15. /\ kind = "bell" => Contains(pushes', "bell")
       /\ Contains(pushes, "bell") => Contains(pushes', "bell")
  <2>1. Len(pushes) + 1 \in 1 .. Len(pushes')
    BY <1>14
  <2>2. \A i \in 1 .. Len(pushes) : i \in 1 .. Len(pushes')
    BY <1>14
  <2> QED BY <1>14, <2>1, <2>2 DEF Contains
<1>16. TypeOK'
  <2>1. Len(pushes') <= PushLimit
    BY <1>4, <1>14, MessageAssumption
  <2>2. Idle' = Idle
    BY DEF Idle
  <2> QED BY <1>1, <1>4, <1>10, <1>14, <2>1, <2>2 DEF TypeOK
<1>17. Requests'
  BY <1>1, <1>4, <1>10, <1>12 DEF Requests
<1>18. Replies'
  <2>1. kind \in Pushes /\ kind # "reply"
    BY DEF Pushes
  <2> QED BY <1>1, <1>4, <1>7, <1>11, <1>15, <2>1 DEF Replies
<1>19. OutstandingAccounted'
  <2>1. Asked' = Asked
    BY <1>12 DEF Asked
  <2>2. Replied' = Replied
    <3>1. Replied' = Indices(Underway(Client) \cup {a}, {"reply"})
          /\ Replied = Indices(Underway(Client), {"reply"})
      BY <1>11 DEF Replied
    <3>2. a.kind \notin {"reply"}
      BY <1>7
    <3> QED BY <3>1, <3>2, IndicesAdded
  <2> QED BY <1>1, <1>4, <2>1, <2>2 DEF OutstandingAccounted
<1>20. OnlyPushesFail'
  BY <1>1, <1>4, <1>15 DEF OnlyPushesFail
<1>21. OneAtATime'
  BY <1>1, <1>4 DEF OneAtATime, Idle
<1> QED BY <1>13, <1>16, <1>17, <1>18, <1>19, <1>20, <1>21 DEF IInv

-----------------------------------------------------------------------------
(* The theorems *)

LEMMA NextInv ==
  ASSUME IInv, Next
  PROVE  IInv'
<1>1. CASE \E p \in Peers : Pump(p)
  BY <1>1, PumpStep
<1>2. CASE SendAndAwait
  BY <1>2, SendAndAwaitStep
<1>3. CASE IdleSend
  BY <1>3, IdleSendStep
<1>4. CASE ClientReceive
  BY <1>4, ClientReceiveStep
<1>5. CASE ServerReceive
  BY <1>5, ServerReceiveStep
<1>6. CASE ServerPush
  BY <1>6, ServerPushStep
<1> QED BY <1>1, <1>2, <1>3, <1>4, <1>5, <1>6 DEF Next

LEMMA StutterInv ==
  ASSUME IInv, UNCHANGED vars
  PROVE  IInv'
<1>1. /\ UNCHANGED <<wire, fragments, receivedLength, receiveQueue, taken>>
      /\ UNCHANGED <<outstanding, counter, inErrorState, phase, awaiting, sent, pushes,
                     unanswered>>
  BY DEF vars, streamVars
<1>2. Underway(Client)' = Underway(Client) /\ Underway(Server)' = Underway(Server)
  BY <1>1 DEF Underway
<1>3. TypeOK' /\ OneAtATime'
  BY <1>1 DEF IInv, TypeOK, OneAtATime, Idle
<1>4. Channels'
  BY <1>1 DEF IInv, Channels, Way
<1> QED BY <1>1, <1>2, <1>3, <1>4, KeptInv

\* The invariant the theorems below follow from: the wire and the buffers hold, in
\* order and without a gap, the messages sent and not taken.
THEOREM InvariantHolds == Spec => []IInv
<1>1. Init => IInv
  BY InitInv
<1>2. IInv /\ [Next]_vars => IInv'
  BY NextInv, StutterInv
<1> QED BY <1>1, <1>2, PTL DEF Spec

\* Every variable keeps its type.
THEOREM TypeCorrect == Spec => []TypeOK
<1>1. IInv => TypeOK
  BY DEF IInv
<1> QED BY <1>1, InvariantHolds, PTL

\* FragmentStream puts every payload together from its own fragments, by length
\* alone, and each end receives the other's messages once and in order.
THEOREM MessagesInOrder == Spec => []InOrder
<1>1. IInv => InOrder
  <2> SUFFICES ASSUME IInv, NEW p \in Peers
               PROVE  /\ Len(taken[p]) <= sent[p]
                      /\ \A i \in DOMAIN taken[p] : taken[p][i] = i
                      /\ \A i \in DOMAIN receiveQueue[Other(p)] : receiveQueue[Other(p)][i].whole
    BY DEF InOrder
  <2>1. Channel(wire[p], fragments[Other(p)], receivedLength[Other(p)],
                receiveQueue[Other(p)], taken[p], sent[p])
    BY DEF IInv, Channels, Way
  <2>2. /\ Len(taken[p]) \in Nat /\ Len(receiveQueue[Other(p)]) \in Nat /\ sent[p] \in Nat
        /\ Len(taken[p]) + Len(receiveQueue[Other(p)]) <= sent[p]
    BY <2>1, ChannelFacts, WayTypes
  <2>3. /\ DOMAIN taken[p] = 1 .. Len(taken[p])
        /\ DOMAIN receiveQueue[Other(p)] = 1 .. Len(receiveQueue[Other(p)])
    BY <2>1, WayTypes, LenProperties
  <2>4. /\ \A i \in 1 .. Len(taken[p]) : taken[p][i] = i
        /\ \A i \in 1 .. Len(receiveQueue[Other(p)]) : receiveQueue[Other(p)][i].whole
    BY <2>1 DEF Channel, Queued, Counted
  <2>5. \A a, b, c \in Nat : a + b <= c => a <= c
    OBVIOUS
  <2>6. Len(taken[p]) <= sent[p]
    BY <2>2, <2>5
  <2> QED BY <2>3, <2>4, <2>6
<1> QED BY <1>1, InvariantHolds, PTL

\* OutstandingResponses is exactly what is asked, replied to and on its way, or left
\* unanswered by a handler: Receive never finds a reply it does not expect.
THEOREM RepliesAccounted == Spec => []OutstandingAccounted
<1>1. IInv => OutstandingAccounted
  BY DEF IInv
<1> QED BY <1>1, InvariantHolds, PTL

\* Receive and SendInternal put a stream into its error state only over a push the
\* client has no type for, and the server's never.
THEOREM ErrorsArePushes == Spec => []OnlyPushesFail
<1>1. IInv => OnlyPushesFail
  BY DEF IInv
<1> QED BY <1>1, InvariantHolds, PTL

\* SendAndAwaitWaitForReply compares a reply's index with itself, and yet takes the
\* reply to its own request.
THEOREM RepliesAwaited == Spec => AwaitedAnswer
<1> DEFINE A == phase' # phase => Head(receiveQueue[Client]).msg.index \in awaiting
<1>1. IInv /\ [Next]_vars => [A]_vars
  <2> SUFFICES ASSUME IInv, Next, phase' # phase
               PROVE  Head(receiveQueue[Client]).msg.index \in awaiting
    OBVIOUS
  <2>1. ClientReceive
    BY DEF Next, Pump, SendAndAwait, IdleSend, ServerReceive, ServerPush
  <2> DEFINE m == Head(receiveQueue[Client]).msg
  <2>2. m.kind = "reply" /\ awaiting # {} /\ m.index \in outstanding[Client]
    BY <2>1 DEF ClientReceive, Understood
  <2>3. phase \in 1 .. Idle /\ Idle \in Nat
    BY MessageAssumption DEF IInv, TypeOK, Idle
  <2>4. phase # Idle
    BY <2>2 DEF IInv, OneAtATime
  <2>5. phase < Idle
    BY <2>3, <2>4
  <2>6. outstanding[Client] \subseteq awaiting
    BY <2>5 DEF IInv, OneAtATime
  <2> QED BY <2>2, <2>6
<1> QED BY <1>1, InvariantHolds, PTL DEF Spec, AwaitedAnswer
=============================================================================
