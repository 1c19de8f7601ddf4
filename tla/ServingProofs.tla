---------------------------- MODULE ServingProofs ----------------------------
(***************************************************************************)
(* Proofs about the upload half of a session, for any number of            *)
(* connections, pieces and slots and queues of any length: what a peer     *)
(* reads of being choked and of our pieces is what the session decided.    *)
(***************************************************************************)
EXTENDS Serving, SequenceTheorems, TLAPS

(* CHOKE and UNCHOKE.                                                      *)
Switch(m) == m.kind \in {"choke", "unchoke"}

(* A peer with the view v that reads the first n messages of q has the     *)
(* view b then: that of the last switch among them, if there is one.       *)
Says(v, q, n, b) ==
    \/ /\ b = v
       /\ \A j \in 1 .. n : ~ Switch(q[j])
    \/ \E i \in 1 .. n :
          /\ Switch(q[i]) /\ b = (q[i].kind = "unchoke")
          /\ \A j \in 1 .. n : i < j => ~ Switch(q[j])

(* Blocks of q reach a peer with the view v while it is unchoked, and when *)
(* it has read all of q its view is b.                                     *)
Served(v, q, b) ==
    /\ \A i \in 1 .. Len(q) : q[i].kind = "piece" => Says(v, q, i, TRUE)
    /\ Says(v, q, Len(q), b)

(* What a peer that knows the pieces k knows when it has read q.           *)
Tells(m) == m.kind \in {"have", "bitfield"}
Told(k, q) ==
    k \cup UNION {q[i].pieces : i \in {j \in 1 .. Len(q) : Tells(q[j])}}

-----------------------------------------------------------------------------
(* Queues. *)

(* The parts of a message. *)
LEMMA MessageFacts ==
    /\ \A m \in Messages : m.kind \in Kinds /\ m.pieces \in SUBSET Pieces
    /\ \A k \in Kinds, S \in SUBSET Pieces :
          /\ Message(k, S) \in Messages
          /\ Message(k, S).kind = k /\ Message(k, S).pieces = S
BY DEF Messages, Message

(* A message that is appended leaves those before it where they are. *)
LEMMA SendOne ==
    ASSUME NEW q \in Seq(Messages), NEW m \in Messages
    PROVE  /\ q \o <<m>> \in Seq(Messages)
           /\ Len(q) \in Nat
           /\ Len(q \o <<m>>) = Len(q) + 1
           /\ \A i \in 1 .. Len(q) : (q \o <<m>>)[i] = q[i]
           /\ (q \o <<m>>)[Len(q) + 1] = m
OBVIOUS

(* What the first n messages say depends on them alone. *)
LEMMA SaysSame ==
    ASSUME NEW v, NEW q, NEW r, NEW n \in Nat, NEW b,
           \A i \in 1 .. n : r[i] = q[i]
    PROVE  Says(v, r, n, b) <=> Says(v, q, n, b)
BY DEF Says

(* One more message: a switch has the last word, others change nothing. *)
LEMMA SaysMore ==
    ASSUME NEW v \in BOOLEAN, NEW q, NEW n \in Nat, NEW b \in BOOLEAN,
           Says(v, q, n, b)
    PROVE  Says(v, q, n + 1, ViewAfter(b, q[n + 1]))
<1> DEFINE m == q[n + 1]
<1>1. \A j \in 1 .. n + 1 : j \in 1 .. n \/ j = n + 1
  OBVIOUS
<1>2. n + 1 \in 1 .. n + 1 /\ \A j \in 1 .. n + 1 : ~ (n + 1 < j)
  OBVIOUS
<1>3. CASE Switch(m)
  <2>1. ViewAfter(b, m) = (m.kind = "unchoke")
    BY <1>3 DEF Switch, ViewAfter
  <2> QED BY <1>2, <1>3, <2>1 DEF Says
<1>4. CASE ~ Switch(m)
  <2>1. ViewAfter(b, m) = b
    BY <1>4 DEF Switch, ViewAfter
  <2>2. CASE b = v /\ \A j \in 1 .. n : ~ Switch(q[j])
    <3>1. \A j \in 1 .. n + 1 : ~ Switch(q[j])
      BY <1>1, <1>4, <2>2
    <3> QED BY <2>1, <2>2, <3>1 DEF Says
  <2>3. ASSUME NEW i \in 1 .. n,
               Switch(q[i]), b = (q[i].kind = "unchoke"),
               \A j \in 1 .. n : i < j => ~ Switch(q[j])
        PROVE  Says(v, q, n + 1, b)
    <3>1. i \in 1 .. n + 1
      OBVIOUS
    <3>2. \A j \in 1 .. n + 1 : i < j => ~ Switch(q[j])
      BY <1>1, <1>4, <2>3
    <3> QED BY <2>3, <3>1, <3>2 DEF Says
  <2> QED BY <2>1, <2>2, <2>3 DEF Says
<1> QED BY <1>3, <1>4

(* The peer reads the first message. *)
LEMMA SaysRead ==
    ASSUME NEW v \in BOOLEAN, NEW q, NEW r, NEW n \in Nat, NEW b \in BOOLEAN,
           \A i \in 1 .. n : r[i] = q[i + 1],
           Says(v, q, n + 1, b)
    PROVE  Says(ViewAfter(v, q[1]), r, n, b)
<1> DEFINE w == ViewAfter(v, q[1])
<1>1. \A i \in 1 .. n : i + 1 \in 1 .. n + 1
  OBVIOUS
<1>2. CASE b = v /\ \A j \in 1 .. n + 1 : ~ Switch(q[j])
  <2>1. 1 \in 1 .. n + 1
    OBVIOUS
  <2>2. w = v
    BY <1>2, <2>1 DEF Switch, ViewAfter
  <2>3. \A j \in 1 .. n : ~ Switch(r[j])
    BY <1>1, <1>2
  <2> QED BY <1>2, <2>2, <2>3 DEF Says
<1>3. ASSUME NEW i \in 1 .. n + 1,
             Switch(q[i]), b = (q[i].kind = "unchoke"),
             \A j \in 1 .. n + 1 : i < j => ~ Switch(q[j])
      PROVE  Says(w, r, n, b)
  <2>1. CASE i = 1
    <3>1. w = b
      BY <1>3, <2>1 DEF Switch, ViewAfter
    <3>2. \A j \in 1 .. n : j + 1 \in 1 .. n + 1 /\ 1 < j + 1
      OBVIOUS
    <3>3. \A j \in 1 .. n : ~ Switch(r[j])
      BY <1>3, <2>1, <3>2
    <3> QED BY <3>1, <3>3 DEF Says
  <2>2. CASE i # 1
    <3>1. i - 1 \in 1 .. n /\ (i - 1) + 1 = i
      BY <2>2
    <3>2. r[i - 1] = q[i]
      BY <3>1
    <3>3. \A j \in 1 .. n : i - 1 < j => j + 1 \in 1 .. n + 1 /\ i < j + 1
      BY <3>1
    <3>4. \A j \in 1 .. n : i - 1 < j => ~ Switch(r[j])
      BY <1>3, <3>3
    <3> QED BY <1>3, <3>1, <3>2, <3>4 DEF Says
  <2> QED BY <2>1, <2>2
<1> QED BY <1>2, <1>3 DEF Says

(* sendMessage, on what the peer will know of being choked. *)
LEMMA ServedSend ==
    ASSUME NEW v \in BOOLEAN, NEW q \in Seq(Messages), NEW b \in BOOLEAN,
           NEW m \in Messages, m.kind = "piece" => b,
           Served(v, q, b)
    PROVE  Served(v, q \o <<m>>, ViewAfter(b, m))
<1> DEFINE r == q \o <<m>>
           n == Len(q)
<1>1. /\ n \in Nat /\ Len(r) = n + 1
      /\ \A i \in 1 .. n : r[i] = q[i]
      /\ r[n + 1] = m
  BY SendOne
<1> HIDE DEF r, n
<1>2. Says(v, r, n, b)
  <2>1. Says(v, q, n, b)
    BY DEF Served, n
  <2> QED BY <1>1, <2>1, SaysSame
<1>3. Says(v, r, n + 1, ViewAfter(b, m))
  BY <1>1, <1>2, SaysMore
<1>4. ASSUME NEW i \in 1 .. n, r[i].kind = "piece"
      PROVE  Says(v, r, i, TRUE)
  <2>1. Says(v, q, i, TRUE)
    BY <1>1, <1>4 DEF Served, n
  <2>2. i \in Nat /\ \A j \in 1 .. i : j \in 1 .. n
    BY <1>1
  <2>3. \A j \in 1 .. i : r[j] = q[j]
    BY <1>1, <2>2
  <2> QED BY <2>1, <2>2, <2>3, SaysSame
<1>5. m.kind = "piece" => Says(v, r, n + 1, TRUE)
  BY <1>3 DEF ViewAfter
<1>6. \A i \in 1 .. n + 1 : i \in 1 .. n \/ i = n + 1
  BY <1>1
<1>7. \A i \in 1 .. Len(r) : r[i].kind = "piece" => Says(v, r, i, TRUE)
  BY <1>1, <1>4, <1>5, <1>6
<1> QED BY <1>1, <1>3, <1>7 DEF Served, r

(* peerWriter, likewise. *)
LEMMA ServedWrite ==
    ASSUME NEW v \in BOOLEAN, NEW q \in Seq(Messages), NEW b \in BOOLEAN,
           q # <<>>, Served(v, q, b)
    PROVE  Served(ViewAfter(v, Head(q)), Tail(q), b)
<1> DEFINE r == Tail(q)
           w == ViewAfter(v, Head(q))
<1>1. /\ Len(r) \in Nat /\ Len(q) = Len(r) + 1
      /\ \A i \in 1 .. Len(r) : r[i] = q[i + 1]
      /\ Head(q) = q[1]
  OBVIOUS
<1> HIDE DEF r
<1>2. Says(w, r, Len(r), b)
  <2>1. Says(v, q, Len(r) + 1, b)
    BY <1>1 DEF Served
  <2> QED BY <1>1, <2>1, SaysRead
<1>3. ASSUME NEW i \in 1 .. Len(r), r[i].kind = "piece"
      PROVE  Says(w, r, i, TRUE)
  <2>1. /\ i \in Nat /\ i + 1 \in 1 .. Len(q)
        /\ \A j \in 1 .. i : j \in 1 .. Len(r)
    BY <1>1
  <2>2. Says(v, q, i + 1, TRUE)
    BY <1>1, <1>3, <2>1 DEF Served
  <2>3. \A j \in 1 .. i : r[j] = q[j + 1]
    BY <1>1, <2>1
  <2> QED BY <1>1, <2>1, <2>2, <2>3, SaysRead
<1> QED BY <1>2, <1>3 DEF Served, r

(* A new connection. *)
LEMMA ServedNew ==
    ASSUME NEW m \in Messages, ~ Switch(m), m.kind # "piece"
    PROVE  Served(FALSE, <<m>>, FALSE)
<1>1. Len(<<m>>) = 1 /\ \A i \in 1 .. 1 : <<m>>[i] = m
  OBVIOUS
<1> QED BY <1>1 DEF Served, Says

(* What is told, one by one. *)
LEMMA ToldMembers ==
    ASSUME NEW k, NEW q, NEW x
    PROVE  x \in Told(k, q) <=>
             \/ x \in k
             \/ \E i \in 1 .. Len(q) : Tells(q[i]) /\ x \in q[i].pieces
BY DEF Told

(* sendMessage, on what the peer will know of our pieces. *)
LEMMA ToldSend ==
    ASSUME NEW k, NEW q \in Seq(Messages), NEW m \in Messages
    PROVE  Told(k, q \o <<m>>) = KnownAfter(Told(k, q), m)
<1> DEFINE r == q \o <<m>>
<1>1. /\ Len(q) \in Nat /\ Len(r) = Len(q) + 1
      /\ \A i \in 1 .. Len(q) : r[i] = q[i]
      /\ r[Len(q) + 1] = m
  BY SendOne
<1> HIDE DEF r
<1>2. \A i \in 1 .. Len(r) : i \in 1 .. Len(q) \/ i = Len(q) + 1
  BY <1>1
<1>3. \A i \in 1 .. Len(q) : i \in 1 .. Len(r)
  BY <1>1
<1>4. Len(q) + 1 \in 1 .. Len(r)
  BY <1>1
<1>5. ASSUME NEW x \in Told(k, r)
      PROVE  x \in Told(k, q) \/ (Tells(m) /\ x \in m.pieces)
  <2>1. CASE x \in k
    BY <2>1, ToldMembers
  <2>2. CASE x \notin k
    <3>1. PICK i \in 1 .. Len(r) : Tells(r[i]) /\ x \in r[i].pieces
      BY <1>5, <2>2, ToldMembers
    <3>2. CASE i \in 1 .. Len(q)
      <4>1. Tells(q[i]) /\ x \in q[i].pieces
        BY <1>1, <3>1, <3>2
      <4> QED BY <3>2, <4>1, ToldMembers
    <3>3. CASE i = Len(q) + 1
      BY <1>1, <3>1, <3>3
    <3> QED BY <1>2, <3>2, <3>3
  <2> QED BY <2>1, <2>2
<1>6. Told(k, q) \subseteq Told(k, r)
  <2> SUFFICES ASSUME NEW x \in Told(k, q) PROVE x \in Told(k, r)
    OBVIOUS
  <2>1. CASE x \in k
    BY <2>1, ToldMembers
  <2>2. CASE x \notin k
    <3>1. PICK i \in 1 .. Len(q) : Tells(q[i]) /\ x \in q[i].pieces
      BY <2>2, ToldMembers
    <3>2. i \in 1 .. Len(r) /\ Tells(r[i]) /\ x \in r[i].pieces
      BY <1>1, <1>3, <3>1
    <3> QED BY <3>2, ToldMembers
  <2> QED BY <2>1, <2>2
<1>7. Tells(m) => m.pieces \subseteq Told(k, r)
  <2> SUFFICES ASSUME Tells(m), NEW x \in m.pieces PROVE x \in Told(k, r)
    OBVIOUS
  <2>1. Tells(r[Len(q) + 1]) /\ x \in r[Len(q) + 1].pieces
    BY <1>1
  <2> QED BY <1>4, <2>1, ToldMembers
<1>8. Told(k, r) = KnownAfter(Told(k, q), m)
  <2>1. CASE Tells(m)
    <3>1. KnownAfter(Told(k, q), m) = Told(k, q) \cup m.pieces
      BY <2>1 DEF KnownAfter, Tells
    <3> QED BY <1>5, <1>6, <1>7, <2>1, <3>1
  <2>2. CASE ~ Tells(m)
    <3>1. KnownAfter(Told(k, q), m) = Told(k, q)
      BY <2>2 DEF KnownAfter, Tells
    <3> QED BY <1>5, <1>6, <2>2, <3>1
  <2> QED BY <2>1, <2>2
<1> QED BY <1>8 DEF r

(* peerWriter, likewise. *)
LEMMA ToldWrite ==
    ASSUME NEW k, NEW q \in Seq(Messages), q # <<>>
    PROVE  Told(KnownAfter(k, Head(q)), Tail(q)) = Told(k, q)
<1> DEFINE r == Tail(q)
           h == KnownAfter(k, Head(q))
<1>1. /\ Len(r) \in Nat /\ Len(q) = Len(r) + 1
      /\ \A i \in 1 .. Len(r) : r[i] = q[i + 1]
      /\ Head(q) = q[1]
  OBVIOUS
<1>2. h = IF Tells(q[1]) THEN k \cup q[1].pieces ELSE k
  BY <1>1 DEF KnownAfter, Tells
<1> HIDE DEF r, h
<1>3. 1 \in 1 .. Len(q) /\ \A i \in 1 .. Len(r) : i + 1 \in 1 .. Len(q)
  BY <1>1
<1>4. ASSUME NEW i \in 1 .. Len(q), i # 1
      PROVE  i - 1 \in 1 .. Len(r) /\ q[i] = r[i - 1]
  <2>1. i - 1 \in 1 .. Len(r) /\ (i - 1) + 1 = i
    BY <1>1, <1>4
  <2> QED BY <1>1, <2>1
<1>5. ASSUME NEW x
      PROVE  x \in Told(h, r) <=> x \in Told(k, q)
  <2>1. ASSUME x \in Told(h, r) PROVE x \in Told(k, q)
    <3>1. CASE x \in h
      BY <1>2, <1>3, <3>1, ToldMembers
    <3>2. CASE x \notin h
      <4>1. PICK i \in 1 .. Len(r) : Tells(r[i]) /\ x \in r[i].pieces
        BY <2>1, <3>2, ToldMembers
      <4>2. i + 1 \in 1 .. Len(q) /\ Tells(q[i + 1]) /\ x \in q[i + 1].pieces
        BY <1>1, <1>3, <4>1
      <4> QED BY <4>2, ToldMembers
    <3> QED BY <3>1, <3>2
  <2>2. ASSUME x \in Told(k, q) PROVE x \in Told(h, r)
    <3>1. CASE x \in k
      BY <1>2, <3>1, ToldMembers
    <3>2. CASE x \notin k
      <4>1. PICK i \in 1 .. Len(q) : Tells(q[i]) /\ x \in q[i].pieces
        BY <2>2, <3>2, ToldMembers
      <4>2. CASE i = 1
        BY <1>2, <4>1, <4>2, ToldMembers
      <4>3. CASE i # 1
        <5>1. /\ i - 1 \in 1 .. Len(r)
              /\ Tells(r[i - 1]) /\ x \in r[i - 1].pieces
          BY <1>4, <4>1, <4>3
        <5> QED BY <5>1, ToldMembers
      <4> QED BY <4>2, <4>3
    <3> QED BY <3>1, <3>2
  <2> QED BY <2>1, <2>2
<1>6. Told(h, r) = Told(k, q)
  BY <1>5
<1> QED BY <1>6 DEF r, h

(* ViewAt is what the messages say. *)
LEMMA ViewAtSays ==
    ASSUME NEW c, NEW n \in Nat, NEW b \in BOOLEAN,
           Says(view[c], queue[c], n, b)
    PROVE  ViewAt(c, n) = b
<1> DEFINE q == queue[c]
           S == Switches(c, n)
           Last(i) == i \in S /\ \A j \in S : j <= i
<1>1. \A i : i \in S <=> i \in 1 .. n /\ Switch(q[i])
  BY DEF Switches, Switch
<1>2. CASE b = view[c] /\ \A j \in 1 .. n : ~ Switch(q[j])
  <2>1. S = {}
    BY <1>1, <1>2
  <2> QED BY <1>2, <2>1 DEF ViewAt
<1>3. ASSUME NEW i \in 1 .. n,
             Switch(q[i]), b = (q[i].kind = "unchoke"),
             \A j \in 1 .. n : i < j => ~ Switch(q[j])
      PROVE  ViewAt(c, n) = b
  <2>1. Last(i)
    BY <1>1, <1>3
  <2>2. \A j : Last(j) => j = i
    BY <1>1, <1>3
  <2>3. (CHOOSE j \in S : \A l \in S : l <= j) = i
    BY <2>1, <2>2
  <2>4. S # {}
    BY <2>1
  <2> QED BY <1>3, <2>3, <2>4 DEF ViewAt
<1> QED BY <1>2, <1>3 DEF Says

-----------------------------------------------------------------------------
(* The inductive invariant. *)

Types ==
    /\ peers \subseteq used /\ interested \subseteq peers
    /\ unchoked \subseteq peers /\ open \subseteq peers
    /\ used \subseteq Conns /\ greeted \subseteq used
    /\ held \subseteq Pieces
    /\ theirs \in [Conns -> SUBSET Pieces]
    /\ queue \in [Conns -> Seq(Messages)]
    /\ view \in [Conns -> BOOLEAN]
    /\ known \in [Conns -> SUBSET Pieces]

(* A peer that was never connected knows nothing yet. *)
Fresh == \A c \in Conns \ used : view[c] = FALSE /\ known[c] = {}

ServedOK(c) == Served(view[c], queue[c], c \in unchoked)

ToldOK(c) ==
    /\ Told(known[c], queue[c]) \subseteq held
    /\ c \notin Extended \/ c \in greeted =>
          held \ theirs[c] \subseteq Told(known[c], queue[c])

IInv == Types /\ Fresh /\ \A c \in open : ServedOK(c) /\ ToldOK(c)

(* What the policy does to the set of unchoked peers. *)
LEMMA ChokePeersOK ==
    ASSUME NEW now \in SUBSET peers, unchoked \subseteq peers, NEW o,
           Policy!chokePeers(now, o)
    PROVE  /\ peers' = peers /\ interested' \subseteq peers
           /\ unchoked' \subseteq peers
BY DEF Policy!chokePeers, Policy!Chosen

(* Nothing is sent to c, and nothing of what concerns it changes. *)
LEMMA Untouched ==
    ASSUME NEW c, UNCHANGED <<view[c], queue[c], known[c], held, theirs[c]>>,
           c \in unchoked' <=> c \in unchoked, c \in greeted' <=> c \in greeted
    PROVE  (ServedOK(c) <=> ServedOK(c)') /\ (ToldOK(c) <=> ToldOK(c)')
BY DEF ServedOK, ToldOK, Served, Says, Told

(* sendMessage to c, of a block only if it is unchoked. *)
LEMMA SentServed ==
    ASSUME Types, NEW c \in open, ServedOK(c), NEW m \in Messages,
           queue'[c] = queue[c] \o <<m>>, UNCHANGED view[c],
           m.kind = "piece" => c \in unchoked,
           (c \in unchoked') = ViewAfter(c \in unchoked, m)
    PROVE  ServedOK(c)'
<1>1. c \in Conns /\ view[c] \in BOOLEAN /\ queue[c] \in Seq(Messages)
  BY DEF Types
<1> DEFINE b == c \in unchoked
<1>2. b \in BOOLEAN
  OBVIOUS
<1>3. Served(view[c], queue[c], b) /\ (m.kind = "piece" => b)
  BY DEF ServedOK
<1> HIDE DEF b
<1>4. Served(view[c], queue[c] \o <<m>>, ViewAfter(b, m))
  BY <1>1, <1>2, <1>3, ServedSend
<1>5. Served(view[c], queue'[c], c \in unchoked')
  BY <1>4 DEF b
<1> QED BY <1>5 DEF ServedOK, Served, Says

(* The same, on what c will know of our pieces: what is new it has, or the *)
(* message tells it.                                                       *)
LEMMA SentTold ==
    ASSUME Types, NEW c \in open, ToldOK(c), NEW m \in Messages,
           queue'[c] = queue[c] \o <<m>>, UNCHANGED <<known[c], theirs[c]>>,
           held \subseteq held', Tells(m) => m.pieces \subseteq held',
           c \in greeted' /\ c \notin greeted =>
               Tells(m) /\ m.pieces = held,
           held' \ held \subseteq theirs[c]
               \/ (Tells(m) /\ held' \ held \subseteq m.pieces)
    PROVE  ToldOK(c)'
<1>1. c \in Conns /\ queue[c] \in Seq(Messages)
  BY DEF Types
<1>2. Told(known[c], queue[c] \o <<m>>) = KnownAfter(Told(known[c], queue[c]), m)
  BY <1>1, ToldSend
<1>3. Told(known'[c], queue'[c]) = IF Tells(m)
                                   THEN Told(known[c], queue[c]) \cup m.pieces
                                   ELSE Told(known[c], queue[c])
  BY <1>2 DEF KnownAfter, Tells
<1>4. Told(known[c], queue[c])' = Told(known'[c], queue'[c])
  BY DEF Told
<1> HIDE DEF Types
<1>5. Told(known'[c], queue'[c]) \subseteq held'
  BY <1>3 DEF ToldOK
<1>6. c \notin Extended \/ c \in greeted' =>
         held' \ theirs'[c] \subseteq Told(known'[c], queue'[c])
  <2> SUFFICES ASSUME c \notin Extended \/ c \in greeted',
                      NEW i \in held' \ theirs'[c]
               PROVE  i \in Told(known'[c], queue'[c])
    OBVIOUS
  <2>1. CASE i \in held
    BY <1>3, <2>1 DEF ToldOK
  <2>2. CASE i \notin held
    BY <1>3, <2>2
  <2> QED BY <2>1, <2>2
<1> QED BY <1>4, <1>5, <1>6 DEF ToldOK

(* The queues after a call of Send. *)
LEMMA SendFacts ==
    ASSUME Types, NEW to, queue' = Send(to),
           \A c \in open : to[c] = <<>> \/ \E m \in Messages : to[c] = <<m>>
    PROVE  /\ queue' \in [Conns -> Seq(Messages)]
           /\ \A c \in open : to[c] = <<>> => queue'[c] = queue[c]
           /\ \A c \in open, m \in Messages :
                 to[c] = <<m>> => queue'[c] = queue[c] \o <<m>>
<1>1. open \subseteq Conns /\ \A c \in Conns : queue[c] \in Seq(Messages)
  BY DEF Types
<1>2. \A c \in open : queue'[c] = queue[c] \o to[c]
  BY <1>1 DEF Send
<1>3. ASSUME NEW c \in open, to[c] = <<>> PROVE queue'[c] = queue[c]
  <2>1. queue[c] \in Seq(Messages) /\ queue'[c] = queue[c] \o <<>>
    BY <1>1, <1>2, <1>3
  <2> QED BY <2>1, ConcatEmptySeq
<1>4. ASSUME NEW c \in open PROVE queue'[c] \in Seq(Messages)
  <2>1. queue[c] \in Seq(Messages)
    BY <1>1
  <2>2. ASSUME NEW m \in Messages, to[c] = <<m>>
        PROVE  queue'[c] \in Seq(Messages)
    <3>1. queue'[c] = queue[c] \o <<m>>
      BY <1>2, <2>2
    <3> QED BY <2>1, <3>1, SendOne
  <2> QED BY <1>3, <2>1, <2>2
<1>5. queue' \in [Conns -> Seq(Messages)]
  BY <1>1, <1>4 DEF Send
<1> QED BY <1>2, <1>3, <1>5

(* A call of the choke policy, whatever has led to it. *)
LEMMA ChokeOK ==
    ASSUME IInv, NEW now \in SUBSET peers, NEW o, Policy!chokePeers(now, o),
           Choke
    PROVE  IInv'
<1> DEFINE to == SetChoke(unchoked, unchoked')
<1>1. /\ peers' = peers /\ interested' \subseteq peers
      /\ unchoked' \subseteq peers
  BY ChokePeersOK DEF IInv, Types
<1>2. /\ queue' = Send(to)
      /\ UNCHANGED <<held, theirs, greeted, open, used, view, known>>
  BY DEF Choke
<1>3. \A c \in open :
         /\ c \in unchoked' /\ c \notin unchoked =>
               to[c] = <<Message("unchoke", {})>>
         /\ c \in unchoked /\ c \notin unchoked' =>
               to[c] = <<Message("choke", {})>>
         /\ (c \in unchoked <=> c \in unchoked') => to[c] = <<>>
  <2>1. open \subseteq Conns
    BY DEF IInv, Types
  <2> QED BY <2>1 DEF SetChoke
<1> HIDE DEF to
<1>4. /\ Message("unchoke", {}) \in Messages
      /\ Message("unchoke", {}).kind = "unchoke"
      /\ Message("choke", {}) \in Messages
      /\ Message("choke", {}).kind = "choke"
  <2>1. {"unchoke", "choke"} \subseteq Kinds /\ {} \in SUBSET Pieces
    BY DEF Kinds
  <2> QED BY <2>1, MessageFacts
<1>5. \A c \in open : to[c] = <<>> \/ \E m \in Messages : to[c] = <<m>>
  BY <1>3, <1>4
<1>6. /\ queue' \in [Conns -> Seq(Messages)]
      /\ \A c \in open : to[c] = <<>> => queue'[c] = queue[c]
      /\ \A c \in open, m \in Messages :
            to[c] = <<m>> => queue'[c] = queue[c] \o <<m>>
  BY <1>2, <1>5, SendFacts DEF IInv
<1>7. Types'
  BY <1>1, <1>2, <1>6 DEF IInv, Types
<1>8. ASSUME NEW c \in open, NEW m \in Messages, to[c] = <<m>>,
             m.kind \in {"choke", "unchoke"},
             (c \in unchoked') = ViewAfter(c \in unchoked, m)
      PROVE  ServedOK(c)' /\ ToldOK(c)'
  <2>1. queue'[c] = queue[c] \o <<m>>
    BY <1>6, <1>8
  <2>2. ServedOK(c) /\ ToldOK(c) /\ Types
    BY DEF IInv
  <2>3. ~ Tells(m) /\ m.kind # "piece"
    BY <1>8 DEF Tells
  <2>4. ServedOK(c)'
    BY <1>2, <1>8, <2>1, <2>2, <2>3, SentServed
  <2>5. ToldOK(c)'
    BY <1>2, <1>8, <2>1, <2>2, <2>3, SentTold
  <2> QED BY <2>4, <2>5
<1>9. ASSUME NEW c \in open PROVE ServedOK(c)' /\ ToldOK(c)'
  <2>1. CASE c \in unchoked' /\ c \notin unchoked
    <3>1. (c \in unchoked') = ViewAfter(c \in unchoked, Message("unchoke", {}))
      BY <1>4, <2>1 DEF ViewAfter
    <3> QED BY <1>3, <1>4, <1>8, <2>1, <3>1
  <2>2. CASE c \in unchoked /\ c \notin unchoked'
    <3>1. ViewAfter(c \in unchoked, Message("choke", {})) = FALSE
      BY <1>4 DEF ViewAfter
    <3>2. (c \in unchoked') = FALSE
      BY <2>2
    <3> QED BY <1>3, <1>4, <1>8, <2>2, <3>1, <3>2
  <2>3. CASE c \in unchoked <=> c \in unchoked'
    <3>1. queue'[c] = queue[c]
      BY <1>3, <1>6, <2>3
    <3> QED BY <1>2, <2>3, <3>1, Untouched DEF IInv
  <2> QED BY <2>1, <2>2, <2>3
<1> QED BY <1>2, <1>7, <1>9 DEF IInv, Fresh
(* A message other than CHOKE and UNCHOKE for the peers in S. *)
LEMMA SendAllOK ==
    ASSUME IInv, NEW S, NEW m \in Messages, queue' = Send(ToAll(S, m)),
           UNCHANGED <<choking, theirs, open, used, view, known>>,
           ~ Switch(m), m.kind = "piece" => S \subseteq unchoked,
           held \subseteq held', held' \subseteq Pieces,
           Tells(m) => m.pieces \subseteq held',
           greeted \subseteq greeted', greeted' \subseteq used,
           \A c \in open : c \in greeted' /\ c \notin greeted =>
               c \in S /\ Tells(m) /\ m.pieces = held,
           \A c \in open :
               \/ held' \ held \subseteq theirs[c]
               \/ c \in S /\ Tells(m) /\ held' \ held \subseteq m.pieces
    PROVE  IInv'
<1> DEFINE to == ToAll(S, m)
<1>1. Types /\ open \subseteq Conns /\ UNCHANGED <<peers, interested, unchoked>>
  BY DEF IInv, Types, choking
<1>2. /\ \A c \in open : c \in S => to[c] = <<m>>
      /\ \A c \in open : c \notin S => to[c] = <<>>
  BY <1>1 DEF ToAll
<1> HIDE DEF to
<1>3. /\ queue' \in [Conns -> Seq(Messages)]
      /\ \A c \in open : c \notin S => queue'[c] = queue[c]
      /\ \A c \in open : c \in S => queue'[c] = queue[c] \o <<m>>
  <2>1. queue' = Send(to)
    BY DEF to
  <2>2. \A c \in open : to[c] = <<>> \/ \E n \in Messages : to[c] = <<n>>
    BY <1>2
  <2> QED BY <1>1, <1>2, <2>1, <2>2, SendFacts
<1>4. Types'
  BY <1>1, <1>3 DEF IInv, Types
<1>5. ASSUME NEW c \in open PROVE ServedOK(c)' /\ ToldOK(c)'
  <2>1. ServedOK(c) /\ ToldOK(c)
    BY DEF IInv
  <2>2. CASE c \in S
    <3>1. queue'[c] = queue[c] \o <<m>>
      BY <1>3, <2>2
    <3>2. (c \in unchoked') = ViewAfter(c \in unchoked, m)
      BY <1>1 DEF ViewAfter, Switch
    <3>3. ServedOK(c)'
      BY <1>1, <2>1, <2>2, <3>1, <3>2, SentServed
    <3>4. ToldOK(c)'
      BY <1>1, <2>1, <3>1, SentTold
    <3> QED BY <3>3, <3>4
  <2>3. CASE c \notin S
    <3>1. queue'[c] = queue[c] /\ known'[c] = known[c] /\ view'[c] = view[c]
      BY <1>3, <2>3
    <3>2. ServedOK(c)'
      BY <1>1, <2>1, <3>1 DEF ServedOK, Served, Says
    <3>3. Told(known[c], queue[c])' = Told(known[c], queue[c])
      BY <3>1 DEF Told
    <3>4. held' \ held \subseteq theirs[c]
      BY <2>3
    <3>5. c \in greeted' => c \in greeted
      BY <2>3
    <3>6. ToldOK(c)'
      BY <2>1, <3>3, <3>4, <3>5 DEF ToldOK
    <3> QED BY <3>2, <3>6
  <2> QED BY <2>2, <2>3
<1> QED BY <1>4, <1>5 DEF IInv, Fresh

(* A connection is over, at the session or at the peer. *)
LEMMA CloseOK ==
    ASSUME IInv, NEW c, queue' = [queue EXCEPT ![c] = <<>>],
           open' = open \ {c},
           UNCHANGED <<held, theirs, greeted, used, view, known>>,
           peers \ {c} \subseteq peers', peers' \subseteq peers,
           interested' \subseteq peers', unchoked' \subseteq peers',
           \A d \in open' : d \in unchoked' <=> d \in unchoked
    PROVE  IInv'
<1>1. Types'
  BY EmptySeq DEF IInv, Types
<1>2. ASSUME NEW d \in open' PROVE ServedOK(d)' /\ ToldOK(d)'
  <2>1. d \in open /\ queue'[d] = queue[d]
    BY DEF IInv, Types
  <2>2. ServedOK(d) /\ ToldOK(d)
    BY <2>1 DEF IInv
  <2> QED BY <2>1, <2>2, Untouched
<1> QED BY <1>1, <1>2 DEF IInv, Fresh

(* The first message to a new peer is no switch, and it tells all we have, *)
(* unless the peer has still to send its EXTENSION message.                *)
LEMMA AddOK ==
    ASSUME IInv, NEW c \in Conns, addPeerImp(c)
    PROVE  IInv'
<1>1. /\ c \notin used /\ used' = used \cup {c} /\ open' = open \cup {c}
      /\ peers' = peers \cup {c} /\ UNCHANGED <<interested, unchoked>>
      /\ queue' = [queue EXCEPT ![c] = Welcome(c)]
      /\ UNCHANGED <<held, theirs, greeted, view, known>>
  BY DEF addPeerImp, Policy!AddPeer
<1>2. c \notin greeted /\ c \notin unchoked /\ c \notin open
      /\ queue'[c] = Welcome(c)
      /\ view[c] = FALSE /\ known[c] = {}
  BY <1>1 DEF IInv, Types, Fresh
<1> DEFINE m == IF c \in Extended THEN Message("extension", {})
                ELSE Message("bitfield", held)
<1>3. /\ m \in Messages /\ ~ Switch(m) /\ m.kind # "piece"
      /\ Tells(m) => m.pieces = held
      /\ c \notin Extended => Tells(m) /\ m.pieces = held
      /\ Welcome(c) = <<m>>
  <2>1. {"extension", "bitfield"} \subseteq Kinds
        /\ {} \in SUBSET Pieces /\ held \in SUBSET Pieces
    BY DEF Kinds, IInv, Types
  <2>2. CASE c \in Extended
    <3>1. m = Message("extension", {})
      BY <2>2
    <3> HIDE DEF m
    <3>2. m \in Messages /\ m.kind = "extension"
      BY <2>1, <3>1, MessageFacts
    <3> QED BY <2>2, <3>1, <3>2 DEF Switch, Tells, Welcome
  <2>3. CASE c \notin Extended
    <3>1. m = Message("bitfield", held)
      BY <2>3
    <3> HIDE DEF m
    <3>2. m \in Messages /\ m.kind = "bitfield" /\ m.pieces = held
      BY <2>1, <3>1, MessageFacts
    <3> QED BY <2>3, <3>1, <3>2 DEF Switch, Tells, Welcome
  <2> QED BY <2>2, <2>3
<1> HIDE DEF m
<1>4. <<m>> \in Seq(Messages) /\ Len(<<m>>) = 1 /\ <<m>>[1] = m
  BY <1>3
<1>5. Types'
  BY <1>1, <1>3, <1>4 DEF IInv, Types
<1>6. Fresh'
  BY <1>1 DEF IInv, Fresh
<1>7. ServedOK(c)'
  <2>1. Served(FALSE, <<m>>, FALSE)
    BY <1>3, ServedNew
  <2>2. Served(view'[c], queue'[c], c \in unchoked')
    <3>1. view'[c] = FALSE /\ queue'[c] = <<m>> /\ (c \in unchoked') = FALSE
      BY <1>1, <1>2, <1>3
    <3> QED BY <2>1, <3>1
  <2> QED BY <2>2 DEF ServedOK, Served, Says
<1>8. ToldOK(c)'
  <2>1. queue'[c] = <<m>> /\ known'[c] = {}
    BY <1>1, <1>2, <1>3
  <2>2. \A x : x \in Told(known'[c], queue'[c]) <=> Tells(m) /\ x \in m.pieces
    BY <1>4, <2>1, ToldMembers
  <2>3. Told(known[c], queue[c])' = Told(known'[c], queue'[c])
    BY DEF Told
  <2>4. Told(known[c], queue[c])' \subseteq held
    BY <1>3, <2>2, <2>3
  <2>5. c \notin Extended => held \subseteq Told(known[c], queue[c])'
    BY <1>3, <2>2, <2>3
  <2> QED BY <1>1, <1>2, <2>4, <2>5 DEF ToldOK
<1>9. ASSUME NEW d \in open PROVE ServedOK(d)' /\ ToldOK(d)'
  <2>1. d # c /\ queue'[d] = queue[d]
    BY <1>1, <1>2 DEF IInv, Types
  <2> QED BY <1>1, <2>1, Untouched DEF IInv
<1> QED BY <1>1, <1>5, <1>6, <1>7, <1>8, <1>9 DEF IInv

(* peerWriter: what the peer has read and what still waits for it say      *)
(* together what they said before.                                         *)
LEMMA WriteOK ==
    ASSUME IInv, NEW c \in Conns, Write(c)
    PROVE  IInv'
<1>1. /\ c \in open /\ queue[c] # <<>>
      /\ view' = [view EXCEPT ![c] = ViewAfter(@, Head(queue[c]))]
      /\ known' = [known EXCEPT ![c] = KnownAfter(@, Head(queue[c]))]
      /\ queue' = [queue EXCEPT ![c] = Tail(@)]
      /\ UNCHANGED <<choking, held, theirs, greeted, open, used>>
  BY DEF Write
<1>2. /\ queue[c] \in Seq(Messages) /\ view[c] \in BOOLEAN
      /\ known[c] \in SUBSET Pieces /\ c \in used
      /\ UNCHANGED <<peers, interested, unchoked>>
  BY <1>1 DEF IInv, Types, choking
<1>3. /\ view'[c] = ViewAfter(view[c], Head(queue[c]))
      /\ known'[c] = KnownAfter(known[c], Head(queue[c]))
      /\ queue'[c] = Tail(queue[c])
      /\ \A d \in Conns \ {c} : /\ view'[d] = view[d] /\ known'[d] = known[d]
                                /\ queue'[d] = queue[d]
  BY <1>1 DEF IInv, Types
<1>4. Tail(queue[c]) \in Seq(Messages) /\ Head(queue[c]) \in Messages
  BY <1>1, <1>2, HeadTailProperties
<1>5. ViewAfter(view[c], Head(queue[c])) \in BOOLEAN
  BY <1>2 DEF ViewAfter
<1>6. KnownAfter(known[c], Head(queue[c])) \in SUBSET Pieces
  BY <1>2, <1>4, MessageFacts DEF KnownAfter
<1>7. Types'
  BY <1>1, <1>2, <1>4, <1>5, <1>6 DEF IInv, Types
<1>8. Fresh'
  BY <1>1, <1>2, <1>3 DEF IInv, Fresh
<1>9. ServedOK(c)'
  <2>1. Served(view[c], queue[c], c \in unchoked)
        /\ (c \in unchoked) \in BOOLEAN
    BY <1>1 DEF IInv, ServedOK
  <2>2. Served(ViewAfter(view[c], Head(queue[c])), Tail(queue[c]),
               c \in unchoked)
    BY <1>1, <1>2, <2>1, ServedWrite
  <2>3. Served(view'[c], queue'[c], c \in unchoked')
    BY <1>2, <1>3, <2>2
  <2> QED BY <2>3 DEF ServedOK, Served, Says
<1>10. ToldOK(c)'
  <2>1. Told(known'[c], queue'[c]) = Told(known[c], queue[c])
    BY <1>1, <1>2, <1>3, ToldWrite
  <2>2. Told(known[c], queue[c])' = Told(known'[c], queue'[c])
    BY DEF Told
  <2>3. ToldOK(c)
    BY <1>1 DEF IInv
  <2> QED BY <1>1, <2>1, <2>2, <2>3 DEF ToldOK
<1>11. ASSUME NEW d \in open, d # c PROVE ServedOK(d)' /\ ToldOK(d)'
  <2>1. d \in Conns \ {c}
    BY <1>11 DEF IInv, Types
  <2> QED BY <1>1, <1>2, <1>3, <2>1, Untouched DEF IInv
<1> QED BY <1>1, <1>7, <1>8, <1>9, <1>10, <1>11 DEF IInv
(* HAVE and BITFIELD from a peer only lessen what it has to be told. *)
LEMMA HaveOK ==
    ASSUME IInv, NEW c \in Conns, NEW S \in SUBSET Pieces, Have(c, S)
    PROVE  IInv'
<1>1. /\ theirs' = [theirs EXCEPT ![c] = @ \cup S]
      /\ UNCHANGED <<peers, interested, unchoked, held, greeted, open, used,
                     queue, view, known>>
  BY DEF Have, choking, wires
<1>2. Types'
  BY <1>1 DEF IInv, Types
<1>3. ASSUME NEW d \in open PROVE ServedOK(d)' /\ ToldOK(d)'
  <2>1. ServedOK(d) /\ ToldOK(d) /\ d \in Conns
    BY DEF IInv, Types
  <2>2. theirs[d] \subseteq theirs'[d]
    BY <1>1, <2>1 DEF IInv, Types
  <2>3. ServedOK(d)'
    BY <1>1, <2>1 DEF ServedOK, Served, Says
  <2>4. Told(known[d], queue[d])' = Told(known[d], queue[d])
    BY <1>1 DEF Told
  <2>5. ToldOK(d)'
    BY <1>1, <2>1, <2>2, <2>4 DEF ToldOK
  <2> QED BY <2>3, <2>5
<1> QED BY <1>1, <1>2, <1>3 DEF IInv, Fresh

(* Every step of the program keeps the invariant. *)
LEMMA NextIInv == IInv /\ [Next]_vars => IInv'
<1> SUFFICES ASSUME IInv, [Next]_vars PROVE IInv'
  OBVIOUS
<1>0. /\ {"bitfield", "have", "piece", "keepalive"} \subseteq Kinds
      /\ {} \in SUBSET Pieces /\ held \in SUBSET Pieces
      /\ \A j \in Pieces : {j} \in SUBSET Pieces
  BY DEF Kinds, IInv, Types
<1>1. ASSUME NEW c \in Conns, addPeerImp(c) PROVE IInv'
  BY <1>1, AddOK
<1>2. ASSUME NEW c \in Conns, Refused(c) PROVE IInv'
  <2>1. /\ peers' = peers \ {c} /\ interested' = interested \ {c}
        /\ unchoked' = unchoked \ {c}
        /\ open' = open \ {c} /\ queue' = [queue EXCEPT ![c] = <<>>]
        /\ UNCHANGED <<held, theirs, greeted, used, view, known>>
    BY <1>2 DEF Refused, ClosePeer, Policy!ClosePeer
  <2>2. /\ interested' \subseteq peers' /\ unchoked' \subseteq peers'
        /\ \A d \in open' : d \in unchoked' <=> d \in unchoked
    BY <2>1 DEF IInv, Types
  <2>3. peers \ {c} \subseteq peers' /\ peers' \subseteq peers
    BY <2>1
  <2> QED BY <2>1, <2>2, <2>3, CloseOK
<1>3. ASSUME NEW c \in Conns, Disconnect(c) PROVE IInv'
  <2>1. /\ open' = open \ {c} /\ queue' = [queue EXCEPT ![c] = <<>>]
        /\ UNCHANGED <<peers, interested, unchoked, held, theirs, greeted,
                       used, view, known>>
    BY <1>3 DEF Disconnect, choking
  <2>2. interested' \subseteq peers' /\ unchoked' \subseteq peers'
    BY <2>1 DEF IInv, Types
  <2> QED BY <2>1, <2>2, CloseOK
<1>4. ASSUME NEW c \in Conns, Interested(c) \/ NotInterested(c) PROVE IInv'
  <2>1. PICK now \in SUBSET peers, o \in Slots :
           Policy!chokePeers(now, o) /\ Choke
    <3>1. CASE Interested(c)
      <4>1. (interested \cup {c}) \cap peers \in SUBSET peers
        OBVIOUS
      <4> QED BY <3>1, <4>1 DEF Interested, Policy!Interested, Policy!Slots,
                               Slots
    <3>2. CASE NotInterested(c)
      <4>1. interested \ {c} \in SUBSET peers
        BY DEF IInv, Types
      <4> QED BY <3>2, <4>1 DEF NotInterested, Policy!NotInterested,
                               Policy!Slots, Slots
    <3> QED BY <1>4, <3>1, <3>2
  <2> QED BY <2>1, ChokeOK
<1>5. ASSUME NEW o \in Slots, Tick(o) PROVE IInv'
  <2>1. Policy!chokePeers(interested, o) /\ Choke
    BY <1>5 DEF Tick, Policy!Tick
  <2>2. interested \in SUBSET peers
    BY DEF IInv, Types
  <2> QED BY <2>1, <2>2, ChokeOK
<1>6. ASSUME NEW c \in Conns, Extension(c) PROVE IInv'
  <2> DEFINE m == Message("bitfield", held)
  <2>1. m \in Messages /\ m.kind = "bitfield" /\ m.pieces = held
    BY <1>0, MessageFacts
  <2>2. /\ c \in peers /\ greeted' = greeted \cup {c}
        /\ queue' = Send(ToAll({c}, m))
        /\ UNCHANGED <<choking, held, theirs, open, used, view, known>>
    BY <1>6 DEF Extension
  <2> HIDE DEF m
  <2>3. ~ Switch(m) /\ m.kind # "piece" /\ Tells(m)
    BY <2>1 DEF Switch, Tells
  <2>4. greeted' \subseteq used /\ held' \subseteq Pieces
    BY <2>2 DEF IInv, Types
  <2> QED BY <2>1, <2>2, <2>3, <2>4, SendAllOK
<1>7. ASSUME NEW c \in Conns, NEW j \in Pieces, Request(c, j) PROVE IInv'
  <2> DEFINE m == Message("piece", {j})
  <2>1. m \in Messages /\ m.kind = "piece"
    BY <1>0, MessageFacts
  <2>2. /\ queue' = Send(ToAll({c} \cap unchoked, m))
        /\ UNCHANGED <<choking, held, theirs, greeted, open, used, view,
                       known>>
    BY <1>7 DEF Request
  <2> HIDE DEF m
  <2>3. ~ Switch(m) /\ ~ Tells(m)
    BY <2>1 DEF Switch, Tells
  <2>4. greeted' \subseteq used /\ held' \subseteq Pieces
    BY <2>2 DEF IInv, Types
  <2> QED BY <2>1, <2>2, <2>3, <2>4, SendAllOK
<1>8. ASSUME NEW j \in Pieces, Acquire(j) PROVE IInv'
  <2> DEFINE m == Message("have", {j})
             S == {d \in peers : j \notin theirs[d]}
  <2>1. m \in Messages /\ m.kind = "have" /\ m.pieces = {j}
    BY <1>0, MessageFacts
  <2>2. /\ held' = held \cup {j} /\ queue' = Send(ToAll(S, m))
        /\ UNCHANGED <<choking, theirs, greeted, open, used, view, known>>
    BY <1>8 DEF Acquire
  <2>3. \A d \in open : d \in S \/ j \in theirs[d]
    BY DEF IInv, Types
  <2> HIDE DEF m, S
  <2>4. ~ Switch(m) /\ m.kind # "piece" /\ Tells(m)
    BY <2>1 DEF Switch, Tells
  <2>5. greeted' \subseteq used /\ held' \subseteq Pieces
    BY <2>2 DEF IInv, Types
  <2>6. m.pieces \subseteq held' /\ held' \ held \subseteq m.pieces
    BY <2>1, <2>2
  <2>7. \A d \in open :
           \/ held' \ held \subseteq theirs[d]
           \/ d \in S /\ Tells(m) /\ held' \ held \subseteq m.pieces
    BY <2>2, <2>3, <2>4, <2>6
  <2> QED BY <2>1, <2>2, <2>4, <2>5, <2>6, <2>7, SendAllOK
<1>9. CASE KeepAlive
  <2> DEFINE m == Message("keepalive", {})
  <2>1. m \in Messages /\ m.kind = "keepalive"
    BY <1>0, MessageFacts
  <2>2. /\ queue' = Send(ToAll(peers, m))
        /\ UNCHANGED <<choking, held, theirs, greeted, open, used, view,
                       known>>
    BY <1>9 DEF KeepAlive
  <2> HIDE DEF m
  <2>3. ~ Switch(m) /\ m.kind # "piece" /\ ~ Tells(m)
    BY <2>1 DEF Switch, Tells
  <2>4. greeted' \subseteq used /\ held' \subseteq Pieces
    BY <2>2 DEF IInv, Types
  <2> QED BY <2>1, <2>2, <2>3, <2>4, SendAllOK
<1>10. ASSUME NEW c \in Conns, Write(c) PROVE IInv'
  BY <1>10, WriteOK
<1>11. ASSUME NEW c \in Conns, NEW S \in SUBSET Pieces, Have(c, S)
       PROVE  IInv'
  BY <1>11, HaveOK
<1>12. ASSUME UNCHANGED vars PROVE IInv'
  <2>1. UNCHANGED <<peers, interested, unchoked, held, theirs, greeted, open,
                    used, queue, view, known>>
    BY <1>12 DEF vars
  <2>2. \A d \in open : ServedOK(d)' /\ ToldOK(d)'
    BY <2>1, Untouched DEF IInv
  <2>3. Types' /\ Fresh'
    BY <2>1 DEF IInv, Types, Fresh
  <2> QED BY <2>1, <2>2, <2>3 DEF IInv
<1>13. ASSUME NEW c \in Conns, NEW j \in Pieces, Cancel(c, j) PROVE IInv'
  BY <1>12, <1>13 DEF Cancel
<1> QED BY <1>1, <1>2, <1>3, <1>4, <1>5, <1>6, <1>7, <1>8, <1>9, <1>10,
           <1>11, <1>12, <1>13 DEF Next

(* A session begins without peers. *)
LEMMA InitIInv == Init => IInv
<1> SUFFICES ASSUME Init PROVE IInv
  OBVIOUS
<1>1. /\ peers = {} /\ interested = {} /\ unchoked = {} /\ open = {}
      /\ used = {} /\ greeted = {} /\ held \in SUBSET Pieces
      /\ theirs = [c \in Conns |-> {}] /\ queue = [c \in Conns |-> <<>>]
      /\ view = [c \in Conns |-> FALSE] /\ known = [c \in Conns |-> {}]
  BY DEF Init, Policy!Init
<1>2. Types
  BY <1>1 DEF Types
<1> QED BY <1>1, <1>2 DEF IInv, Fresh

-----------------------------------------------------------------------------
(* NoPieceWhileChoked: however often the policy changes its mind between a *)
(* REQUEST and the moment when the writer gets to its answer, no block is  *)
(* written to a peer between a CHOKE and the next UNCHOKE.                 *)
THEOREM NoPieceWhileChokedHolds == Spec => []NoPieceWhileChoked
<1>1. IInv => NoPieceWhileChoked
  <2> SUFFICES ASSUME IInv, NEW c \in open, NEW i \in 1 .. Len(queue[c]),
                      queue[c][i].kind = "piece"
               PROVE  ViewAt(c, i)
    BY DEF NoPieceWhileChoked
  <2>1. Says(view[c], queue[c], i, TRUE)
    BY DEF IInv, ServedOK, Served
  <2>2. ViewAt(c, i) = TRUE
    <3>1. i \in Nat
      OBVIOUS
    <3> QED BY <2>1, <3>1, ViewAtSays
  <2> QED BY <2>2
<1> QED BY <1>1, InitIInv, NextIInv, PTL DEF Spec

(* ViewsConverge: the last CHOKE or UNCHOKE on its way to a peer, or what  *)
(* the peer has read, is what the session holds of it (p.am_choking).      *)
THEOREM ViewsConvergeHolds == Spec => []ViewsConverge
<1>1. IInv => ViewsConverge
  <2> SUFFICES ASSUME IInv, NEW c \in open \cap peers
               PROVE  ViewAt(c, Len(queue[c])) = (c \in unchoked)
    BY DEF ViewsConverge
  <2>1. Says(view[c], queue[c], Len(queue[c]), c \in unchoked)
    BY DEF IInv, ServedOK, Served
  <2>2. Len(queue[c]) \in Nat
    BY DEF IInv, Types
  <2>3. (c \in unchoked) \in BOOLEAN
    OBVIOUS
  <2> QED BY <2>1, <2>2, <2>3, ViewAtSays
<1> QED BY <1>1, InitIInv, NextIInv, PTL DEF Spec

(* Informed: SendBitfield and the HAVE messages of RecordBlock leave no    *)
(* gap, in whatever order peers come, speak of extensions and pieces are   *)
(* completed, and nobody is told of a piece that the session lacks.        *)
THEOREM InformedHolds == Spec => []Informed
<1>1. IInv => Informed
  <2> SUFFICES ASSUME IInv, NEW c \in open \cap peers
               PROVE  /\ known[c] \cup Underway(c) \subseteq held
                      /\ c \notin Extended \/ c \in greeted =>
                            held \ theirs[c] \subseteq known[c] \cup Underway(c)
    BY DEF Informed
  <2>1. Told(known[c], queue[c]) = known[c] \cup Underway(c)
    BY DEF Told, Tells, Underway
  <2> QED BY <2>1 DEF IInv, ToldOK
<1> QED BY <1>1, InitIInv, NextIInv, PTL DEF Spec

-----------------------------------------------------------------------------
(* The session as the policy sees it. *)

(* The queues hide nothing from the policy: each step of the session is    *)
(* one of Choking, a peer that comes or leaves or a run of chokePeers, or  *)
(* leaves what Choking speaks of alone.                                    *)
LEMMA NextPolicy == [Next]_vars => [Policy!Next]_(Policy!vars)
<1> SUFFICES ASSUME [Next]_vars PROVE [Policy!Next]_(Policy!vars)
  OBVIOUS
<1>1. ASSUME NEW c \in Conns, addPeerImp(c) PROVE Policy!Next
  BY <1>1 DEF addPeerImp, Policy!Next
<1>2. ASSUME NEW c \in Conns, Refused(c) PROVE Policy!Next
  BY <1>2 DEF Refused, ClosePeer, Policy!Next
<1>3. ASSUME NEW c \in Conns, Interested(c) \/ NotInterested(c)
      PROVE  Policy!Next
  BY <1>3 DEF Interested, NotInterested, Policy!Next
<1>4. ASSUME NEW o \in Slots, Tick(o) PROVE Policy!Next
  BY <1>4 DEF Tick, Slots, Policy!Slots, Policy!Next
<1>5. ASSUME \/ \E c \in Conns :
                   \/ Extension(c) \/ Write(c) \/ Disconnect(c)
                   \/ \E S \in SUBSET Pieces : Have(c, S)
                   \/ \E i \in Pieces : Request(c, i) \/ Cancel(c, i)
             \/ \E i \in Pieces : Acquire(i)
             \/ KeepAlive
             \/ UNCHANGED vars
      PROVE  UNCHANGED choking
  BY <1>5 DEF Extension, Write, Disconnect, Have, Request, Cancel, Acquire,
              KeepAlive, vars, choking
<1>6. UNCHANGED choking => UNCHANGED Policy!vars
  BY DEF choking, Policy!vars
<1> QED BY <1>1, <1>2, <1>3, <1>4, <1>5, <1>6 DEF Next

(* The session implements Choking, whose variables are among its own: the  *)
(* greetings, requests, refusals and slow writers of Serving bring about   *)
(* no choice of peers that the policy does not make.                       *)
THEOREM ServesByPolicy == Spec => Policy!Spec
<1>1. Init => Policy!Init
  BY DEF Init
<1> QED BY <1>1, NextPolicy, PTL DEF Spec, Policy!Spec

(* Choking as ChokingProofs extends it; its definitions are those of       *)
(* Policy, name by name.                                                   *)
PolicyProofs == INSTANCE ChokingProofs

(* A run of the policy in either. *)
LEMMA SameRun ==
    ASSUME NEW now, NEW o, Policy!chokePeers(now, o)
    PROVE  PolicyProofs!chokePeers(now, o)
BY DEF Policy!chokePeers, PolicyProofs!chokePeers,
       Policy!computeDownloadRate, PolicyProofs!computeDownloadRate,
       Policy!TopSets, PolicyProofs!TopSets,
       Policy!Cardinality, PolicyProofs!Cardinality,
       Policy!Choke, PolicyProofs!Choke, Policy!Keeps, PolicyProofs!Keeps,
       Policy!Chosen, PolicyProofs!Chosen

(* Steps and promise in either. *)
LEMMA SamePolicy ==
    /\ PolicyProofs!ChokingAssumption
    /\ Policy!Init => PolicyProofs!Init
    /\ [Policy!Next]_(Policy!vars) => [PolicyProofs!Next]_(PolicyProofs!vars)
    /\ PolicyProofs!UploadSlots => Policy!UploadSlots
<1>1. PolicyProofs!ChokingAssumption
  BY ServingAssumption DEF PolicyProofs!ChokingAssumption, IsFiniteSet,
                           PolicyProofs!IsFiniteSet
<1>2. Policy!Init => PolicyProofs!Init
  BY DEF Policy!Init, PolicyProofs!Init
<1>3. Policy!Next => PolicyProofs!Next
  BY SameRun
     DEF Policy!Next, PolicyProofs!Next, Policy!AddPeer, PolicyProofs!AddPeer,
         Policy!ClosePeer, PolicyProofs!ClosePeer, Policy!creditDownload,
         PolicyProofs!creditDownload, Policy!Interested,
         PolicyProofs!Interested, Policy!NotInterested,
         PolicyProofs!NotInterested, Policy!Tick, PolicyProofs!Tick,
         Policy!Slots, PolicyProofs!Slots
<1>4. UNCHANGED Policy!vars => UNCHANGED PolicyProofs!vars
  BY DEF Policy!vars, PolicyProofs!vars
<1>5. PolicyProofs!UploadSlots => Policy!UploadSlots
  BY DEF Policy!UploadSlots, PolicyProofs!UploadSlots,
         Policy!Cardinality, PolicyProofs!Cardinality
<1> QED BY <1>1, <1>2, <1>3, <1>4, <1>5

(* What ChokingProofs has proved. *)
LEMMA PolicyKept ==
    Policy!Spec => [](PolicyProofs!TypeOK /\ PolicyProofs!UploadSlots)
<1>1. PolicyProofs!Spec => [](PolicyProofs!TypeOK /\ PolicyProofs!UploadSlots)
  BY PolicyProofs!UploadSlotsHold, SamePolicy
<1>2. Policy!Spec => PolicyProofs!Spec
  BY SamePolicy, PTL DEF Policy!Spec, PolicyProofs!Spec
<1> QED BY <1>1, <1>2, PTL

(* UploadSlots, which Choking promises, of the session whose peers it      *)
(* chooses: however late its messages arrive, no more than                 *)
(* HIGH_BANDWIDTH_SLOTS + 1 interested peers are unchoked.                 *)
THEOREM ServesFewHolds == Spec => []Policy!UploadSlots
  BY PolicyKept, SamePolicy, ServesByPolicy, PTL

(* TypeOK.  What concerns the policy is right because Choking's types are, *)
(* the rest because of the invariant.                                      *)
THEOREM ServingTypes == Spec => []TypeOK
<1>1. IInv /\ PolicyProofs!TypeOK => TypeOK
  BY DEF IInv, Types, TypeOK, PolicyProofs!TypeOK, Policy!TypeOK
<1> QED BY <1>1, PolicyKept, ServesByPolicy, InitIInv, NextIInv, PTL DEF Spec
=============================================================================
