------------------------- MODULE UDPNetwork_proofs -------------------------
(* Theorems about UDPNetwork.                                              *)
EXTENDS UDPNetwork, SequenceTheorems, TLAPS

-----------------------------------------------------------------------------
(* Lanes: what the three ways of changing one do to the packets on it.     *)

\* Taking one element out of a sequence leaves the others, in order.
LEMMA RemoveAtElements ==
  ASSUME NEW T, NEW q \in Seq(T), NEW i \in DOMAIN q
  PROVE  /\ RemoveAt(q, i) \in Seq(T)
         /\ Len(RemoveAt(q, i)) = Len(q) - 1
         /\ \A j \in 1 .. Len(q) - 1 :
               RemoveAt(q, i)[j] = IF j < i THEN q[j] ELSE q[j + 1]
<1> DEFINE left == SubSeq(q, 1, i - 1)
           right == SubSeq(q, i + 1, Len(q))
<1>1. i \in 1 .. Len(q) /\ Len(q) \in Nat
  OBVIOUS
<1>2. /\ left \in Seq(T)
      /\ Len(left) = i - 1
      /\ \A j \in 1 .. i - 1 : left[j] = q[j]
  BY <1>1
<1>3. /\ right \in Seq(T)
      /\ Len(right) = Len(q) - i
      /\ \A j \in 1 .. Len(q) - i : right[j] = q[i + j]
  BY <1>1
<1>4. RemoveAt(q, i) = left \o right
  BY DEF RemoveAt
<1> HIDE DEF left, right
<1>5. /\ left \o right \in Seq(T)
      /\ Len(left \o right) = Len(q) - 1
      /\ \A j \in 1 .. Len(q) - 1 :
            (left \o right)[j] = IF j <= i - 1 THEN left[j] ELSE right[j - (i - 1)]
  <2>1. Len(left) + Len(right) = Len(q) - 1
    BY <1>1, <1>2, <1>3
  <2>2. /\ left \o right \in Seq(T)
        /\ Len(left \o right) = Len(left) + Len(right)
        /\ \A j \in 1 .. Len(left) + Len(right) :
              (left \o right)[j] = IF j <= Len(left) THEN left[j] ELSE right[j - Len(left)]
    BY <1>2, <1>3, ConcatProperties, Zenon
  <2> QED
    BY <1>2, <2>1, <2>2
<1>6. ASSUME NEW j \in 1 .. Len(q) - 1
      PROVE  (left \o right)[j] = IF j < i THEN q[j] ELSE q[j + 1]
  <2>1. CASE j < i
    BY <2>1, <1>1, <1>2, <1>5
  <2>2. CASE ~(j < i)
    <3>1. j - (i - 1) \in 1 .. Len(q) - i /\ i + (j - (i - 1)) = j + 1 /\ ~(j <= i - 1)
      BY <2>2, <1>1
    <3> QED
      BY <3>1, <2>2, <1>3, <1>5
  <2> QED
    BY <2>1, <2>2
<1> QED
  BY <1>4, <1>5, <1>6

LEMMA RemoveAtToSet ==
  ASSUME NEW T, NEW q \in Seq(T), NEW i \in DOMAIN q
  PROVE  /\ RemoveAt(q, i) \in Seq(T)
         /\ ToSet(RemoveAt(q, i)) \subseteq ToSet(q)
<1>1. i \in 1 .. Len(q) /\ Len(q) \in Nat /\ DOMAIN q = 1 .. Len(q)
  OBVIOUS
<1>2. DOMAIN RemoveAt(q, i) = 1 .. Len(q) - 1
  BY RemoveAtElements
<1>3. ASSUME NEW j \in 1 .. Len(q) - 1
      PROVE  RemoveAt(q, i)[j] \in ToSet(q)
  <2>1. j \in DOMAIN q /\ j + 1 \in DOMAIN q
    BY <1>1
  <2>2. q[j] \in ToSet(q) /\ q[j + 1] \in ToSet(q)
    BY <2>1 DEF ToSet
  <2> QED
    BY <2>2, RemoveAtElements
<1> QED
  BY <1>2, <1>3, RemoveAtElements DEF ToSet

LEMMA ConcatToSet ==
  ASSUME NEW T, NEW q \in Seq(T), NEW r \in Seq(T)
  PROVE  /\ q \o r \in Seq(T)
         /\ ToSet(q \o r) = ToSet(q) \cup ToSet(r)
<1>1. /\ DOMAIN q = 1 .. Len(q) /\ DOMAIN r = 1 .. Len(r)
      /\ Len(q) \in Nat /\ Len(r) \in Nat
  OBVIOUS
<1>2. /\ q \o r \in Seq(T)
      /\ DOMAIN (q \o r) = 1 .. Len(q) + Len(r)
      /\ \A i \in 1 .. Len(q) + Len(r) :
            (q \o r)[i] = IF i <= Len(q) THEN q[i] ELSE r[i - Len(q)]
  BY ConcatProperties
<1>3. ASSUME NEW i \in 1 .. Len(q) + Len(r)
      PROVE  (q \o r)[i] \in ToSet(q) \cup ToSet(r)
  BY <1>1, <1>2 DEF ToSet
<1>4. ASSUME NEW i \in 1 .. Len(q)
      PROVE  q[i] \in ToSet(q \o r)
  <2>1. i \in 1 .. Len(q) + Len(r) /\ (q \o r)[i] = q[i]
    BY <1>1, <1>2
  <2> QED
    BY <2>1, <1>2 DEF ToSet
<1>5. ASSUME NEW i \in 1 .. Len(r)
      PROVE  r[i] \in ToSet(q \o r)
  <2>1. i + Len(q) \in 1 .. Len(q) + Len(r) /\ (q \o r)[i + Len(q)] = r[i]
    BY <1>1, <1>2
  <2> QED
    BY <2>1, <1>2 DEF ToSet
<1>6. ToSet(q \o r) \subseteq ToSet(q) \cup ToSet(r)
  BY <1>2, <1>3 DEF ToSet
<1>7. ToSet(q) \subseteq ToSet(q \o r) /\ ToSet(r) \subseteq ToSet(q \o r)
  BY <1>1, <1>4, <1>5 DEF ToSet
<1> QED
  BY <1>2, <1>6, <1>7

LEMMA ShortToSet ==
  /\ ToSet(<< >>) = {}
  /\ \A x : ToSet(<< x >>) = {x}
BY DEF ToSet

LEMMA AppendToSet ==
  ASSUME NEW T, NEW q \in Seq(T), NEW x \in T
  PROVE  Append(q, x) \in Seq(T) /\ ToSet(Append(q, x)) = ToSet(q) \cup {x}
<1>1. Append(q, x) = q \o << x >>
  BY AppendIsConcat
<1>2. << x >> \in Seq(T)
  OBVIOUS
<1>3. q \o << x >> \in Seq(T) /\ ToSet(q \o << x >>) = ToSet(q) \cup ToSet(<< x >>)
  BY <1>2, ConcatToSet
<1>4. ToSet(<< x >>) = {x}
  BY ShortToSet
<1> QED
  BY <1>1, <1>3, <1>4, Zenon

\* Once survives the removal of a packet; no second request is left.
LEMMA OnceRemoved ==
  ASSUME NEW T, NEW q \in Seq(T), NEW i \in DOMAIN q, Once(q)
  PROVE  /\ Once(RemoveAt(q, i))
         /\ IsRequest(q[i]) =>
              \A pkt \in ToSet(RemoveAt(q, i)) : ~IsRequest(pkt)
<1>1. i \in 1 .. Len(q) /\ Len(q) \in Nat /\ DOMAIN q = 1 .. Len(q)
  OBVIOUS
<1>2. DOMAIN RemoveAt(q, i) = 1 .. Len(q) - 1
  BY RemoveAtElements
<1> DEFINE from(j) == IF j < i THEN j ELSE j + 1
<1>3. \A j \in 1 .. Len(q) - 1 :
         from(j) \in 1 .. Len(q) /\ from(j) # i /\ RemoveAt(q, i)[j] = q[from(j)]
  BY <1>1, RemoveAtElements
<1>4. \A j, k \in 1 .. Len(q) - 1 : from(j) = from(k) => j = k
  BY <1>1
<1> HIDE DEF from
<1>5. Once(RemoveAt(q, i))
  BY <1>1, <1>2, <1>3, <1>4 DEF Once
<1>6. ASSUME IsRequest(q[i]), NEW pkt \in ToSet(RemoveAt(q, i))
      PROVE  ~IsRequest(pkt)
  <2>1. PICK j \in 1 .. Len(q) - 1 : pkt = RemoveAt(q, i)[j]
    BY <1>2 DEF ToSet
  <2> QED
    BY <2>1, <1>1, <1>3, <1>6 DEF Once
<1> QED
  BY <1>5, <1>6

\* Once survives the arrival of others, and of one request where there is none.
LEMMA OnceJoined ==
  ASSUME NEW T, NEW q \in Seq(T), NEW r \in Seq(T), Once(q), Once(r),
         \A p1 \in ToSet(q), p2 \in ToSet(r) : ~(IsRequest(p1) /\ IsRequest(p2))
  PROVE  Once(q \o r)
<1>1. /\ DOMAIN q = 1 .. Len(q) /\ DOMAIN r = 1 .. Len(r)
      /\ Len(q) \in Nat /\ Len(r) \in Nat
  OBVIOUS
<1>2. /\ DOMAIN (q \o r) = 1 .. Len(q) + Len(r)
      /\ \A i \in 1 .. Len(q) + Len(r) :
            (q \o r)[i] = IF i <= Len(q) THEN q[i] ELSE r[i - Len(q)]
  BY ConcatProperties
<1>3. \A i \in 1 .. Len(q), j \in 1 .. Len(r) : ~(IsRequest(q[i]) /\ IsRequest(r[j]))
  BY <1>1 DEF ToSet
<1>4. SUFFICES ASSUME NEW i \in 1 .. Len(q) + Len(r), NEW j \in 1 .. Len(q) + Len(r),
                      IsRequest((q \o r)[i]), IsRequest((q \o r)[j])
               PROVE  i = j
  BY <1>2 DEF Once
<1>5. CASE i <= Len(q) /\ j <= Len(q)
  <2>1. i \in 1 .. Len(q) /\ j \in 1 .. Len(q)
        /\ (q \o r)[i] = q[i] /\ (q \o r)[j] = q[j]
    BY <1>1, <1>2, <1>5
  <2> QED
    BY <2>1, <1>1, <1>4 DEF Once
<1>6. CASE ~(i <= Len(q)) /\ ~(j <= Len(q))
  <2>1. i - Len(q) \in 1 .. Len(r) /\ j - Len(q) \in 1 .. Len(r)
        /\ (q \o r)[i] = r[i - Len(q)] /\ (q \o r)[j] = r[j - Len(q)]
    BY <1>1, <1>2, <1>6
  <2>2. i - Len(q) = j - Len(q)
    BY <2>1, <1>1, <1>4 DEF Once
  <2> QED
    BY <2>2, <1>1
<1>7. CASE i <= Len(q) /\ ~(j <= Len(q))
  <2>1. i \in 1 .. Len(q) /\ j - Len(q) \in 1 .. Len(r)
        /\ (q \o r)[i] = q[i] /\ (q \o r)[j] = r[j - Len(q)]
    BY <1>1, <1>2, <1>7
  <2> QED
    BY <2>1, <1>3, <1>4
<1>8. CASE ~(i <= Len(q)) /\ j <= Len(q)
  <2>1. j \in 1 .. Len(q) /\ i - Len(q) \in 1 .. Len(r)
        /\ (q \o r)[j] = q[j] /\ (q \o r)[i] = r[i - Len(q)]
    BY <1>1, <1>2, <1>8
  <2> QED
    BY <2>1, <1>3, <1>4
<1> QED
  BY <1>5, <1>6, <1>7, <1>8

-----------------------------------------------------------------------------
(* Types.                                                                  *)

LEMMA InFlightType ==
  ASSUME TypeOK, NEW s \in Addr, NEW d \in Addr
  PROVE  /\ lane[s][d] \in Seq(Packet)
         /\ InFlight(s, d) \subseteq Packet
         /\ \A i \in DOMAIN lane[s][d] :
               lane[s][d][i] \in Packet /\ lane[s][d][i] \in InFlight(s, d)
<1>1. lane[s][d] \in Seq(Packet)
  BY DEF TypeOK
<1> HIDE DEF Packet
<1>2. \A i \in DOMAIN lane[s][d] : lane[s][d][i] \in Packet
  BY <1>1
<1> QED
  BY <1>1, <1>2 DEF InFlight, ToSet

LEMMA PacketFields ==
  ASSUME NEW pkt \in Packet
  PROVE  /\ pkt.type \in PacketTypes
         /\ pkt.from \in Id
         /\ pkt.to \in Id \cup {BroadcastId}
         /\ pkt.key \in Key \cup {NoKey}
         /\ pkt.enc \in Key \cup {NoKey}
BY DEF Packet

LEMMA PlainType ==
  ASSUME NEW type \in PacketTypes, NEW from \in Id,
         NEW to \in Id \cup {BroadcastId}, NEW key \in Key \cup {NoKey}
  PROVE  Plain(type, from, to, key) \in Packet
BY DEF Packet, Plain

LEMMA NodeFields ==
  ASSUME NEW nd \in Node
  PROVE  /\ nd.id \in Id
         /\ nd.state \in 0 .. 4
         /\ nd.tx \in Key \cup {NoKey}
         /\ nd.rx \in Key \cup {NoKey}
BY DEF Node, Initialised, Connected

\* What the two handlers that fill in a session key do to a node.
LEMMA KeyUpdate ==
  ASSUME NEW n \in Node, NEW key \in Key \cup {NoKey}
  PROVE  /\ OfferKey(n, key) \in Node
         /\ OfferKey(n, key).id = n.id
         /\ OfferKey(n, key).state = 2
         /\ OfferKey(n, key).tx = key
         /\ OfferKey(n, key).rx = n.rx
         /\ LearnKey(n, key) \in Node
         /\ LearnKey(n, key).id = n.id
         /\ LearnKey(n, key).state = 3
         /\ LearnKey(n, key).tx = n.tx
         /\ LearnKey(n, key).rx = key
<1> HIDE DEF Key
<1> DEFINE k2 == [n EXCEPT !.state = 2]
           k3 == [n EXCEPT !.state = 3]
<1>1. /\ k2 \in Node /\ k2.id = n.id /\ k2.state = 2 /\ k2.tx = n.tx /\ k2.rx = n.rx
      /\ k3 \in Node /\ k3.id = n.id /\ k3.state = 3 /\ k3.tx = n.tx /\ k3.rx = n.rx
  BY DEF Node, Initialised, Connected
<1>2. /\ OfferKey(n, key) = [k2 EXCEPT !.tx = key]
      /\ LearnKey(n, key) = [k3 EXCEPT !.rx = key]
  BY DEF OfferKey, LearnKey, Handshake, CheckEncryption
<1> HIDE DEF k2, k3
<1> QED
  BY <1>1, <1>2 DEF Node

LEMMA SealType ==
  ASSUME NEW nd \in Node, NEW pkt \in Packet
  PROVE  Seal(nd, pkt) \in Packet
BY NodeFields DEF Packet, Seal

LEMMA PeerType ==
  ASSUME TypeOK, NEW d \in Addr, NEW s \in Addr, NEW id \in Id
  PROVE  /\ MyId(d) \in Id
         /\ Peer(d, s, id) \in Node
         /\ Greeting(d, s, id) \in Seq(Packet)
<1>1. MyId(d) \in Id
  BY NetworkAssumption DEF TypeOK, MyId, Id
<1>2. NewNode(id) \in Node
  BY DEF NewNode, Node, Initialised, Connected
<1>3. Peer(d, s, id) \in Node
  <2>1. node[d][s] \in Node \cup {NoNode}
    BY DEF TypeOK
  <2> QED
    BY <1>2, <2>1 DEF Peer
<1>4. Plain("PublicKeyRequest", MyId(d), id, NoKey) \in Packet
  <2>1. "PublicKeyRequest" \in PacketTypes
    BY DEF PacketTypes
  <2> QED
    BY <1>1, <2>1, PlainType
<1> HIDE DEF Packet
<1>5. Greeting(d, s, id) \in Seq(Packet)
  BY <1>4 DEF Greeting
<1> QED
  BY <1>1, <1>3, <1>5

LEMMA ReplyType ==
  ASSUME TypeOK, NEW d \in Addr, NEW nd \in Node, NEW type \in PacketTypes,
         NEW key \in Key \cup {NoKey}
  PROVE  Reply(d, nd, type, key) \in Seq(Packet)
<1>1. MyId(d) \in Id
  BY PeerType, NetworkAssumption DEF TypeOK, MyId, Id
<1>2. Seal(nd, Plain(type, MyId(d), nd.id, key)) \in Packet
  BY <1>1, PlainType, NodeFields, SealType
<1> HIDE DEF Packet
<1> QED
  BY <1>2 DEF Reply

\* What an iteration of _main_loop starts from: a packet that was in flight or
\* is read again, and what stays in flight.
Read(s, d, pkt, rest) ==
    /\ pkt \in Packet
    /\ pkt \in Pending(s, d)
    /\ rest \in [Addr -> [Addr -> Seq(Packet)]]
    /\ \A x, y \in Addr : ToSet(rest[x][y]) \subseteq InFlight(x, y)

LEMMA Taken ==
  ASSUME TypeOK, NEW s \in Addr, NEW d \in Addr, NEW i \in DOMAIN lane[s][d]
  PROVE  Read(s, d, lane[s][d][i], [lane EXCEPT ![s][d] = RemoveAt(@, i)])
<1> HIDE DEF Packet
<1> DEFINE rest == [lane EXCEPT ![s][d] = RemoveAt(@, i)]
<1>1. lane \in [Addr -> [Addr -> Seq(Packet)]]
  BY DEF TypeOK
<1>2. RemoveAt(lane[s][d], i) \in Seq(Packet)
      /\ ToSet(RemoveAt(lane[s][d], i)) \subseteq ToSet(lane[s][d])
  BY <1>1, RemoveAtToSet
<1>3. rest \in [Addr -> [Addr -> Seq(Packet)]]
  BY <1>1, <1>2
<1>4. \A x, y \in Addr :
         rest[x][y] = IF x = s /\ y = d THEN RemoveAt(lane[s][d], i) ELSE lane[x][y]
  BY <1>1
<1> HIDE DEF rest
<1>5. \A x, y \in Addr : ToSet(rest[x][y]) \subseteq InFlight(x, y)
  BY <1>2, <1>4 DEF InFlight
<1>6. lane[s][d][i] \in Packet /\ lane[s][d][i] \in Pending(s, d)
  BY InFlightType DEF Pending
<1> QED
  BY <1>3, <1>5, <1>6 DEF Read, rest

LEMMA TakenAgain ==
  ASSUME TypeOK, NEW d \in Addr, standby[d] # NoPacket
  PROVE  /\ up[d] /\ standby[d].src \in Addr
         /\ Read(standby[d].src, d, standby[d].pkt, lane)
<1> HIDE DEF Packet
<1>1. standby[d].src \in Addr /\ standby[d].pkt \in Packet /\ up[d]
  BY DEF TypeOK, Standby
<1>2. standby[d].pkt \in Pending(standby[d].src, d)
  BY DEF Pending, Again
<1>3. lane \in [Addr -> [Addr -> Seq(Packet)]]
  BY DEF TypeOK
<1> QED
  BY <1>1, <1>2, <1>3 DEF Read, InFlight

\* Answers join what is in flight.
LEMMA AnsweredType ==
  ASSUME NEW s \in Addr, NEW d \in Addr,
         NEW rest \in [Addr -> [Addr -> Seq(Packet)]], NEW out \in Seq(Packet)
  PROVE  Answered(s, d, rest, out) \in [Addr -> [Addr -> Seq(Packet)]]
<1> HIDE DEF Packet
<1>1. rest[d][s] \in Seq(Packet)
  OBVIOUS
<1>2. rest[d][s] \o out \in Seq(Packet)
  BY <1>1, ConcatToSet
<1> QED
  BY <1>2 DEF Answered

\* p repeats q, encrypted as q is or in the clear.
Says(p, q) ==
    /\ p.type = q.type /\ p.from = q.from /\ p.key = q.key
    /\ p.enc # NoKey => p.enc = q.enc

\* What is left in the standby buffer of d is the packet, perhaps decrypted.
LEMMA KeepEffect ==
  ASSUME TypeOK, NEW s \in Addr, NEW d \in Addr, NEW pkt \in Packet, Keep(d, s, pkt)
  PROVE  /\ standby' \in [Addr -> Standby \cup {NoPacket}]
         /\ \A x \in Addr : x # d => standby'[x] = standby[x]
         /\ \/ standby'[d] = NoPacket
            \/ \E p \in Packet :
                  /\ standby'[d] = [src |-> s, pkt |-> p]
                  /\ Says(p, pkt)
<1> DEFINE p == IF Readable(d, s, pkt) THEN [pkt EXCEPT !.enc = NoKey] ELSE pkt
<1>1. standby \in [Addr -> Standby \cup {NoPacket}]
  BY DEF TypeOK
<1>2. p \in Packet /\ Says(p, pkt)
  BY DEF Packet, Says
<1> HIDE DEF Packet
<1>3. Kept(d, s, pkt) = [src |-> s, pkt |-> p]
  BY DEF Kept
<1> HIDE DEF p
<1>4. [src |-> s, pkt |-> p] \in Standby
  BY <1>2 DEF Standby
<1>5. \/ standby' = [standby EXCEPT ![d] = NoPacket]
      \/ standby' = [standby EXCEPT ![d] = [src |-> s, pkt |-> p]]
  BY <1>3 DEF Keep
<1> QED
  BY <1>1, <1>2, <1>4, <1>5

LEMMA FinishType ==
  ASSUME TypeOK, NEW s \in Addr, NEW d \in Addr, NEW pkt, NEW rest,
         Read(s, d, pkt, rest),
         up[d], NEW nd \in Node, NEW replies \in Seq(Packet),
         Finish(s, d, pkt, rest, nd, replies),
         generated' \in [Addr -> [Addr -> Nat]],
         repeats' \in 0 .. MaxRepeats
  PROVE  TypeOK'
<1> HIDE DEF Packet, Node
<1>1. Greeting(d, s, nd.id) \in Seq(Packet)
  BY PeerType, NodeFields
<1>2. Greeting(d, s, nd.id) \o replies \in Seq(Packet)
  BY <1>1, ConcatToSet
<1>3. lane' \in [Addr -> [Addr -> Seq(Packet)]]
  BY <1>2, AnsweredType DEF Finish, Read
<1>4. /\ standby' \in [Addr -> Standby \cup {NoPacket}]
      /\ \A x \in Addr : x # d => standby'[x] = standby[x]
  BY KeepEffect DEF Finish, Read
<1>5. node' = [node EXCEPT ![d][s] = nd] /\ UNCHANGED <<up, boot>>
  BY DEF Finish
<1> QED
  BY <1>3, <1>4, <1>5 DEF TypeOK

\* One iteration of _main_loop.
LEMMA HandleType ==
  ASSUME TypeOK, NEW s \in Addr, NEW d \in Addr, NEW pkt, NEW rest,
         Read(s, d, pkt, rest), up[d],
         Handle(s, d, pkt, rest),
         repeats' \in 0 .. MaxRepeats
  PROVE  TypeOK'
<1> HIDE DEF Packet, Node
<1> DEFINE nd == Peer(d, s, pkt.from)
<1>1. pkt \in Packet /\ pkt.from \in Id /\ pkt.key \in Key \cup {NoKey}
      /\ rest \in [Addr -> [Addr -> Seq(Packet)]]
  BY PacketFields DEF Read
<1>2. nd \in Node
  BY <1>1, PeerType
<1>3. /\ [nd EXCEPT !.state = KeyExchange] \in Node
      /\ [nd EXCEPT !.state = Connected] \in Node
      /\ \A key \in Key \cup {NoKey} :
            OfferKey(nd, key) \in Node /\ LearnKey(nd, key) \in Node
  <2> HIDE DEF nd
  <2>1. /\ [nd EXCEPT !.state = KeyExchange] \in Node
        /\ [nd EXCEPT !.state = Connected] \in Node
    BY <1>2 DEF Node, KeyExchange, Connected, Initialised
  <2> QED
    BY <1>2, <2>1, KeyUpdate
<1>4. \A type \in {"PublicKeyReply", "EncryptionContext", "Ready"} : type \in PacketTypes
  BY DEF PacketTypes
<1>5. generated \in [Addr -> [Addr -> Nat]] /\ << >> \in Seq(Packet)
  BY DEF TypeOK
<1> HIDE DEF nd
<1>6. CASE Discard(s, d, pkt, rest)
  <2>1. /\ standby' \in [Addr -> Standby \cup {NoPacket}]
        /\ \A x \in Addr : x # d => standby'[x] = standby[x]
    BY <1>1, <1>6, KeepEffect DEF Discard
  <2> QED
    BY <1>1, <1>6, <2>1 DEF Discard, TypeOK
<1>7. CASE ReceiveMisread(s, d, pkt, rest)
  <2>1. <<s, 0>> \in Id
    BY DEF Id
  <2>2. Peer(d, s, <<s, 0>>) \in Node /\ Greeting(d, s, <<s, 0>>) \in Seq(Packet)
    BY <2>1, PeerType
  <2>3. lane' \in [Addr -> [Addr -> Seq(Packet)]]
    BY <1>1, <1>7, <2>2, AnsweredType DEF ReceiveMisread
  <2>4. /\ standby' \in [Addr -> Standby \cup {NoPacket}]
        /\ \A x \in Addr : x # d => standby'[x] = standby[x]
    BY <1>1, <1>7, KeepEffect DEF ReceiveMisread
  <2> QED
    BY <1>7, <2>2, <2>3, <2>4 DEF TypeOK, ReceiveMisread
<1>8. CASE ReceiveDiscovery(s, d, pkt, rest)
  BY <1>8, <1>2, <1>5, FinishType DEF ReceiveDiscovery, nd
<1>9. CASE ReceivePublicKeyRequest(s, d, pkt, rest)
  <2> DEFINE nd2 == [nd EXCEPT !.state = KeyExchange]
  <2>1. nd2 \in Node /\ Reply(d, nd2, "PublicKeyReply", NoKey) \in Seq(Packet)
    BY <1>3, <1>4, ReplyType
  <2>2. Finish(s, d, pkt, rest, nd2, Reply(d, nd2, "PublicKeyReply", NoKey))
    BY <1>9 DEF ReceivePublicKeyRequest, nd
  <2> QED
    BY <1>9, <1>5, <2>1, <2>2, FinishType DEF ReceivePublicKeyRequest
<1>10. CASE ReceivePublicKeyRequestFatal(s, d, pkt, rest)
  <2>1. Greeting(d, s, pkt.from) \in Seq(Packet)
    BY <1>1, PeerType
  <2>2. lane' \in [Addr -> [Addr -> Seq(Packet)]]
    BY <1>1, <1>10, <2>1, AnsweredType DEF ReceivePublicKeyRequestFatal
  <2> QED
    BY <1>10, <2>2 DEF TypeOK, ReceivePublicKeyRequestFatal, Gone
<1>11. CASE ReceivePublicKeyReply(s, d, pkt, rest)
  <2> DEFINE key == <<d, s, generated[d][s]>>
             nd2 == OfferKey(nd, key)
  <2>1. key \in Key
    BY <1>5 DEF Key
  <2>2. nd2 \in Node /\ Reply(d, nd2, "EncryptionContext", key) \in Seq(Packet)
    BY <1>3, <1>4, <2>1, ReplyType
  <2>3. /\ Finish(s, d, pkt, rest, nd2, Reply(d, nd2, "EncryptionContext", key))
        /\ generated' = [generated EXCEPT ![d][s] = @ + 1]
    BY <1>11 DEF ReceivePublicKeyReply, nd
  <2>4. generated' \in [Addr -> [Addr -> Nat]]
    BY <1>5, <2>3
  <2> HIDE DEF key, nd2
  <2> QED
    BY <2>2, <2>3, <2>4, FinishType
<1>12. CASE ReceiveEncryptionContext(s, d, pkt, rest)
  <2> DEFINE nd2 == LearnKey(nd, pkt.key)
  <2>1. nd2 \in Node /\ Reply(d, nd2, "Ready", NoKey) \in Seq(Packet)
    BY <1>1, <1>3, <1>4, ReplyType
  <2>2. Finish(s, d, pkt, rest, nd2, Reply(d, nd2, "Ready", NoKey))
    BY <1>12 DEF ReceiveEncryptionContext, nd
  <2> HIDE DEF nd2
  <2> QED
    BY <1>12, <1>5, <2>1, <2>2, FinishType DEF ReceiveEncryptionContext
<1>13. CASE ReceiveReady(s, d, pkt, rest)
  <2>1. Finish(s, d, pkt, rest, [nd EXCEPT !.state = Connected], << >>)
    BY <1>13 DEF ReceiveReady, nd
  <2> QED
    BY <1>13, <1>3, <1>5, <2>1, FinishType DEF ReceiveReady
<1>14. CASE ReceiveRefused(s, d, pkt, rest)
  <2>1. Finish(s, d, pkt, rest, nd, << >>) /\ UNCHANGED generated
    BY <1>14 DEF ReceiveRefused, nd
  <2> QED
    BY <1>2, <1>5, <2>1, FinishType
<1> QED
  BY <1>6, <1>7, <1>8, <1>9, <1>10, <1>11, <1>12, <1>13, <1>14
     DEF Handle, ReceiveOwn, ReceiveUndecryptable, ReceiveGarbled

\* Every step keeps the types, whatever the network, the key pairs and the
\* bounds are.
LEMMA TypeStep == TypeOK /\ [Next]_vars => TypeOK'
<1> SUFFICES ASSUME TypeOK, [Next]_vars PROVE TypeOK'
  OBVIOUS
<1> USE NetworkAssumption
<1> HIDE DEF Packet, Node
<1>1. ASSUME NEW a \in Addr, Start(a) PROVE TypeOK'
  BY <1>1 DEF TypeOK, Start
<1>2. ASSUME NEW a \in Addr, Exit(a) PROVE TypeOK'
  BY <1>2 DEF TypeOK, Exit, Gone
<1>3. ASSUME NEW a \in Addr, Broadcast(a) PROVE TypeOK'
  <2> DEFINE pkt == Plain("Discovery", MyId(a), BroadcastId, NoKey)
  <2>1. pkt \in Packet
    <3>1. MyId(a) \in Id
      BY DEF TypeOK, MyId, Id
    <3> QED
      BY <3>1, PlainType DEF PacketTypes
  <2>2. \A d \in Addr : Append(lane[a][d], pkt) \in Seq(Packet)
    BY <2>1, InFlightType, AppendToSet
  <2> HIDE DEF pkt
  <2>3. lane' \in [Addr -> [Addr -> Seq(Packet)]]
    BY <1>3, <2>2 DEF TypeOK, Broadcast, pkt
  <2> QED
    BY <1>3, <2>3 DEF TypeOK, Broadcast
<1>4. ASSUME NEW s \in Addr, NEW d \in Addr, NEW i \in DOMAIN lane[s][d],
             lane' = [lane EXCEPT ![s][d] = RemoveAt(@, i)],
             UNCHANGED <<up, boot, node, generated, standby, repeats>>
      PROVE  TypeOK'
  BY <1>4, Taken DEF TypeOK, Read
<1>5. ASSUME NEW s \in Addr, NEW d \in Addr, Vanish(s, d) PROVE TypeOK'
  <2>1. 1 \in DOMAIN lane[s][d]
    BY <1>5, InFlightType DEF Vanish
  <2> QED
    BY <1>5, <2>1, <1>4 DEF Vanish
<1>6. ASSUME NEW s \in Addr, NEW d \in Addr, NEW i \in DOMAIN lane[s][d],
             Duplicate(s, d, i)
      PROVE  TypeOK'
  <2>1. Append(lane[s][d], lane[s][d][i]) \in Seq(Packet)
    BY InFlightType, AppendToSet
  <2>2. lane' \in [Addr -> [Addr -> Seq(Packet)]]
    BY <1>6, <2>1 DEF TypeOK, Duplicate
  <2>3. repeats' \in 0 .. MaxRepeats
    BY <1>6 DEF TypeOK, Duplicate
  <2> QED
    BY <1>6, <2>2, <2>3 DEF TypeOK, Duplicate
<1>7. ASSUME NEW s \in Addr, NEW d \in Addr, NEW i \in DOMAIN lane[s][d], Receive(s, d, i)
      PROVE  TypeOK'
  <2>1. repeats' \in 0 .. MaxRepeats
    BY <1>7 DEF Receive, TypeOK
  <2> QED
    BY <1>7, <2>1, Taken, HandleType DEF Receive
<1>8. ASSUME NEW d \in Addr, ReceiveAgain(d)
      PROVE  TypeOK'
  <2>1. repeats' \in 0 .. MaxRepeats
    BY <1>8 DEF ReceiveAgain, TypeOK
  <2>2. CASE OverrunStack(d)
    <3>1. CASE Gone(d)
      BY <2>1, <2>2, <3>1 DEF OverrunStack, Gone, TypeOK
    <3>2. CASE UNCHANGED <<up, node, standby>>
      BY <2>1, <2>2, <3>2 DEF OverrunStack, TypeOK
    <3> QED
      BY <2>2, <3>1, <3>2 DEF OverrunStack
  <2> QED
    BY <1>8, <2>1, <2>2, TakenAgain, HandleType DEF ReceiveAgain
<1>9. CASE UNCHANGED vars
  BY <1>9 DEF vars, TypeOK
<1>10. ASSUME NEW s \in Addr, NEW d \in Addr, NEW i \in DOMAIN lane[s][d], Lose(s, d, i)
       PROVE  TypeOK'
  BY <1>10, <1>4 DEF Lose
<1> QED
  BY <1>1, <1>2, <1>3, <1>5, <1>6, <1>7, <1>8, <1>9, <1>10 DEF Next

\* Type correctness for every value of the constants.
THEOREM TypeCorrect == Spec => []TypeOK
<1>1. Init => TypeOK
  BY NetworkAssumption DEF Init, TypeOK
<1> QED
  BY <1>1, TypeStep, PTL DEF Spec

-----------------------------------------------------------------------------
(* What a step leaves to be handled.                                       *)

\* The standby buffer of d holds what d read last.
LEMMA AgainEffect ==
  ASSUME TypeOK, NEW s \in Addr, NEW d \in Addr, NEW pkt \in Packet, Keep(d, s, pkt)
  PROVE  \A x, y \in Addr : \A p \in Again(x, y)' :
            (y # d /\ p \in Again(x, y)) \/ (x = s /\ y = d /\ Says(p, pkt))
<1> HIDE DEF Packet
<1>1. \A x \in Addr : x # d => standby'[x] = standby[x]
  BY KeepEffect
<1>2. \/ standby'[d] = NoPacket
      \/ \E p \in Packet : standby'[d] = [src |-> s, pkt |-> p] /\ Says(p, pkt)
  BY KeepEffect
<1>3. \A x, y \in Addr : y # d => Again(x, y)' = Again(x, y)
  BY <1>1 DEF Again
<1>4. \A x \in Addr : \A p \in Again(x, d)' : x = s /\ Says(p, pkt)
  <2>1. CASE standby'[d] = NoPacket
    BY <2>1 DEF Again
  <2>2. ASSUME NEW q \in Packet, standby'[d] = [src |-> s, pkt |-> q], Says(q, pkt)
        PROVE  \A x \in Addr : \A p \in Again(x, d)' : x = s /\ Says(p, pkt)
    <3>1. standby'[d].src = s /\ standby'[d].pkt = q
      BY <2>2
    <3>2. \A x \in Addr : \A p \in Again(x, d)' : x = s /\ p = q
      BY <3>1 DEF Again
    <3> QED
      BY <2>2, <3>2
  <2> QED
    BY <1>2, <2>1, <2>2
<1> QED
  BY <1>3, <1>4

\* Answers are all that is new in flight.
LEMMA AnsweredEffect ==
  ASSUME TypeOK, NEW s \in Addr, NEW d \in Addr, NEW pkt, NEW rest,
         Read(s, d, pkt, rest), NEW out \in Seq(Packet), lane' = Answered(s, d, rest, out)
  PROVE  \A x, y \in Addr : \A p \in InFlight(x, y)' :
            p \in InFlight(x, y) \/ (x = d /\ y = s /\ p \in ToSet(out))
<1> HIDE DEF Packet
<1>1. /\ rest \in [Addr -> [Addr -> Seq(Packet)]]
      /\ \A x, y \in Addr : ToSet(rest[x][y]) \subseteq InFlight(x, y)
  BY DEF Read
<1>2. rest[d][s] \in Seq(Packet)
  BY <1>1
<1>3. ToSet(rest[d][s] \o out) = ToSet(rest[d][s]) \cup ToSet(out)
  BY <1>2, ConcatToSet
<1>4. /\ lane'[d][s] = rest[d][s] \o out
      /\ \A x, y \in Addr : ~(x = d /\ y = s) => lane'[x][y] = rest[x][y]
  BY <1>1 DEF Answered
<1> QED
  BY <1>1, <1>3, <1>4 DEF InFlight

\* What a handler sends back.
LEMMA ReplyFields ==
  ASSUME NEW d, NEW nd, NEW type, NEW key
  PROVE  \E p : /\ Reply(d, nd, type, key) = << p >>
                /\ p.type = type /\ p.from = MyId(d) /\ p.key = key
                /\ p.enc = IF nd.state >= CheckEncryption THEN nd.tx ELSE NoKey
<1> DEFINE p == Seal(nd, Plain(type, MyId(d), nd.id, key))
<1>1. p.type = type /\ p.from = MyId(d) /\ p.key = key
      /\ p.enc = IF nd.state >= CheckEncryption THEN nd.tx ELSE NoKey
  BY DEF Seal, Plain
<1>2. Reply(d, nd, type, key) = << p >>
  BY DEF Reply
<1> HIDE DEF p
<1> QED
  BY <1>1, <1>2

-----------------------------------------------------------------------------
(* What holds of single nodes and packets, whatever is duplicated, handled  *)
(* again or restarted.                                                      *)

\* A packet on the way from s to d: who had which half of a key pair when it
\* was sent; and what comes back to the first process at an endpoint is its own
\* broadcast.
SoundPacket(s, d, p) ==
    /\ p.type = "PublicKeyReply" => "public" \in Loaded[s]
    /\ p.type = "EncryptionContext" => p.key # NoKey /\ "public" \in Loaded[d]
    /\ p.type = "Ready" => "private" \in Loaded[s]
    /\ s = d => boot[s] > 0 /\ (boot[s] > 1 \/ (p.from = MyId(s) /\ p.enc = NoKey))

\* A peer of a at s, going by the name id, is not a itself.
Foreign(a, s, id) == s # a \/ (boot[a] > 1 /\ id # MyId(a))

\* What a holds for s: the keys and the halves that its state stands for.
SoundNode(a, s, nd) ==
    /\ nd.state >= Handshake => nd.tx # NoKey /\ "public" \in Loaded[s]
    /\ nd.state >= CheckEncryption =>
          nd.rx # NoKey /\ "public" \in Loaded[a] /\ "private" \in Loaded[a]
    /\ nd.state >= Connected => "private" \in Loaded[s]
    /\ Foreign(a, s, nd.id)

\* The inductive invariant behind KeysBeforeUse, OnlyReadyIsEncrypted,
\* NoSelfEntry and FullKeysToConnect: each conjunct is about one node or one
\* packet, so duplicates and earlier processes do it no harm.
SoundInv ==
    /\ TypeOK
    /\ OnlyReadyIsEncrypted
    /\ \A s, d \in Addr : \A p \in Pending(s, d) : SoundPacket(s, d, p)
    /\ \A a, s \in Addr : node[a][s] # NoNode => SoundNode(a, s, node[a][s])

\* A packet that may be sent from s to d.
Fit(s, d, p) == SoundPacket(s, d, p) /\ (p.type = "Ready" <=> p.enc # NoKey)

LEMMA SoundStep ==
  ASSUME SoundInv, TypeOK', UNCHANGED boot,
         \A x, y \in Addr :
            \/ node'[x][y] = NoNode
            \/ node'[x][y] = node[x][y]
            \/ SoundNode(x, y, node'[x][y]),
         \A x, y \in Addr : \A p \in InFlight(x, y)' : p \in InFlight(x, y) \/ Fit(x, y, p),
         \A x, y \in Addr : \A p \in Again(x, y)' : \E q \in Pending(x, y) : Says(p, q)
  PROVE  SoundInv'
<1>2. OnlyReadyIsEncrypted'
  BY DEF SoundInv, OnlyReadyIsEncrypted, Fit
<1>3. \A a, s \in Addr : node'[a][s] # NoNode => SoundNode(a, s, node'[a][s])
  BY DEF SoundInv
<1>4. \A s, d \in Addr : \A p \in Pending(s, d)' : SoundPacket(s, d, p)
  <2>1. ASSUME NEW s \in Addr, NEW d \in Addr, NEW p, NEW q \in Pending(s, d), Says(p, q)
        PROVE  SoundPacket(s, d, p)
    <3>1. SoundPacket(s, d, q)
      BY DEF SoundInv
    <3> QED
      BY <2>1, <3>1 DEF Says, SoundPacket
  <2>2. \A s, d \in Addr : \A p \in InFlight(s, d) : SoundPacket(s, d, p)
    BY DEF SoundInv, Pending
  <2> QED
    BY <2>1, <2>2 DEF Pending, Fit
<1>5. \A s, d \in Addr : \A p : SoundPacket(s, d, p) => SoundPacket(s, d, p)'
  BY DEF SoundPacket, MyId
<1>6. \A a, s \in Addr : \A nd : SoundNode(a, s, nd)' <=> SoundNode(a, s, nd)
  BY DEF SoundNode, Foreign, MyId
<1> QED
  BY <1>2, <1>3, <1>4, <1>5, <1>6 DEF SoundInv

\* What _receive makes of another process, and what it sends a new one.
LEMMA PeerSound ==
  ASSUME SoundInv, NEW d \in Addr, NEW s \in Addr, NEW id \in Id, Foreign(d, s, id)
  PROVE  /\ Peer(d, s, id) \in Node
         /\ SoundNode(d, s, Peer(d, s, id))
         /\ Greeting(d, s, id) \in Seq(Packet)
         /\ \A p \in ToSet(Greeting(d, s, id)) : Fit(d, s, p)
<1> HIDE DEF Packet, Node
<1>1. /\ Peer(d, s, id) \in Node /\ Greeting(d, s, id) \in Seq(Packet)
      /\ SoundNode(d, s, NewNode(id))
  BY PeerType DEF SoundInv, SoundNode, NewNode, Initialised, Handshake, CheckEncryption, Connected
<1>2. SoundNode(d, s, Peer(d, s, id))
  BY <1>1 DEF SoundInv, Peer
<1>3. Fit(d, s, Plain("PublicKeyRequest", MyId(d), id, NoKey))
  BY DEF Fit, SoundPacket, Plain, Foreign, SoundInv, TypeOK
<1>4. \A p \in ToSet(Greeting(d, s, id)) : Fit(d, s, p)
  BY <1>3, ShortToSet DEF Greeting
<1> QED
  BY <1>1, <1>2, <1>4

\* Dropping a packet.
LEMMA SoundDiscard ==
  ASSUME SoundInv, TypeOK', NEW s \in Addr, NEW d \in Addr, NEW pkt, NEW rest,
         up[d], Read(s, d, pkt, rest), Discard(s, d, pkt, rest)
  PROVE  SoundInv'
<1> HIDE DEF Packet, Node
<1>0. TypeOK
  BY DEF SoundInv
<1>1. /\ pkt \in Packet /\ pkt \in Pending(s, d) /\ lane' = rest /\ Keep(d, s, pkt)
      /\ \A x, y \in Addr : ToSet(rest[x][y]) \subseteq InFlight(x, y)
      /\ UNCHANGED <<up, boot, node>>
  BY DEF Read, Discard
<1>2. \A x, y \in Addr : \A p \in InFlight(x, y)' : p \in InFlight(x, y)
  BY <1>1 DEF InFlight
<1>3. \A x, y \in Addr : \A p \in Again(x, y)' : \E q \in Pending(x, y) : Says(p, q)
  <2>1. \A p : Says(p, p)
    BY DEF Says
  <2> QED
    BY <1>0, <1>1, <2>1, AgainEffect DEF Pending
<1> QED
  BY <1>1, <1>2, <1>3, SoundStep

\* An iteration that ends with nd in the table and out on its way.
LEMMA SoundAnswer ==
  ASSUME SoundInv, TypeOK', NEW s \in Addr, NEW d \in Addr, NEW pkt, NEW rest,
         up[d], Read(s, d, pkt, rest),
         NEW nd \in Node, node' = [node EXCEPT ![d][s] = nd], SoundNode(d, s, nd),
         NEW out \in Seq(Packet), lane' = Answered(s, d, rest, out),
         \A p \in ToSet(out) : Fit(d, s, p),
         Keep(d, s, pkt), UNCHANGED <<up, boot>>
  PROVE  SoundInv'
<1> HIDE DEF Packet, Node
<1>0. TypeOK
  BY DEF SoundInv
<1>1. pkt \in Packet /\ pkt \in Pending(s, d)
  BY DEF Read
<1>2. \A x, y \in Addr : \A p \in InFlight(x, y)' :
         p \in InFlight(x, y) \/ (x = d /\ y = s /\ p \in ToSet(out))
  BY <1>0, AnsweredEffect
<1>3. \A x, y \in Addr : \A p \in Again(x, y)' : \E q \in Pending(x, y) : Says(p, q)
  <2>1. \A p : Says(p, p)
    BY DEF Says
  <2> QED
    BY <1>0, <1>1, <2>1, AgainEffect DEF Pending
<1>4. \A x, y \in Addr : \/ node'[x][y] = node[x][y]
                         \/ SoundNode(x, y, node'[x][y])
  <2>1. node \in [Addr -> [Addr -> Node \cup {NoNode}]]
    BY <1>0 DEF TypeOK
  <2>2. \A x, y \in Addr : node'[x][y] = IF x = d /\ y = s THEN nd ELSE node[x][y]
    BY <2>1
  <2> QED
    BY <2>2
<1> QED
  BY <1>2, <1>3, <1>4, SoundStep

LEMMA SoundFinish ==
  ASSUME SoundInv, TypeOK', NEW s \in Addr, NEW d \in Addr, NEW pkt, NEW rest,
         up[d], Read(s, d, pkt, rest),
         NEW nd \in Node, SoundNode(d, s, nd),
         NEW replies \in Seq(Packet), \A p \in ToSet(replies) : Fit(d, s, p),
         Finish(s, d, pkt, rest, nd, replies)
  PROVE  SoundInv'
<1> HIDE DEF Packet, Node
<1> DEFINE ask == Greeting(d, s, nd.id)
<1>1. ask \in Seq(Packet) /\ \A p \in ToSet(ask) : Fit(d, s, p)
  <2>1. nd.id \in Id /\ Foreign(d, s, nd.id)
    BY NodeFields DEF SoundNode
  <2> QED
    BY <2>1, PeerSound
<1>2. ask \o replies \in Seq(Packet) /\ ToSet(ask \o replies) = ToSet(ask) \cup ToSet(replies)
  BY <1>1, ConcatToSet
<1>3. /\ node' = [node EXCEPT ![d][s] = nd]
      /\ lane' = Answered(s, d, rest, ask \o replies)
      /\ Keep(d, s, pkt) /\ UNCHANGED <<up, boot>>
  BY DEF Finish
<1> HIDE DEF ask
<1>4. \A p \in ToSet(ask \o replies) : Fit(d, s, p)
  BY <1>1, <1>2
<1> QED
  BY <1>2, <1>3, <1>4, SoundAnswer

\* One packet sent back.
LEMMA ReplyFit ==
  ASSUME TypeOK, NEW d \in Addr, NEW s \in Addr, NEW nd \in Node, Foreign(d, s, nd.id),
         NEW type \in PacketTypes, NEW key \in Key \cup {NoKey},
         type = "PublicKeyReply" => "public" \in Loaded[d],
         type = "EncryptionContext" => key # NoKey /\ "public" \in Loaded[s],
         type = "Ready" => "private" \in Loaded[d],
         type = "Ready" => nd.state >= CheckEncryption /\ nd.tx # NoKey,
         type # "Ready" => ~(nd.state >= CheckEncryption)
  PROVE  /\ Reply(d, nd, type, key) \in Seq(Packet)
         /\ \A p \in ToSet(Reply(d, nd, type, key)) : Fit(d, s, p)
<1> HIDE DEF Packet, Node
<1>1. PICK p : /\ Reply(d, nd, type, key) = << p >>
               /\ p.type = type /\ p.from = MyId(d) /\ p.key = key
               /\ p.enc = IF nd.state >= CheckEncryption THEN nd.tx ELSE NoKey
  BY ReplyFields
<1>2. Fit(d, s, p)
  BY <1>1 DEF Fit, SoundPacket, Foreign, TypeOK
<1>3. ToSet(<< p >>) = {p}
  BY ShortToSet
<1> QED
  BY <1>1, <1>2, <1>3, ReplyType

\* The process ends on a request it cannot answer.
LEMMA SoundFatal ==
  ASSUME SoundInv, TypeOK', NEW s \in Addr, NEW d \in Addr, NEW pkt, NEW rest,
         Read(s, d, pkt, rest), ReceivePublicKeyRequestFatal(s, d, pkt, rest),
         Foreign(d, s, pkt.from)
  PROVE  SoundInv'
<1> HIDE DEF Packet, Node
<1> DEFINE ask == Greeting(d, s, pkt.from)
<1>0. TypeOK
  BY DEF SoundInv
<1>1. ask \in Seq(Packet) /\ \A p \in ToSet(ask) : Fit(d, s, p)
  <2>1. pkt.from \in Id
    BY PacketFields DEF Read
  <2> QED
    BY <2>1, PeerSound
<1>2. lane' = Answered(s, d, rest, ask) /\ Gone(d) /\ UNCHANGED boot
  BY DEF ReceivePublicKeyRequestFatal
<1> HIDE DEF ask
<1>3. \A x, y \in Addr : \A p \in InFlight(x, y)' : p \in InFlight(x, y) \/ Fit(x, y, p)
  <2>1. pkt \in Packet
    BY DEF Read
  <2> QED
    BY <1>0, <1>1, <1>2, <2>1, AnsweredEffect
<1>4. \A x, y \in Addr : node'[x][y] = NoNode \/ node'[x][y] = node[x][y]
  BY <1>0, <1>2 DEF Gone, TypeOK
<1>5. \A x, y \in Addr : \A p \in Again(x, y)' : \E q \in Pending(x, y) : Says(p, q)
  <2>1. \A y \in Addr : standby'[y] = NoPacket \/ standby'[y] = standby[y]
    BY <1>0, <1>2 DEF Gone, TypeOK
  <2>2. \A p : Says(p, p)
    BY DEF Says
  <2> QED
    BY <2>1, <2>2 DEF Again, Pending
<1> QED
  BY <1>2, <1>3, <1>4, <1>5, SoundStep

\* One iteration of _main_loop.
LEMMA SoundHandle ==
  ASSUME SoundInv, TypeOK', NEW s \in Addr, NEW d \in Addr, NEW pkt, NEW rest,
         up[d], Read(s, d, pkt, rest), Handle(s, d, pkt, rest)
  PROVE  SoundInv'
<1> HIDE DEF Packet, Node, Key
<1> DEFINE nd == Peer(d, s, pkt.from)
<1>0. TypeOK /\ generated \in [Addr -> [Addr -> Nat]]
  BY DEF SoundInv, TypeOK
<1>1. /\ pkt \in Packet /\ pkt \in Pending(s, d) /\ SoundPacket(s, d, pkt)
      /\ pkt.from \in Id /\ pkt.key \in Key \cup {NoKey}
  BY PacketFields DEF Read, SoundInv
<1>2. CASE Discard(s, d, pkt, rest)
  BY <1>2, SoundDiscard
<1>3. CASE Readable(d, s, pkt) /\ FromUs(d, pkt)
  BY <1>2, <1>3 DEF Handle, ReceiveOwn, ReceiveUndecryptable, ReceiveGarbled, ReceiveMisread,
     ReceiveDiscovery, ReceivePublicKeyRequest, ReceivePublicKeyRequestFatal,
     ReceivePublicKeyReply, ReceiveEncryptionContext, ReceiveReady, ReceiveRefused, Accepts
<1>4. CASE Readable(d, s, pkt) /\ ~FromUs(d, pkt)
  <2>0. Foreign(d, s, pkt.from)
    BY <1>1, <1>4 DEF SoundPacket, FromUs, Foreign
  <2>1. /\ nd \in Node /\ SoundNode(d, s, nd)
        /\ << >> \in Seq(Packet) /\ ToSet(<< >>) = {}
        /\ \A key \in Key \cup {NoKey} : LearnKey(nd, key) \in Node /\ OfferKey(nd, key) \in Node
    BY <1>1, <2>0, PeerSound, KeyUpdate, ShortToSet
  <2>2. /\ {"PublicKeyReply", "EncryptionContext", "Ready"} \subseteq PacketTypes
        /\ NoKey \in Key \cup {NoKey}
    BY DEF PacketTypes
  <2> HIDE DEF nd
  <2>3. Foreign(d, s, nd.id) /\ ~ReceiveMisread(s, d, pkt, rest)
    BY <1>4, <2>1 DEF SoundNode, ReceiveMisread
  <2>4. CASE ReceiveDiscovery(s, d, pkt, rest) \/ ReceiveRefused(s, d, pkt, rest)
    <3>1. Finish(s, d, pkt, rest, nd, << >>)
      BY <2>4 DEF ReceiveDiscovery, ReceiveRefused, nd
    <3> QED
      BY <2>1, <3>1, SoundFinish
  <2>5. CASE ReceivePublicKeyRequest(s, d, pkt, rest)
    <3> DEFINE nd2 == [nd EXCEPT !.state = KeyExchange]
               out == Reply(d, nd2, "PublicKeyReply", NoKey)
    <3>1. nd2 \in Node /\ nd2.state = 1 /\ nd2.id = nd.id
      BY <2>1 DEF Node, KeyExchange, Connected, Initialised
    <3>2. Finish(s, d, pkt, rest, nd2, out) /\ "public" \in Loaded[d]
      BY <2>5 DEF ReceivePublicKeyRequest, nd
    <3> HIDE DEF nd2
    <3>3. SoundNode(d, s, nd2) /\ ~(nd2.state >= CheckEncryption)
      BY <2>3, <3>1 DEF SoundNode, Handshake, CheckEncryption, Connected
    <3>4. out \in Seq(Packet) /\ \A p \in ToSet(out) : Fit(d, s, p)
      BY <1>0, <2>2, <2>3, <3>1, <3>2, <3>3, ReplyFit
    <3> QED
      BY <3>1, <3>2, <3>3, <3>4, SoundFinish
  <2>6. CASE ReceivePublicKeyRequestFatal(s, d, pkt, rest)
    BY <2>0, <2>6, SoundFatal
  <2>7. CASE ReceivePublicKeyReply(s, d, pkt, rest)
    <3> DEFINE key == <<d, s, generated[d][s]>>
               nd2 == OfferKey(nd, key)
               out == Reply(d, nd2, "EncryptionContext", key)
    <3>1. key \in Key
      BY <1>0 DEF Key
    <3>2. /\ Finish(s, d, pkt, rest, nd2, out)
          /\ "public" \in Loaded[s]
      BY <2>7, <1>1 DEF ReceivePublicKeyReply, Accepts, SoundPacket, nd
    <3>3. key # NoKey
      BY <3>1, SentinelAssumption
    <3> HIDE DEF key
    <3>4. nd2 \in Node /\ nd2.state = 2 /\ nd2.tx = key /\ nd2.id = nd.id
      BY <2>1, <3>1, KeyUpdate
    <3> HIDE DEF nd2
    <3>5. SoundNode(d, s, nd2) /\ ~(nd2.state >= CheckEncryption)
      BY <2>3, <3>2, <3>3, <3>4 DEF SoundNode, Handshake, CheckEncryption, Connected
    <3>6. out \in Seq(Packet) /\ \A p \in ToSet(out) : Fit(d, s, p)
      BY <1>0, <2>2, <2>3, <3>1, <3>2, <3>3, <3>4, <3>5, ReplyFit
    <3> QED
      BY <3>2, <3>4, <3>5, <3>6, SoundFinish
  <2>8. CASE ReceiveEncryptionContext(s, d, pkt, rest)
    <3> DEFINE nd2 == LearnKey(nd, pkt.key)
               out == Reply(d, nd2, "Ready", NoKey)
    <3>1. /\ Finish(s, d, pkt, rest, nd2, out)
          /\ nd.state = Handshake /\ "private" \in Loaded[d]
      BY <2>8 DEF ReceiveEncryptionContext, InState, Expected, CanDecrypt, nd
    <3>2. pkt.key # NoKey /\ "public" \in Loaded[d]
      BY <2>8, <1>1 DEF ReceiveEncryptionContext, Accepts, SoundPacket
    <3>3. /\ nd2 \in Node /\ nd2.state = 3 /\ nd2.id = nd.id
          /\ nd2.rx = pkt.key /\ nd2.tx = nd.tx
      BY <2>1, <1>1, KeyUpdate
    <3> HIDE DEF nd2
    <3>4. nd.tx # NoKey /\ "public" \in Loaded[s]
      BY <2>1, <3>1 DEF SoundNode, Handshake
    <3>5. SoundNode(d, s, nd2) /\ nd2.state >= CheckEncryption
      BY <2>3, <3>1, <3>2, <3>3, <3>4 DEF SoundNode, Handshake, CheckEncryption, Connected
    <3>6. out \in Seq(Packet) /\ \A p \in ToSet(out) : Fit(d, s, p)
      BY <1>0, <2>2, <2>3, <3>1, <3>3, <3>4, <3>5, ReplyFit
    <3> QED
      BY <3>1, <3>3, <3>5, <3>6, SoundFinish
  <2>9. CASE ReceiveReady(s, d, pkt, rest)
    <3> DEFINE nd2 == [nd EXCEPT !.state = Connected]
    <3>1. /\ Finish(s, d, pkt, rest, nd2, << >>)
          /\ nd.state = CheckEncryption
      BY <2>9 DEF ReceiveReady, InState, Expected, nd
    <3>2. "private" \in Loaded[s]
      BY <2>9, <1>1 DEF ReceiveReady, Accepts, SoundPacket
    <3>3. nd2 \in Node /\ nd2.tx = nd.tx /\ nd2.rx = nd.rx /\ nd2.id = nd.id
      BY <2>1 DEF Node, Connected, Initialised
    <3> HIDE DEF nd2
    <3>4. SoundNode(d, s, nd2)
      BY <2>1, <2>3, <3>1, <3>2, <3>3 DEF SoundNode, Handshake, CheckEncryption
    <3> QED
      BY <2>1, <3>1, <3>3, <3>4, SoundFinish
  <2> QED
    BY <1>2, <2>3, <2>4, <2>5, <2>6, <2>7, <2>8, <2>9
       DEF Handle, ReceiveOwn, ReceiveUndecryptable, ReceiveGarbled
<1>5. CASE ReceiveMisread(s, d, pkt, rest)
  <2>1. <<s, 0>> \in Id
    BY DEF Id
  <2>2. Foreign(d, s, <<s, 0>>)
    BY <1>0, <1>1, <1>5 DEF SoundPacket, ReceiveMisread, Readable, Foreign, MyId, TypeOK
  <2> QED
    BY <1>5, <2>1, <2>2, PeerSound, SoundAnswer DEF ReceiveMisread
<1>6. CASE ~Readable(d, s, pkt)
  BY <1>2, <1>5, <1>6 DEF Handle, ReceiveOwn, ReceiveUndecryptable, ReceiveGarbled,
     ReceiveDiscovery, ReceivePublicKeyRequest, ReceivePublicKeyRequestFatal,
     ReceivePublicKeyReply, ReceiveEncryptionContext, ReceiveReady, ReceiveRefused, Accepts
<1> QED
  BY <1>3, <1>4, <1>6

\* A process starts: whatever is left of an earlier one at its endpoint.
LEMMA SoundStart ==
  ASSUME SoundInv, TypeOK', NEW a \in Addr, Start(a)
  PROVE  SoundInv'
<1> HIDE DEF Packet, Node
<1>0. TypeOK
  BY DEF SoundInv
<1>1. /\ \A s \in Addr : node[a][s] = NoNode
      /\ boot'[a] = boot[a] + 1 /\ boot[a] \in Nat
      /\ UNCHANGED <<node, lane, standby>>
      /\ \A x \in Addr : x # a => boot'[x] = boot[x]
  BY <1>0, NetworkAssumption DEF Start, TypeOK
<1>2. \A x, y \in Addr : /\ InFlight(x, y)' = InFlight(x, y)
                         /\ Pending(x, y)' = Pending(x, y)
  BY <1>1 DEF InFlight, Again, Pending
<1>3. \A s, d \in Addr : \A p \in Pending(s, d)' : SoundPacket(s, d, p)'
  <2> SUFFICES ASSUME NEW s \in Addr, NEW d \in Addr, NEW p \in Pending(s, d)
               PROVE  SoundPacket(s, d, p)'
    BY <1>2
  <2>1. SoundPacket(s, d, p)
    BY DEF SoundInv
  <2>2. CASE s = a
    BY <1>1, <2>1, <2>2 DEF SoundPacket
  <2>3. CASE s # a
    BY <1>1, <2>1, <2>3 DEF SoundPacket, MyId
  <2> QED
    BY <2>2, <2>3
<1>4. OnlyReadyIsEncrypted'
  BY <1>2 DEF SoundInv, OnlyReadyIsEncrypted
<1>5. \A x, y \in Addr : node'[x][y] # NoNode =>
          \A nd : nd = node'[x][y] => SoundNode(x, y, nd)'
  <2> SUFFICES ASSUME NEW x \in Addr, NEW y \in Addr, node[x][y] # NoNode,
                      NEW nd, nd = node[x][y]
               PROVE  SoundNode(x, y, nd)'
    BY <1>1
  <2>1. SoundNode(x, y, nd) /\ x # a
    BY <1>1 DEF SoundInv
  <2> QED
    BY <1>1, <2>1 DEF SoundNode, Foreign, MyId
<1> QED
  BY <1>3, <1>4, <1>5 DEF SoundInv

LEMMA SoundNext == SoundInv /\ [Next]_vars => SoundInv'
<1> SUFFICES ASSUME SoundInv, [Next]_vars PROVE SoundInv'
  OBVIOUS
<1> HIDE DEF Packet, Node, Key
<1>0. TypeOK /\ TypeOK'
  BY TypeStep DEF SoundInv
<1> DEFINE Quieter ==
      /\ \A x, y \in Addr : \A p \in InFlight(x, y)' : p \in InFlight(x, y) \/ Fit(x, y, p)
      /\ \A x \in Addr : standby'[x] = NoPacket \/ standby'[x] = standby[x]
      /\ \A x, y \in Addr : node'[x][y] = NoNode \/ node'[x][y] = node[x][y]
      /\ UNCHANGED boot
<1>1. ASSUME Quieter PROVE SoundInv'
  <2>1. \A x, y \in Addr : \A p \in Again(x, y)' : \E q \in Pending(x, y) : Says(p, q)
    BY <1>1 DEF Again, Pending, Says
  <2> QED
    BY <1>0, <1>1, <2>1, SoundStep
<1>2. ASSUME NEW s \in Addr, NEW d \in Addr, NEW i \in DOMAIN lane[s][d],
             lane' = [lane EXCEPT ![s][d] = RemoveAt(@, i)],
             UNCHANGED <<up, boot, node, standby>>
      PROVE  SoundInv'
  <2>1. \A x, y \in Addr : InFlight(x, y)' \subseteq InFlight(x, y)
    BY <1>0, <1>2, Taken DEF Read, InFlight
  <2> QED
    BY <1>1, <1>2, <2>1
<1>3. ASSUME NEW a \in Addr, Start(a) PROVE SoundInv'
  BY <1>0, <1>3, SoundStart
<1>12. ASSUME NEW a \in Addr, Gone(a), UNCHANGED <<boot, lane>> PROVE SoundInv'
  <2>1. /\ \A x \in Addr : standby'[x] = NoPacket \/ standby'[x] = standby[x]
        /\ \A x, y \in Addr : node'[x][y] = NoNode \/ node'[x][y] = node[x][y]
    BY <1>0, <1>12 DEF Gone, TypeOK
  <2> QED
    BY <1>1, <1>12, <2>1 DEF InFlight
<1>4. ASSUME NEW a \in Addr, Exit(a) PROVE SoundInv'
  BY <1>4, <1>12 DEF Exit
<1>5. ASSUME NEW a \in Addr, Broadcast(a) PROVE SoundInv'
  <2> DEFINE pkt == Plain("Discovery", MyId(a), BroadcastId, NoKey)
  <2>1. /\ \A y \in Addr : lane'[a][y] = Append(lane[a][y], pkt)
        /\ \A x, y \in Addr : x # a => lane'[x][y] = lane[x][y]
        /\ UNCHANGED <<up, boot, node, standby>> /\ up[a]
    BY <1>0, <1>5 DEF Broadcast, TypeOK
  <2>2. pkt \in Packet /\ \A y \in Addr : Fit(a, y, pkt)
    <3>1. MyId(a) \in Id
      BY <1>0, NetworkAssumption DEF TypeOK, MyId, Id
    <3>2. pkt \in Packet
      BY <3>1, PlainType DEF PacketTypes
    <3>3. boot[a] > 0 /\ boot[a] \in Nat
      BY <1>0, <2>1, NetworkAssumption DEF TypeOK
    <3> QED
      BY <3>2, <3>3 DEF Fit, SoundPacket, Plain
  <2> HIDE DEF pkt
  <2>3. \A y \in Addr : ToSet(lane'[a][y]) = ToSet(lane[a][y]) \cup {pkt}
    <3>1. \A y \in Addr : lane[a][y] \in Seq(Packet)
      BY <1>0, InFlightType
    <3>2. \A y \in Addr : ToSet(Append(lane[a][y], pkt)) = ToSet(lane[a][y]) \cup {pkt}
      BY <2>2, <3>1, AppendToSet
    <3> QED
      BY <2>1, <3>2
  <2>4. \A x, y \in Addr : \A p \in InFlight(x, y)' : p \in InFlight(x, y) \/ Fit(x, y, p)
    <3>1. \A x, y \in Addr : x # a => InFlight(x, y)' = InFlight(x, y)
      BY <2>1 DEF InFlight
    <3>2. \A y \in Addr : InFlight(a, y)' = InFlight(a, y) \cup {pkt}
      BY <2>3 DEF InFlight
    <3> QED
      BY <2>2, <3>1, <3>2
  <2> QED
    BY <1>1, <2>1, <2>4
<1>6. ASSUME NEW s \in Addr, NEW d \in Addr, Vanish(s, d) PROVE SoundInv'
  <2>1. 1 \in DOMAIN lane[s][d]
    BY <1>0, <1>6, InFlightType DEF Vanish
  <2> QED
    BY <1>2, <1>6, <2>1 DEF Vanish
<1>7. ASSUME NEW s \in Addr, NEW d \in Addr, NEW i \in DOMAIN lane[s][d], Lose(s, d, i)
      PROVE  SoundInv'
  BY <1>2, <1>7 DEF Lose
<1>8. ASSUME NEW s \in Addr, NEW d \in Addr, NEW i \in DOMAIN lane[s][d], Duplicate(s, d, i)
      PROVE  SoundInv'
  <2> DEFINE pkt == lane[s][d][i]
  <2>1. pkt \in Packet /\ pkt \in InFlight(s, d) /\ lane[s][d] \in Seq(Packet)
    BY <1>0, InFlightType
  <2> HIDE DEF pkt
  <2>2. ToSet(Append(lane[s][d], pkt)) = InFlight(s, d)
    <3>1. ToSet(Append(lane[s][d], pkt)) = ToSet(lane[s][d]) \cup {pkt}
      BY <2>1, AppendToSet
    <3> QED
      BY <2>1, <3>1 DEF InFlight
  <2>3. lane' = [lane EXCEPT ![s][d] = Append(@, pkt)] /\ UNCHANGED <<up, boot, node, standby>>
    BY <1>8 DEF Duplicate, pkt
  <2>4. \A x, y \in Addr : lane'[x][y] = IF x = s /\ y = d THEN Append(lane[s][d], pkt) ELSE lane[x][y]
    BY <1>0, <2>3 DEF TypeOK
  <2>5. \A x, y \in Addr : InFlight(x, y)' = InFlight(x, y)
    BY <2>2, <2>4 DEF InFlight
  <2> QED
    BY <1>1, <2>3, <2>5 DEF SoundInv
<1>9. ASSUME NEW s \in Addr, NEW d \in Addr, NEW i \in DOMAIN lane[s][d], Receive(s, d, i)
      PROVE  SoundInv'
  BY <1>0, <1>9, Taken, SoundHandle DEF Receive
<1>10. ASSUME NEW d \in Addr, ReceiveAgain(d) PROVE SoundInv'
  <2>1. CASE OverrunStack(d)
    <3>1. CASE UNCHANGED <<up, node, standby, boot, lane>>
      BY <1>1, <3>1 DEF InFlight
    <3> QED
      BY <1>12, <2>1, <3>1 DEF OverrunStack
  <2> QED
    BY <1>0, <1>10, <2>1, TakenAgain, SoundHandle DEF ReceiveAgain
<1>11. CASE UNCHANGED vars
  <2>1. \A x, y \in Addr : InFlight(x, y)' = InFlight(x, y)
    BY <1>11 DEF vars, InFlight
  <2> QED
    BY <1>1, <1>11, <2>1 DEF vars, SoundInv
<1> QED
  BY <1>3, <1>4, <1>5, <1>6, <1>7, <1>8, <1>9, <1>10, <1>11 DEF Next

LEMMA SoundInit == Init => SoundInv
<1> SUFFICES ASSUME Init PROVE SoundInv
  OBVIOUS
<1>1. TypeOK
  BY NetworkAssumption DEF Init, TypeOK
<1>2. \A x, y \in Addr : Pending(x, y) = {} /\ InFlight(x, y) = {} /\ node[x][y] = NoNode
  BY ShortToSet DEF Init, Pending, InFlight, Again
<1> QED
  BY <1>1, <1>2 DEF SoundInv, OnlyReadyIsEncrypted

\* The local invariant, for any key pairs, faults, duplicates and restarts.
THEOREM SoundCorrect == Spec => []SoundInv
BY SoundInit, SoundNext, PTL DEF Spec

\* No AES context is used before it is filled in, whatever the network does.
THEOREM KeysBeforeUseCorrect == Spec => []KeysBeforeUse
<1>1. SoundInv => KeysBeforeUse
  BY DEF SoundInv, SoundNode, KeysBeforeUse, AtLeast
<1> QED
  BY <1>1, SoundCorrect, PTL

\* _send encrypts Ready and nothing else, whatever the network does.
THEOREM OnlyReadyIsEncryptedCorrect == Spec => []OnlyReadyIsEncrypted
<1>1. SoundInv => OnlyReadyIsEncrypted
  BY DEF SoundInv
<1> QED
  BY <1>1, SoundCorrect, PTL

\* No process takes itself for a peer, whatever comes back to it and whoever
\* ran at its endpoint before.
THEOREM NoSelfEntryCorrect == Spec => []NoSelfEntry
<1>1. SoundInv => NoSelfEntry
  BY DEF SoundInv, SoundNode, Foreign, NoSelfEntry
<1> QED
  BY <1>1, SoundCorrect, PTL

\* Connected is reached only where both ends have loaded both halves of their
\* key pairs, whatever the network does and whoever was there before.
THEOREM FullKeysToConnectCorrect == Spec => []FullKeysToConnect
<1>1. SoundInv => FullKeysToConnect
  <2> SUFFICES ASSUME SoundInv, NEW a \in Addr, NEW s \in Addr, IsConnected(a, s)
               PROVE  Loaded[a] \cap Loaded[s] = {"public", "private"}
    BY DEF FullKeysToConnect
  <2>1. SoundNode(a, s, node[a][s]) /\ node[a][s].state >= Connected
        /\ node[a][s] \in Node
    BY DEF SoundInv, IsConnected, AtLeast, TypeOK
  <2>2. node[a][s].state >= CheckEncryption /\ node[a][s].state >= Handshake
    BY <2>1, NodeFields DEF Connected, CheckEncryption, Handshake
  <2>3. {"public", "private"} \subseteq Loaded[a] \cap Loaded[s]
    BY <2>1, <2>2 DEF SoundNode
  <2> QED
    BY <2>3, LoadedAssumption
<1> QED
  BY <1>1, SoundCorrect, PTL

-----------------------------------------------------------------------------
(* Nothing is retried.                                                     *)

\* How far one iteration reaches: the node for s, and what is sent to s.
LEMMA HandleReach ==
  ASSUME NEW s \in Addr, NEW d \in Addr, NEW pkt, NEW rest, Handle(s, d, pkt, rest)
  PROVE  \/ Discard(s, d, pkt, rest)
         \/ /\ Gone(d)
            /\ \E out : lane' = Answered(s, d, rest, out)
         \/ /\ \E nd : node' = [node EXCEPT ![d][s] = nd]
            /\ \E out : lane' = Answered(s, d, rest, out)
            /\ Keep(d, s, pkt) /\ UNCHANGED <<up, boot>>
<1> HIDE DEF Answered, Greeting, Keep
<1>1. ASSUME NEW nd, NEW replies, Finish(s, d, pkt, rest, nd, replies)
      PROVE  /\ \E n : node' = [node EXCEPT ![d][s] = n]
             /\ \E out : lane' = Answered(s, d, rest, out)
             /\ Keep(d, s, pkt) /\ UNCHANGED <<up, boot>>
  BY <1>1 DEF Finish
<1>2. CASE ReceiveOwn(s, d, pkt, rest) \/ ReceiveUndecryptable(s, d, pkt, rest)
           \/ ReceiveGarbled(s, d, pkt, rest)
  BY <1>2 DEF ReceiveOwn, ReceiveUndecryptable, ReceiveGarbled
<1>3. CASE ReceiveMisread(s, d, pkt, rest)
  BY <1>3 DEF ReceiveMisread
<1>4. CASE ReceivePublicKeyRequestFatal(s, d, pkt, rest)
  BY <1>4 DEF ReceivePublicKeyRequestFatal
<1>5. CASE \/ ReceiveDiscovery(s, d, pkt, rest) \/ ReceivePublicKeyRequest(s, d, pkt, rest)
           \/ ReceivePublicKeyReply(s, d, pkt, rest) \/ ReceiveEncryptionContext(s, d, pkt, rest)
           \/ ReceiveReady(s, d, pkt, rest) \/ ReceiveRefused(s, d, pkt, rest)
  <2>1. \E nd, replies : Finish(s, d, pkt, rest, nd, replies)
    BY <1>5 DEF ReceiveDiscovery, ReceivePublicKeyRequest, ReceivePublicKeyReply,
       ReceiveEncryptionContext, ReceiveReady, ReceiveRefused
  <2> QED
    BY <1>1, <2>1
<1> QED
  BY <1>2, <1>3, <1>4, <1>5 DEF Handle

\* A Discovery from a node that is known changes nothing.
LEMMA KnownDiscovery ==
  ASSUME TypeOK, NEW s \in Addr, NEW d \in Addr, node[d][s] # NoNode, NEW pkt, NEW rest,
         Read(s, d, pkt, rest), Handle(s, d, pkt, rest), pkt.type = "Discovery"
  PROVE  /\ node' = node /\ lane' = rest /\ Keep(d, s, pkt)
<1> HIDE DEF Packet, Node
<1>1. ReceiveDiscovery(s, d, pkt, rest) \/ Discard(s, d, pkt, rest)
  BY DEF Handle, ReceiveOwn, ReceiveUndecryptable, ReceiveGarbled, ReceiveMisread, Accepts,
     ReceivePublicKeyRequest, ReceivePublicKeyRequestFatal, ReceivePublicKeyReply,
     ReceiveEncryptionContext, ReceiveReady, ReceiveRefused
<1>2. CASE ReceiveDiscovery(s, d, pkt, rest)
  <2>1. /\ node' = [node EXCEPT ![d][s] = node[d][s]]
        /\ lane' = [rest EXCEPT ![d][s] = @ \o (<< >> \o << >>)] /\ Keep(d, s, pkt)
    BY <1>2 DEF ReceiveDiscovery, Finish, Greeting, Peer, Answered
  <2>2. node' = node
    BY <2>1 DEF TypeOK
  <2>3. rest \in [Addr -> [Addr -> Seq(Packet)]]
    BY DEF Read
  <2>4. rest[d][s] \o (<< >> \o << >>) = rest[d][s]
    BY <2>3
  <2> QED
    BY <2>1, <2>2, <2>3, <2>4
<1> QED
  BY <1>1, <1>2 DEF Discard

LEMMA QuietHandle ==
  ASSUME TypeOK, NEW s \in Addr, NEW d \in Addr, NEW pkt, NEW rest,
         Read(s, d, pkt, rest), Handle(s, d, pkt, rest),
         NEW x \in Addr, NEW y \in Addr, Quiet(x, y), up'[x], up'[y]
  PROVE  /\ node'[x][y] = node[x][y]
         /\ \A p \in Pending(x, y)' : p.type = "Discovery"
<1> HIDE DEF Packet, Node
<1>1. /\ pkt \in Packet /\ pkt \in Pending(s, d)
      /\ rest \in [Addr -> [Addr -> Seq(Packet)]]
      /\ \A u, v \in Addr : ToSet(rest[u][v]) \subseteq InFlight(u, v)
  BY DEF Read
<1>2. \A p \in Pending(x, y) : p.type = "Discovery"
  BY DEF Quiet
<1>3. ASSUME lane'[x][y] = rest[x][y],
             \A p \in Again(x, y)' : p \in Again(x, y) \/ p.type = "Discovery"
      PROVE  \A p \in Pending(x, y)' : p.type = "Discovery"
  BY <1>1, <1>2, <1>3 DEF Pending, InFlight
<1>4. Keep(d, s, pkt) => \A p \in Again(x, y)' :
         p \in Again(x, y) \/ (x = s /\ y = d /\ Says(p, pkt))
  BY <1>1, AgainEffect
<1>5. CASE (s = x /\ d = y) \/ (s = y /\ d = x)
  <2>1. pkt.type = "Discovery" /\ node[d][s] # NoNode
    BY <1>1, <1>5 DEF Quiet
  <2>2. node' = node /\ lane' = rest /\ Keep(d, s, pkt)
    BY <2>1, KnownDiscovery
  <2> QED
    BY <1>3, <1>4, <2>1, <2>2 DEF Says
<1>6. CASE ~((s = x /\ d = y) \/ (s = y /\ d = x))
  <2>1. CASE Discard(s, d, pkt, rest)
    BY <1>3, <1>4, <1>6, <2>1 DEF Discard
  <2>2. CASE Gone(d) /\ \E out : lane' = Answered(s, d, rest, out)
    <3>1. d # x /\ d # y
      BY <2>2 DEF Gone, TypeOK
    <3>2. node'[x][y] = node[x][y] /\ standby'[y] = standby[y]
      BY <2>2, <3>1 DEF Gone, TypeOK
    <3>3. lane'[x][y] = rest[x][y]
      BY <1>1, <2>2, <3>1 DEF Answered
    <3>4. Again(x, y)' = Again(x, y)
      BY <3>2 DEF Again
    <3> QED
      BY <1>3, <3>2, <3>3, <3>4
  <2>3. CASE /\ \E nd : node' = [node EXCEPT ![d][s] = nd]
             /\ \E out : lane' = Answered(s, d, rest, out)
             /\ Keep(d, s, pkt) /\ UNCHANGED <<up, boot>>
    <3>1. node'[x][y] = node[x][y]
      BY <1>6, <2>3 DEF TypeOK
    <3>2. lane'[x][y] = rest[x][y]
      BY <1>1, <1>6, <2>3 DEF Answered
    <3> QED
      BY <1>3, <1>4, <1>6, <2>3, <3>1, <3>2
  <2> QED
    BY <2>1, <2>2, <2>3, HandleReach
<1> QED
  BY <1>5, <1>6

LEMMA QuietStep ==
  ASSUME TypeOK, [Next]_vars,
         NEW x \in Addr, NEW y \in Addr, Quiet(x, y), up'[x], up'[y]
  PROVE  /\ node'[x][y] = node[x][y]
         /\ \A p \in Pending(x, y)' : p.type = "Discovery"
<1> HIDE DEF Packet, Node
<1>1. \A p \in Pending(x, y) : p.type = "Discovery"
  BY DEF Quiet
<1>2. up[x] /\ up[y]
  BY DEF Quiet, TypeOK
<1>3. ASSUME node'[x][y] = node[x][y], standby'[y] = standby[y],
             \A p \in InFlight(x, y)' : p \in InFlight(x, y) \/ p.type = "Discovery"
      PROVE  /\ node'[x][y] = node[x][y]
             /\ \A p \in Pending(x, y)' : p.type = "Discovery"
  <2>1. Again(x, y)' = Again(x, y)
    BY <1>3 DEF Again
  <2> QED
    BY <1>1, <1>3, <2>1 DEF Pending
<1> DEFINE Goal == /\ node'[x][y] = node[x][y]
                   /\ \A p \in Pending(x, y)' : p.type = "Discovery"
<1>4. ASSUME NEW a \in Addr, Start(a) PROVE Goal
  BY <1>3, <1>4 DEF Start, InFlight
<1>14. ASSUME NEW a \in Addr, Gone(a), UNCHANGED lane PROVE Goal
  <2>1. a # x /\ a # y
    BY <1>14 DEF Gone, TypeOK
  <2>2. node'[x][y] = node[x][y] /\ standby'[y] = standby[y]
    BY <1>14, <2>1 DEF Gone, TypeOK
  <2> QED
    BY <1>3, <1>14, <2>2 DEF InFlight
<1>5. ASSUME NEW a \in Addr, Exit(a) PROVE Goal
  BY <1>5, <1>14 DEF Exit
<1>6. ASSUME NEW a \in Addr, Broadcast(a) PROVE Goal
  <2> DEFINE pkt == Plain("Discovery", MyId(a), BroadcastId, NoKey)
  <2>1. /\ lane'[x][y] \in {lane[x][y], Append(lane[x][y], pkt)}
        /\ UNCHANGED <<node, standby>>
    BY <1>6 DEF Broadcast, TypeOK
  <2>2. lane[x][y] \in Seq(Packet) /\ pkt \in Packet /\ pkt.type = "Discovery"
    <3>1. MyId(a) \in Id
      BY NetworkAssumption DEF TypeOK, MyId, Id
    <3>2. pkt \in Packet
      BY <3>1, PlainType DEF PacketTypes
    <3> QED
      BY <3>2, InFlightType DEF Plain
  <2> HIDE DEF pkt
  <2>3. ToSet(Append(lane[x][y], pkt)) = ToSet(lane[x][y]) \cup {pkt}
    BY <2>2, AppendToSet
  <2> QED
    BY <1>3, <2>1, <2>2, <2>3 DEF InFlight
<1>7. ASSUME NEW s \in Addr, NEW d \in Addr, NEW i \in DOMAIN lane[s][d],
             lane' = [lane EXCEPT ![s][d] = RemoveAt(@, i)],
             UNCHANGED <<node, standby>>
      PROVE  Goal
  <2>1. InFlight(x, y)' \subseteq InFlight(x, y)
    BY <1>7, Taken DEF Read, InFlight
  <2> QED
    BY <1>3, <1>7, <2>1
<1>8. ASSUME NEW s \in Addr, NEW d \in Addr, Vanish(s, d) PROVE Goal
  <2>1. 1 \in DOMAIN lane[s][d]
    BY <1>8, InFlightType DEF Vanish
  <2> QED
    BY <1>7, <1>8, <2>1 DEF Vanish
<1>9. ASSUME NEW s \in Addr, NEW d \in Addr, NEW i \in DOMAIN lane[s][d], Lose(s, d, i)
      PROVE  Goal
  BY <1>7, <1>9 DEF Lose
<1>10. ASSUME NEW s \in Addr, NEW d \in Addr, NEW i \in DOMAIN lane[s][d], Duplicate(s, d, i)
       PROVE  Goal
  <2> DEFINE pkt == lane[s][d][i]
  <2>1. pkt \in Packet /\ pkt \in InFlight(s, d) /\ lane[s][d] \in Seq(Packet)
    BY InFlightType
  <2> HIDE DEF pkt
  <2>2. ToSet(Append(lane[s][d], pkt)) = InFlight(s, d)
    <3>1. ToSet(Append(lane[s][d], pkt)) = ToSet(lane[s][d]) \cup {pkt}
      BY <2>1, AppendToSet
    <3> QED
      BY <2>1, <3>1 DEF InFlight
  <2>3. lane' = [lane EXCEPT ![s][d] = Append(@, pkt)] /\ UNCHANGED <<node, standby>>
    BY <1>10 DEF Duplicate, pkt
  <2>4. lane'[x][y] = IF x = s /\ y = d THEN Append(lane[s][d], pkt) ELSE lane[x][y]
    BY <2>3 DEF TypeOK
  <2>5. InFlight(x, y)' = InFlight(x, y)
    BY <2>2, <2>4 DEF InFlight
  <2> QED
    BY <1>3, <2>3, <2>5
<1>11. ASSUME NEW s \in Addr, NEW d \in Addr, NEW i \in DOMAIN lane[s][d], Receive(s, d, i)
       PROVE  Goal
  BY <1>11, Taken, QuietHandle DEF Receive
<1>12. ASSUME NEW d \in Addr, ReceiveAgain(d) PROVE Goal
  <2>1. CASE OverrunStack(d)
    <3>1. CASE UNCHANGED <<node, standby, lane>>
      BY <1>3, <3>1 DEF InFlight
    <3> QED
      BY <1>14, <2>1, <3>1 DEF OverrunStack
  <2> QED
    BY <1>12, <2>1, TakenAgain, QuietHandle DEF ReceiveAgain
<1>13. CASE UNCHANGED vars
  BY <1>3, <1>13 DEF vars, InFlight
<1> QED
  BY <1>4, <1>5, <1>6, <1>8, <1>9, <1>10, <1>11, <1>12, <1>13 DEF Next

\* What neither end has sent yet is never sent: a pair that waits for a packet
\* that was lost waits for ever, whatever is broadcast, duplicated or restarted
\* elsewhere.
THEOREM NothingRetriedCorrect == Spec => NothingRetried
<1>1. ASSUME TypeOK, [Next]_vars, NEW a \in Addr, NEW s \in Addr
      PROVE  StaysQuiet(a, s)
  <2> SUFFICES ASSUME Quiet(a, s), up'[a], up'[s]
               PROVE  node'[a][s] = node[a][s] /\ Quiet(a, s)'
    BY DEF StaysQuiet
  <2>1. Quiet(s, a)
    BY DEF Quiet
  <2>2. /\ node'[a][s] = node[a][s] /\ node'[s][a] = node[s][a]
        /\ \A p \in Pending(a, s)' : p.type = "Discovery"
        /\ \A p \in Pending(s, a)' : p.type = "Discovery"
    BY <1>1, <2>1, QuietStep
  <2> QED
    BY <2>2 DEF Quiet
<1>2. TypeOK /\ [Next]_vars => [\A a, s \in Addr : StaysQuiet(a, s)]_vars
  BY <1>1
<1> QED
  BY <1>2, TypeCorrect, PTL DEF Spec, NothingRetried
=============================================================================
