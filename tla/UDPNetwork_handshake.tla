------------------------ MODULE UDPNetwork_handshake ------------------------
(* The handshake theorems of UDPNetwork, for processes that start once and  *)
(* a network that does not duplicate a PublicKeyRequest: HandshakeInv is    *)
(* inductive, and what follows from it.                                     *)
EXTENDS UDPNetwork_proofs

\* What is in flight once pkt has been read, by d from s, as far as requests
\* go: still one at most, and no other one on the same way if pkt was one.
Sole(s, d, pkt, rest) ==
    /\ \A x, y \in Addr : Once(rest[x][y])
    /\ IsRequest(pkt) => \A p \in ToSet(rest[s][d]) : ~IsRequest(p)

LEMMA SoleTaken ==
  ASSUME TypeOK, RequestInv, NEW s \in Addr, NEW d \in Addr, NEW i \in DOMAIN lane[s][d]
  PROVE  Sole(s, d, lane[s][d][i], [lane EXCEPT ![s][d] = RemoveAt(@, i)])
<1> HIDE DEF Packet
<1> DEFINE rest == [lane EXCEPT ![s][d] = RemoveAt(@, i)]
<1>1. lane \in [Addr -> [Addr -> Seq(Packet)]] /\ lane[s][d] \in Seq(Packet)
  BY DEF TypeOK
<1>2. \A x, y \in Addr : Once(lane[x][y])
  BY DEF RequestInv
<1>3. \A x, y \in Addr :
         rest[x][y] = IF x = s /\ y = d THEN RemoveAt(lane[s][d], i) ELSE lane[x][y]
  BY <1>1
<1>4. /\ Once(RemoveAt(lane[s][d], i))
      /\ IsRequest(lane[s][d][i]) =>
            \A pkt \in ToSet(RemoveAt(lane[s][d], i)) : ~IsRequest(pkt)
  BY <1>1, <1>2, OnceRemoved
<1> HIDE DEF rest
<1> QED
  BY <1>2, <1>3, <1>4 DEF Sole, rest

LEMMA SoleAgain ==
  ASSUME TypeOK, RequestInv, NEW d \in Addr, standby[d] # NoPacket
  PROVE  Sole(standby[d].src, d, standby[d].pkt, lane)
<1>1. standby[d].src \in Addr /\ up[d]
  BY DEF TypeOK, Standby
<1>2. standby[d].pkt \in Again(standby[d].src, d)
  BY DEF Again
<1>3. IsRequest(standby[d].pkt) => AtLeast(d, standby[d].src, KeyExchange)
  BY <1>1, <1>2 DEF RequestInv
<1> QED
  BY <1>1, <1>3 DEF RequestInv, Sole, InFlight

\* Nothing in flight, nothing on the lane.
LEMMA EmptyLane ==
  ASSUME TypeOK', NEW x \in Addr, NEW y \in Addr, InFlight(x, y)' = {}
  PROVE  lane'[x][y] = << >>
<1> HIDE DEF Packet
<1>1. lane'[x][y] \in Seq(Packet)
  BY DEF TypeOK
<1> SUFFICES ASSUME lane'[x][y] # << >> PROVE FALSE
  OBVIOUS
<1>2. 1 \in DOMAIN lane'[x][y]
  BY <1>1
<1> QED
  BY <1>2 DEF InFlight, ToSet

-----------------------------------------------------------------------------
(* One step of one pair.                                                   *)

\* What d may handle of s after a step about d and s: of the same pair what is
\* pending now, decrypted perhaps; of others no more than now.
LEMMA PendingEffect ==
  ASSUME TypeOK, NEW s \in Addr, NEW d \in Addr, s # d, NEW pkt, NEW rest,
         Read(s, d, pkt, rest), Sole(s, d, pkt, rest),
         NEW out \in Seq(Packet), lane' = Answered(s, d, rest, out), Keep(d, s, pkt),
         Once(out),
         \A p \in ToSet(out) : IsRequest(p) =>
            \A q \in InFlight(d, s) : ~IsRequest(q)
  PROVE  /\ \A x, y \in Addr : Once(lane'[x][y])
         /\ InFlight(s, d)' = ToSet(rest[s][d])
         /\ \A x, y \in Addr : \A p \in InFlight(x, y)' :
               p \in InFlight(x, y) \/ (x = d /\ y = s /\ p \in ToSet(out))
         /\ \A x, y \in Addr : \A p \in Again(x, y)' :
               (y # d /\ p \in Again(x, y)) \/ (x = s /\ y = d /\ Says(p, pkt))
         /\ \A x, y \in Addr : \A p \in Pending(x, y)' :
               \/ \E q \in Pending(x, y) : Says(p, q)
               \/ x = d /\ y = s /\ p \in ToSet(out)
<1> HIDE DEF Packet
<1>1. /\ pkt \in Packet /\ pkt \in Pending(s, d)
      /\ rest \in [Addr -> [Addr -> Seq(Packet)]]
      /\ \A x, y \in Addr : ToSet(rest[x][y]) \subseteq InFlight(x, y)
  BY DEF Read
<1>2. /\ lane'[d][s] = rest[d][s] \o out
      /\ InFlight(d, s)' = ToSet(rest[d][s]) \cup ToSet(out)
      /\ \A x, y \in Addr : ~(x = d /\ y = s) => lane'[x][y] = rest[x][y]
  <2>1. /\ lane'[d][s] = rest[d][s] \o out
        /\ ToSet(lane'[d][s]) = ToSet(rest[d][s]) \cup ToSet(out)
        /\ \A x, y \in Addr : ~(x = d /\ y = s) => lane'[x][y] = rest[x][y]
    <3>1. rest \in [Addr -> [Addr -> Seq(Packet)]]
      BY <1>1
    <3>2. rest[d][s] \in Seq(Packet)
      BY <3>1
    <3>3. ToSet(rest[d][s] \o out) = ToSet(rest[d][s]) \cup ToSet(out)
      BY <3>2, ConcatToSet
    <3>4. /\ lane'[d][s] = rest[d][s] \o out
          /\ \A x, y \in Addr : ~(x = d /\ y = s) => lane'[x][y] = rest[x][y]
      BY <3>1 DEF Answered
    <3> QED
      BY <3>3, <3>4
  <2> QED
    BY <2>1 DEF InFlight
<1>3. Once(lane'[d][s])
  <2>1. rest[d][s] \in Seq(Packet) /\ Once(rest[d][s])
    BY <1>1 DEF Sole
  <2>2. \A p1 \in ToSet(rest[d][s]), p2 \in ToSet(out) : ~(IsRequest(p1) /\ IsRequest(p2))
    BY <1>1
  <2> QED
    BY <1>2, <2>1, <2>2, OnceJoined
<1>4. \A x, y \in Addr : Once(lane'[x][y])
  BY <1>2, <1>3 DEF Sole
<1>5. \A x, y \in Addr : \A p \in InFlight(x, y)' :
         p \in InFlight(x, y) \/ (x = d /\ y = s /\ p \in ToSet(out))
  BY <1>1, <1>2 DEF InFlight
<1>6. \A x, y \in Addr : \A p \in Again(x, y)' :
         (y # d /\ p \in Again(x, y)) \/ (x = s /\ y = d /\ Says(p, pkt))
  BY <1>1, AgainEffect
<1>7. \A p : Says(p, p)
  BY DEF Says
<1>8. \A x, y \in Addr : \A p \in Pending(x, y)' :
         \/ \E q \in Pending(x, y) : Says(p, q)
         \/ x = d /\ y = s /\ p \in ToSet(out)
  BY <1>1, <1>5, <1>6, <1>7 DEF Pending
<1> QED
  BY <1>2, <1>4, <1>5, <1>6, <1>8 DEF InFlight

\* What a step at d with s must respect, nd being d's new node for s and out
\* the datagrams sent to s: the conjuncts of HandshakeInv that can be
\* disturbed, each for this pair only.
Filled(s, nd) ==
    /\ nd.id = MyId(s)
    /\ nd.state >= Handshake <=> nd.tx # NoKey
    /\ nd.state >= CheckEncryption <=> nd.rx # NoKey

Sendable(d, s, out) ==
    \A p \in ToSet(out) :
        /\ p.from = MyId(d)
        /\ p.enc # NoKey => p.type = "Ready"
        /\ p.type = "EncryptionContext" => p.key \in Key
        /\ IsRequest(p) => \A q \in InFlight(d, s) : ~IsRequest(q)

\* A request that was read is what moved nd, one in flight has yet to.
Requested(pkt, others, nd) ==
    /\ IsRequest(pkt) => nd.state >= KeyExchange /\ ~(nd.state >= Handshake)
    /\ \A p \in others : IsRequest(p) => ~(nd.state >= KeyExchange)

\* s is ready for what is sent to it.
Expecting(s, d, out) ==
    up[s] => \A p \in ToSet(out) :
        /\ IsRequest(p) => ~AtLeast(s, d, KeyExchange)
        /\ p.type \in {"PublicKeyReply", "EncryptionContext", "Ready"} => node[s][d] # NoNode

\* nd stands behind what d has sent.
Backed(d, s, nd, out) ==
    \A p \in Pending(d, s) \cup ToSet(out) :
        /\ p.type = "PublicKeyReply" => nd.state >= KeyExchange
        /\ p.type = "EncryptionContext" => nd.state >= Handshake /\ p.key = nd.tx
        /\ p.type = "Ready" => nd.state >= CheckEncryption

\* nd is within one step of what s holds for d, and the other way round.
InStep(d, s, nd) ==
    up[s] =>
        /\ nd.state >= KeyExchange => AtLeast(s, d, Initialised)
        /\ nd.state >= Handshake => AtLeast(s, d, KeyExchange)
        /\ nd.state >= CheckEncryption =>
              AtLeast(s, d, Handshake) /\ nd.rx = node[s][d].tx
        /\ nd.state >= Connected => AtLeast(s, d, CheckEncryption)
        /\ AtLeast(s, d, Handshake) => nd.state >= KeyExchange
        /\ AtLeast(s, d, CheckEncryption) =>
              nd.state >= Handshake /\ node[s][d].rx = nd.tx
        /\ AtLeast(s, d, Connected) => nd.state >= CheckEncryption

\* It is enough to look at the pair of endpoints a step is about.
LEMMA PairStep ==
  ASSUME HandshakeInv, TypeOK',
         NEW s \in Addr, NEW d \in Addr, s # d, up[d], NEW pkt, NEW rest,
         Read(s, d, pkt, rest), Sole(s, d, pkt, rest),
         NEW nd \in Node, NEW out \in Seq(Packet),
         node' = [node EXCEPT ![d][s] = nd],
         lane' = Answered(s, d, rest, out), Keep(d, s, pkt),
         UNCHANGED <<up, boot>>,
         Once(out), Filled(s, nd), Sendable(d, s, out),
         Requested(pkt, ToSet(rest[s][d]), nd),
         Expecting(s, d, out), Backed(d, s, nd, out), InStep(d, s, nd)
  PROVE  HandshakeInv'
<1> HIDE DEF Packet, Node
<1> USE DEF HandshakeInv
<1>1. /\ \A x, y \in Addr : Once(lane'[x][y])
      /\ InFlight(s, d)' = ToSet(rest[s][d])
      /\ \A x, y \in Addr : \A p \in InFlight(x, y)' :
            p \in InFlight(x, y) \/ (x = d /\ y = s /\ p \in ToSet(out))
      /\ \A x, y \in Addr : \A p \in Again(x, y)' :
            (y # d /\ p \in Again(x, y)) \/ (x = s /\ y = d /\ Says(p, pkt))
      /\ \A x, y \in Addr : \A p \in Pending(x, y)' :
            \/ \E q \in Pending(x, y) : Says(p, q)
            \/ x = d /\ y = s /\ p \in ToSet(out)
  BY PendingEffect DEF Sendable
<1>2. node'[d][s] = nd /\ \A x, y \in Addr : x # d \/ y # s => node'[x][y] = node[x][y]
  BY DEF TypeOK
<1>3. nd # NoNode /\ nd.state \in 0 .. 4
  BY SentinelAssumption, NodeFields
<1>4. \A x \in Addr : MyId(x)' = MyId(x)
  BY DEF MyId
<1>5. boot[s] # 0 /\ boot[d] # 0
  <2>1. pkt \in Pending(s, d)
    BY DEF Read
  <2>2. boot[s] # 0
    BY <2>1, ShortToSet DEF UnbornInv, Pending, InFlight
  <2>3. boot[d] > 0
    BY DEF TypeOK
  <2> QED
    BY <2>2, <2>3
<1>6. NoSelfEntry'
  BY <1>2, <1>4 DEF NoSelfEntry
<1>7. PacketInv'
  <2> SUFFICES ASSUME NEW x \in Addr, NEW y \in Addr, NEW p \in Pending(x, y)'
               PROVE  /\ p.from = MyId(x)
                      /\ p.enc # NoKey => p.type = "Ready"
                      /\ p.type = "EncryptionContext" => p.key \in Key
                      /\ x = y \/ boot[y] = 0 => p.type = "Discovery"
    BY <1>4 DEF PacketInv
  <2>1. ASSUME NEW q \in Pending(x, y), Says(p, q)
        PROVE  /\ p.from = MyId(x)
               /\ p.enc # NoKey => p.type = "Ready"
               /\ p.type = "EncryptionContext" => p.key \in Key
               /\ x = y \/ boot[y] = 0 => p.type = "Discovery"
    BY <2>1 DEF PacketInv, Says
  <2>2. CASE x = d /\ y = s /\ p \in ToSet(out)
    BY <2>2, <1>5 DEF Sendable
  <2> QED
    BY <1>1, <2>1, <2>2
<1>8. UnbornInv'
  <2> SUFFICES ASSUME NEW x \in Addr, boot[x] = 0, NEW y \in Addr
               PROVE  lane'[x][y] = << >> /\ Again(x, y)' = {} /\ node'[y][x] = NoNode
    BY DEF UnbornInv
  <2>1. x # s /\ x # d
    BY <1>5
  <2>2. /\ lane[x][y] = << >> /\ Again(x, y) = {} /\ node[y][x] = NoNode
        /\ InFlight(x, y) = {}
    BY ShortToSet DEF UnbornInv, InFlight
  <2>3. InFlight(x, y)' = {} /\ Again(x, y)' = {}
    BY <1>1, <2>1, <2>2
  <2>4. lane'[x][y] = << >>
    BY <2>3, EmptyLane
  <2> QED
    BY <2>1, <2>2, <2>3, <2>4, <1>2
<1>9. RequestInv'
  <2>1. \A k : AtLeast(d, s, k)' <=> nd.state >= k
    BY <1>2, <1>3 DEF AtLeast
  <2>2. \A x, y \in Addr : x # d \/ y # s => \A k : AtLeast(x, y, k)' <=> AtLeast(x, y, k)
    BY <1>2 DEF AtLeast
  <2>3. ASSUME NEW x \in Addr, NEW y \in Addr, up[y], NEW p \in InFlight(x, y)', IsRequest(p)
        PROVE  ~AtLeast(y, x, KeyExchange)'
    <3>1. CASE x = s /\ y = d
      BY <3>1, <2>1, <2>3, <1>1 DEF Requested
    <3>2. CASE x = d /\ y = s /\ p \in ToSet(out)
      BY <3>2, <2>2, <2>3 DEF Expecting
    <3>3. CASE ~(x = s /\ y = d) /\ p \in InFlight(x, y)
      BY <3>3, <2>2, <2>3 DEF RequestInv
    <3> QED
      BY <1>1, <3>1, <3>2, <3>3
  <2>4. ASSUME NEW x \in Addr, NEW y \in Addr, NEW p \in Again(x, y)', IsRequest(p)
        PROVE  AtLeast(y, x, KeyExchange)' /\ ~AtLeast(y, x, Handshake)'
    <3>1. CASE y # d /\ p \in Again(x, y)
      BY <3>1, <2>2, <2>4 DEF RequestInv
    <3>2. CASE x = s /\ y = d /\ Says(p, pkt)
      <4>1. IsRequest(pkt)
        BY <3>2, <2>4 DEF Says, IsRequest
      <4> QED
        BY <3>2, <4>1, <2>1 DEF Requested
    <3> QED
      BY <1>1, <3>1, <3>2
  <2> QED
    BY <1>1, <2>3, <2>4 DEF RequestInv
<1>10. FilledInv'
  BY <1>2, <1>4 DEF FilledInv, Filled
<1>11. AheadInv'
  <2> SUFFICES ASSUME NEW x \in Addr, NEW y \in Addr, NEW p \in Pending(x, y)', up[y],
                      p.type \in {"PublicKeyReply", "EncryptionContext", "Ready"}
               PROVE  node'[y][x] # NoNode
    BY DEF AheadInv
  <2>1. node[y][x] # NoNode => node'[y][x] # NoNode
    BY <1>2, <1>3
  <2>2. ASSUME NEW q \in Pending(x, y), Says(p, q) PROVE node[y][x] # NoNode
    BY <2>2 DEF AheadInv, Says
  <2>3. CASE x = d /\ y = s /\ p \in ToSet(out)
    BY <2>3 DEF Expecting
  <2> QED
    BY <1>1, <2>1, <2>2, <2>3
<1>12. BehindInv'
  <2> SUFFICES ASSUME NEW x \in Addr, NEW y \in Addr, up[x], NEW p \in Pending(x, y)'
               PROVE  /\ p.type = "PublicKeyRequest" => AtLeast(x, y, Initialised)'
                      /\ p.type = "PublicKeyReply" => AtLeast(x, y, KeyExchange)'
                      /\ p.type = "EncryptionContext" =>
                            AtLeast(x, y, Handshake)' /\ p.key = node'[x][y].tx
                      /\ p.type = "Ready" => AtLeast(x, y, CheckEncryption)'
    BY DEF BehindInv
  <2>1. CASE x = d /\ y = s
    <3>1. \A k : AtLeast(d, s, k)' <=> nd.state >= k
      BY <1>2, <1>3 DEF AtLeast
    <3>2. AtLeast(d, s, Initialised)'
      BY <3>1, <1>3 DEF Initialised
    <3>3. \E q \in Pending(d, s) \cup ToSet(out) : Says(p, q)
      BY <2>1, <1>1 DEF Says
    <3> QED
      BY <2>1, <3>1, <3>2, <3>3, <1>2 DEF Backed, Says
  <2>2. CASE ~(x = d /\ y = s)
    <3>1. PICK q \in Pending(x, y) : Says(p, q)
      BY <2>2, <1>1
    <3>2. node'[x][y] = node[x][y]
      BY <2>2, <1>2
    <3>3. \A k : AtLeast(x, y, k)' <=> AtLeast(x, y, k)
      BY <3>2 DEF AtLeast
    <3> QED
      BY <3>1, <3>2, <3>3 DEF BehindInv, Says
  <2> QED
    BY <2>1, <2>2
<1>13. StepInv'
  <2> SUFFICES ASSUME NEW x \in Addr, NEW y \in Addr, up[x], up[y]
               PROVE  /\ AtLeast(x, y, KeyExchange)' => AtLeast(y, x, Initialised)'
                      /\ AtLeast(x, y, Handshake)' => AtLeast(y, x, KeyExchange)'
                      /\ AtLeast(x, y, CheckEncryption)' =>
                            AtLeast(y, x, Handshake)' /\ node'[x][y].rx = node'[y][x].tx
                      /\ AtLeast(x, y, Connected)' => AtLeast(y, x, CheckEncryption)'
    BY DEF StepInv
  <2>1. \A k : AtLeast(d, s, k)' <=> nd.state >= k
    BY <1>2, <1>3 DEF AtLeast
  <2>2. node'[s][d] = node[s][d] /\ \A k : AtLeast(s, d, k)' <=> AtLeast(s, d, k)
    BY <1>2 DEF AtLeast
  <2>3. CASE x = d /\ y = s
    BY <2>1, <2>2, <2>3, <1>2 DEF InStep
  <2>4. CASE x = s /\ y = d
    <3>1. AtLeast(d, s, Initialised)'
      BY <2>1, <1>3 DEF Initialised
    <3> QED
      BY <2>1, <2>2, <2>4, <3>1, <1>2 DEF InStep
  <2>5. CASE ~(x = s /\ y = d) /\ ~(x = d /\ y = s)
    <3>1. node'[x][y] = node[x][y] /\ node'[y][x] = node[y][x]
      BY <2>5, <1>2
    <3>2. \A k : (AtLeast(x, y, k)' <=> AtLeast(x, y, k)) /\ (AtLeast(y, x, k)' <=> AtLeast(y, x, k))
      BY <3>1 DEF AtLeast
    <3> QED
      BY <3>1, <3>2 DEF StepInv
  <2> QED
    BY <2>3, <2>4, <2>5
<1> QED
  BY <1>6, <1>7, <1>8, <1>9, <1>10, <1>11, <1>12, <1>13

-----------------------------------------------------------------------------
(* One lemma per kind of iteration of _main_loop.                          *)

\* A packet that is not our own comes from another endpoint, and from the one
\* process that ever runs there.
LEMMA FromOther ==
  ASSUME HandshakeInv, NEW s \in Addr, NEW d \in Addr, NEW pkt, NEW rest,
         Read(s, d, pkt, rest), ~FromUs(d, pkt)
  PROVE  /\ s # d
         /\ pkt \in Packet /\ pkt \in Pending(s, d)
         /\ pkt.from = MyId(s) /\ MyId(s) \in Id
         /\ pkt.key \in Key \cup {NoKey}
<1> HIDE DEF Packet
<1>1. pkt \in Packet /\ pkt \in Pending(s, d)
  BY DEF Read
<1>2. pkt.from = MyId(s)
  BY <1>1 DEF HandshakeInv, PacketInv
<1> QED
  BY <1>1, <1>2, PacketFields DEF FromUs

\* With nothing new, what d holds and what is pending go together.
LEMMA KnownPair ==
  ASSUME HandshakeInv, NEW s \in Addr, NEW d \in Addr, up[d], node[d][s] # NoNode
  PROVE  LET nd == node[d][s] IN
         /\ nd \in Node
         /\ \A k : AtLeast(d, s, k) <=> nd.state >= k
         /\ Filled(s, nd)
         /\ \A p \in InFlight(s, d) : IsRequest(p) => ~(nd.state >= KeyExchange)
         /\ Backed(d, s, nd, << >>)
         /\ InStep(d, s, nd)
<1> DEFINE nd == node[d][s]
<1> HIDE DEF Packet, Node
<1>0. TypeOK /\ FilledInv /\ RequestInv /\ BehindInv /\ StepInv
  BY DEF HandshakeInv
<1>1. nd \in Node
  BY <1>0 DEF TypeOK
<1>2. \A k : AtLeast(d, s, k) <=> nd.state >= k
  BY DEF AtLeast
<1>3. Filled(s, nd)
  BY <1>0 DEF FilledInv, Filled
<1>4. \A p \in InFlight(s, d) : IsRequest(p) => ~(nd.state >= KeyExchange)
  BY <1>0, <1>2 DEF RequestInv
<1>5. Backed(d, s, nd, << >>)
  BY <1>0, <1>2, ShortToSet DEF BehindInv, Backed
<1>6. InStep(d, s, nd)
  BY <1>0, <1>2 DEF StepInv, InStep
<1> QED
  BY <1>1, <1>2, <1>3, <1>4, <1>5, <1>6

\* A process that does not know s has sent it nothing but broadcasts, and s
\* has not gone beyond adding it.
LEMMA UnknownPair ==
  ASSUME HandshakeInv, NEW s \in Addr, NEW d \in Addr, up[d], node[d][s] = NoNode
  PROVE  /\ \A p \in Pending(d, s) :
               p.type \notin {"PublicKeyRequest", "PublicKeyReply", "EncryptionContext", "Ready"}
         /\ \A p \in InFlight(d, s) : ~IsRequest(p)
         /\ up[s] => /\ ~AtLeast(s, d, KeyExchange)
                     /\ ~AtLeast(s, d, Handshake)
                     /\ ~AtLeast(s, d, CheckEncryption)
                     /\ ~AtLeast(s, d, Connected)
<1>0. BehindInv /\ StepInv
  BY DEF HandshakeInv
<1>1. \A k : ~AtLeast(d, s, k)
  BY DEF AtLeast
<1>2. \A p \in Pending(d, s) :
         p.type \notin {"PublicKeyRequest", "PublicKeyReply", "EncryptionContext", "Ready"}
  BY <1>0, <1>1 DEF BehindInv
<1>3. \A p \in InFlight(d, s) : ~IsRequest(p)
  BY <1>2 DEF Pending, IsRequest
<1>4. up[s] => /\ ~AtLeast(s, d, KeyExchange)
               /\ ~AtLeast(s, d, Handshake)
               /\ ~AtLeast(s, d, CheckEncryption)
               /\ ~AtLeast(s, d, Connected)
  BY <1>0, <1>1 DEF StepInv
<1> QED
  BY <1>2, <1>3, <1>4

\* The greeting alone: an iteration that leaves a known node as it is, or
\* adds one in Initialised.
LEMMA ContactStep ==
  ASSUME HandshakeInv, TypeOK',
         NEW s \in Addr, NEW d \in Addr, up[d], NEW pkt, NEW rest,
         Read(s, d, pkt, rest), Sole(s, d, pkt, rest),
         ~FromUs(d, pkt), ~IsRequest(pkt),
         Finish(s, d, pkt, rest, Peer(d, s, pkt.from), << >>)
  PROVE  HandshakeInv'
<1> HIDE DEF Packet, Node
<1> DEFINE id == MyId(s)
           nd == Peer(d, s, id)
           out == Greeting(d, s, id)
           ask == Plain("PublicKeyRequest", MyId(d), id, NoKey)
<1>0. TypeOK
  BY DEF HandshakeInv
<1>1. s # d /\ pkt.from = id /\ id \in Id
  BY FromOther
<1>2. nd \in Node /\ out \in Seq(Packet)
  BY <1>0, <1>1, PeerType
<1>3. /\ node' = [node EXCEPT ![d][s] = nd] /\ lane' = Answered(s, d, rest, out)
      /\ Keep(d, s, pkt) /\ UNCHANGED <<up, boot>>
  <2>1. Greeting(d, s, nd.id) = out
    BY DEF Greeting, Peer, NewNode
  <2>2. out \o << >> = out
    BY <1>2, ConcatEmptySeq
  <2> QED
    BY <1>1, <2>1, <2>2 DEF Finish
<1>4. CASE node[d][s] = NoNode
  <2>1. nd = NewNode(id) /\ out = << ask >>
    BY <1>4 DEF Peer, Greeting
  <2>2. ToSet(out) = {ask} /\ Once(out)
    BY <2>1, ShortToSet DEF Once
  <2>3. ask.type = "PublicKeyRequest" /\ ask.from = MyId(d) /\ ask.enc = NoKey
    BY DEF Plain
  <2>4. nd.id = id /\ nd.state = 0 /\ nd.tx = NoKey /\ nd.rx = NoKey
    BY <2>1 DEF NewNode, Initialised
  <2>5. /\ ~(nd.state >= KeyExchange) /\ ~(nd.state >= Handshake)
        /\ ~(nd.state >= CheckEncryption) /\ ~(nd.state >= Connected)
    BY <2>4 DEF KeyExchange, Handshake, CheckEncryption, Connected
  <2>6. Filled(s, nd) /\ Requested(pkt, ToSet(rest[s][d]), nd)
    BY <2>4, <2>5 DEF Filled, Requested
  <2>7. Sendable(d, s, out) /\ Expecting(s, d, out)
    BY <1>4, <2>2, <2>3, UnknownPair DEF Sendable, Expecting
  <2>8. Backed(d, s, nd, out) /\ InStep(d, s, nd)
    BY <1>4, <2>2, <2>3, <2>5, UnknownPair DEF Backed, InStep
  <2> HIDE DEF nd, out, ask
  <2> QED
    BY <1>1, <1>2, <1>3, <2>2, <2>6, <2>7, <2>8, PairStep
<1>5. CASE node[d][s] # NoNode
  <2>1. nd = node[d][s] /\ out = << >>
    BY <1>5 DEF Peer, Greeting
  <2>2. ToSet(out) = {} /\ Once(out)
    BY <2>1, ShortToSet DEF Once
  <2>3. Filled(s, nd) /\ Backed(d, s, nd, out) /\ InStep(d, s, nd)
    BY <1>5, <2>1, KnownPair
  <2>4. Requested(pkt, ToSet(rest[s][d]), nd)
    BY <1>5, <2>1, KnownPair DEF Requested, Read
  <2>5. Sendable(d, s, out) /\ Expecting(s, d, out)
    BY <2>2 DEF Sendable, Expecting
  <2> HIDE DEF nd, out
  <2> QED
    BY <1>1, <1>2, <1>3, <2>2, <2>3, <2>4, <2>5, PairStep
<1> QED
  BY <1>4, <1>5

\* PublicKeyRequest finds the node unknown, in Initialised or, when it is
\* handled again, in KeyExchange.
LEMMA RequestStep ==
  ASSUME HandshakeInv, TypeOK',
         NEW s \in Addr, NEW d \in Addr, up[d], NEW pkt, NEW rest,
         Read(s, d, pkt, rest), Sole(s, d, pkt, rest),
         ReceivePublicKeyRequest(s, d, pkt, rest)
  PROVE  HandshakeInv'
<1> HIDE DEF Packet, Node
<1> DEFINE old == Peer(d, s, pkt.from)
           nd  == [old EXCEPT !.state = KeyExchange]
           ask == Greeting(d, s, nd.id)
           ans == Reply(d, nd, "PublicKeyReply", NoKey)
           out == ask \o ans
<1>0. TypeOK /\ RequestInv /\ BehindInv /\ StepInv
  BY DEF HandshakeInv
<1>1. /\ s # d /\ pkt.type = "PublicKeyRequest" /\ pkt.from = MyId(s)
      /\ MyId(s) \in Id /\ pkt \in Pending(s, d)
      /\ node' = [node EXCEPT ![d][s] = nd] /\ lane' = Answered(s, d, rest, out)
      /\ Keep(d, s, pkt) /\ UNCHANGED <<up, boot>>
  BY FromOther DEF ReceivePublicKeyRequest, Accepts, Finish
<1>2. old \in Node
  BY <1>0, <1>1, PeerType
<1>3. ~AtLeast(d, s, Handshake)
  <2>1. CASE pkt \in Again(s, d)
    BY <2>1, <1>0, <1>1 DEF RequestInv, IsRequest
  <2>2. CASE pkt \in InFlight(s, d)
    <3>1. ~AtLeast(d, s, KeyExchange)
      BY <2>2, <1>0, <1>1 DEF RequestInv, IsRequest
    <3>2. node[d][s] # NoNode => node[d][s].state \in 0 .. 4
      BY <1>0, NodeFields DEF TypeOK
    <3> QED
      BY <3>1, <3>2 DEF AtLeast, KeyExchange, Handshake
  <2> QED
    BY <1>1, <2>1, <2>2 DEF Pending
<1>4. node[d][s] # NoNode => node[d][s].state \in 0 .. 1
  <2>1. node[d][s] # NoNode => node[d][s].state \in 0 .. 4
    BY <1>0, NodeFields DEF TypeOK
  <2> QED
    BY <1>3, <2>1 DEF AtLeast, Handshake
<1>5. old.id = MyId(s) /\ old.tx = NoKey /\ old.rx = NoKey
  <2>1. CASE node[d][s] = NoNode
    BY <1>1, <2>1 DEF Peer, NewNode
  <2>2. CASE node[d][s] # NoNode
    <3>1. old = node[d][s] /\ Filled(s, old)
      BY <2>2, KnownPair DEF Peer
    <3> HIDE DEF old
    <3> QED
      BY <2>2, <3>1, <1>4 DEF Filled, Handshake, CheckEncryption
  <2> QED
    BY <2>1, <2>2
<1> HIDE DEF old
<1>6. nd \in Node /\ nd.id = MyId(s) /\ nd.state = 1 /\ nd.tx = NoKey /\ nd.rx = NoKey
  BY <1>2, <1>5 DEF Node, KeyExchange, Initialised, Connected
<1> HIDE DEF nd
<1>7. ask \in Seq(Packet) /\ ans \in Seq(Packet)
  <2>1. "PublicKeyReply" \in PacketTypes
    BY DEF PacketTypes
  <2> QED
    BY <1>0, <1>6, <2>1, PeerType, NodeFields, ReplyType
<1>8. PICK r : /\ ans = << r >> /\ r.type = "PublicKeyReply"
               /\ r.from = MyId(d) /\ r.enc = NoKey
  <2>1. ~(nd.state >= CheckEncryption)
    BY <1>6 DEF CheckEncryption
  <2> QED
    BY <2>1, ReplyFields
<1>9. \A p \in ToSet(ask) : /\ node[d][s] = NoNode /\ p.type = "PublicKeyRequest"
                            /\ p.from = MyId(d) /\ p.enc = NoKey
  BY ShortToSet DEF Greeting, Plain
<1>10. Once(ask) /\ Once(ans)
  BY <1>8 DEF Once, Greeting
<1> HIDE DEF ask, ans
<1>11. out \in Seq(Packet) /\ ToSet(out) = ToSet(ask) \cup {r} /\ Once(out)
  <2>1. ToSet(ans) = {r}
    BY <1>8, ShortToSet
  <2>2. out \in Seq(Packet) /\ ToSet(out) = ToSet(ask) \cup ToSet(ans)
    BY <1>7, ConcatToSet
  <2>3. \A p1 \in ToSet(ask), p2 \in ToSet(ans) : ~(IsRequest(p1) /\ IsRequest(p2))
    BY <1>8, <2>1 DEF IsRequest
  <2> QED
    BY <1>7, <1>10, <2>1, <2>2, <2>3, OnceJoined
<1> HIDE DEF out
<1>12. \A p \in ToSet(out) :
          /\ p.from = MyId(d) /\ p.enc = NoKey
          /\ p.type = "PublicKeyReply" \/ (p.type = "PublicKeyRequest" /\ node[d][s] = NoNode)
  BY <1>8, <1>9, <1>11
\* Nothing beyond the broadcasts, the greeting and a reply has left d.
<1>13. \A p \in Pending(d, s) : p.type \notin {"EncryptionContext", "Ready"}
  <2>1. CASE node[d][s] = NoNode
    BY <2>1, UnknownPair
  <2>2. CASE node[d][s] # NoNode
    BY <1>4, <2>2, KnownPair DEF Backed, Handshake, CheckEncryption
  <2> QED
    BY <2>1, <2>2
<1>14. up[s] => /\ AtLeast(s, d, Initialised)
                /\ ~AtLeast(s, d, CheckEncryption)
                /\ ~AtLeast(s, d, Connected)
  <2>1. ~AtLeast(d, s, Handshake) /\ ~AtLeast(d, s, CheckEncryption)
    BY <1>4 DEF AtLeast, Handshake, CheckEncryption
  <2> QED
    BY <1>0, <1>1, <2>1 DEF StepInv, BehindInv
<1>15. Filled(s, nd) /\ Requested(pkt, ToSet(rest[s][d]), nd)
  <2>1. \A p \in ToSet(rest[s][d]) : ~IsRequest(p)
    BY <1>1 DEF Sole, IsRequest
  <2> QED
    BY <1>1, <1>6, <2>1 DEF Filled, Requested, KeyExchange, Handshake, CheckEncryption
<1>16. Sendable(d, s, out) /\ Expecting(s, d, out)
  <2>1. node[d][s] = NoNode => /\ \A q \in InFlight(d, s) : ~IsRequest(q)
                               /\ up[s] => ~AtLeast(s, d, KeyExchange)
    BY <1>1, UnknownPair
  <2>2. up[s] => node[s][d] # NoNode
    BY <1>14 DEF AtLeast
  <2> QED
    BY <1>12, <2>1, <2>2 DEF Sendable, Expecting, IsRequest
<1>17. Backed(d, s, nd, out) /\ InStep(d, s, nd)
  BY <1>6, <1>12, <1>13, <1>14
     DEF Backed, InStep, KeyExchange, Handshake, CheckEncryption, Connected
<1> QED
  BY <1>1, <1>6, <1>11, <1>15, <1>16, <1>17, PairStep

\* A known node is not greeted.
LEMMA KnownFinish ==
  ASSUME NEW s \in Addr, NEW d \in Addr, node[d][s] # NoNode, NEW pkt, NEW rest,
         NEW nd, NEW replies \in Seq(Packet), Finish(s, d, pkt, rest, nd, replies)
  PROVE  /\ node' = [node EXCEPT ![d][s] = nd]
         /\ lane' = Answered(s, d, rest, replies)
         /\ Keep(d, s, pkt)
         /\ UNCHANGED <<up, boot>>
<1>1. Greeting(d, s, nd.id) = << >>
  BY DEF Greeting
<1>2. << >> \o replies = replies
  BY ConcatEmptySeq
<1> QED
  BY <1>1, <1>2 DEF Finish

LEMMA ReplyStep ==
  ASSUME HandshakeInv, TypeOK',
         NEW s \in Addr, NEW d \in Addr, up[d], NEW pkt, NEW rest,
         Read(s, d, pkt, rest), Sole(s, d, pkt, rest),
         ReceivePublicKeyReply(s, d, pkt, rest)
  PROVE  HandshakeInv'
<1> HIDE DEF Packet, Node, Key
<1> DEFINE old == node[d][s]
           key == <<d, s, generated[d][s]>>
           nd  == OfferKey(old, key)
           out == Reply(d, nd, "EncryptionContext", key)
<1>0. TypeOK /\ BehindInv
  BY DEF HandshakeInv
<1>1. /\ s # d /\ pkt.type = "PublicKeyReply" /\ pkt \in Pending(s, d)
      /\ InState(d, s, pkt.from, "PublicKeyReply")
  BY FromOther DEF ReceivePublicKeyReply, Accepts
<1>2. key \in Key
  BY <1>0 DEF TypeOK, Key
<1>3. old # NoNode /\ old.state = 1 /\ Peer(d, s, pkt.from) = old
  <2>1. old # NoNode
    BY <1>1 DEF InState, Peer, NewNode, Expected, Initialised, KeyExchange
  <2> QED
    BY <1>1, <2>1 DEF InState, Peer, Expected, KeyExchange
<1>4. old \in Node
  BY <1>0, <1>3 DEF TypeOK
<1>5. Finish(s, d, pkt, rest, nd, out)
  BY <1>3 DEF ReceivePublicKeyReply
<1> HIDE DEF key
<1>6. old.rx = NoKey /\ old.id = MyId(s)
  <2>1. Filled(s, old)
    BY <1>3, KnownPair
  <2> QED
    BY <1>3, <2>1 DEF Filled, CheckEncryption
<1>7. nd \in Node /\ nd.id = MyId(s) /\ nd.state = 2 /\ nd.tx = key /\ nd.rx = NoKey
  <2> HIDE DEF old
  <2> QED
    BY <1>2, <1>4, <1>6, KeyUpdate
<1> HIDE DEF nd
<1>8. out \in Seq(Packet)
  BY <1>0, <1>2, <1>7, ReplyType DEF PacketTypes
<1>9. PICK r : /\ out = << r >> /\ r.type = "EncryptionContext"
               /\ r.from = MyId(d) /\ r.enc = NoKey /\ r.key = key
  <2>1. ~(nd.state >= CheckEncryption)
    BY <1>7 DEF CheckEncryption
  <2> QED
    BY <2>1, ReplyFields
<1>10. ToSet(out) = {r} /\ Once(out)
  BY <1>9, ShortToSet DEF Once
<1> HIDE DEF out
<1>11. /\ node' = [node EXCEPT ![d][s] = nd] /\ lane' = Answered(s, d, rest, out)
       /\ Keep(d, s, pkt) /\ UNCHANGED <<up, boot>>
  BY <1>3, <1>5, <1>8, KnownFinish
<1>12. /\ ~(old.state >= Handshake) /\ ~(old.state >= CheckEncryption)
       /\ old.state >= KeyExchange
  BY <1>3 DEF KeyExchange, Handshake, CheckEncryption
<1>13. /\ nd.state >= KeyExchange /\ nd.state >= Handshake
       /\ ~(nd.state >= CheckEncryption) /\ ~(nd.state >= Connected)
  BY <1>7 DEF KeyExchange, Handshake, CheckEncryption, Connected
<1>14. Backed(d, s, old, << >>) /\ InStep(d, s, old)
  BY <1>3, KnownPair
<1>15. \A p \in Pending(d, s) : p.type \notin {"EncryptionContext", "Ready"}
  BY <1>12, <1>14 DEF Backed
<1>16. up[s] => /\ AtLeast(s, d, KeyExchange) /\ AtLeast(s, d, Initialised)
                /\ ~AtLeast(s, d, CheckEncryption) /\ ~AtLeast(s, d, Connected)
  BY <1>0, <1>1, <1>12, <1>14 DEF BehindInv, InStep
<1>17. Filled(s, nd)
  BY <1>2, <1>7, <1>13, SentinelAssumption DEF Filled
<1>18. Requested(pkt, ToSet(rest[s][d]), nd)
  <2>1. \A p \in ToSet(rest[s][d]) : ~IsRequest(p)
    BY <1>3, <1>12, KnownPair DEF Read
  <2> QED
    BY <1>1, <2>1 DEF Requested, IsRequest
<1>19. Sendable(d, s, out) /\ Expecting(s, d, out)
  BY <1>2, <1>9, <1>10, <1>16 DEF Sendable, Expecting, IsRequest, AtLeast
<1>20. Backed(d, s, nd, out) /\ InStep(d, s, nd)
  BY <1>7, <1>9, <1>10, <1>13, <1>15, <1>16 DEF Backed, InStep
<1> QED
  BY <1>1, <1>7, <1>8, <1>10, <1>11, <1>17, <1>18, <1>19, <1>20, PairStep

LEMMA ContextStep ==
  ASSUME HandshakeInv, TypeOK',
         NEW s \in Addr, NEW d \in Addr, up[d], NEW pkt, NEW rest,
         Read(s, d, pkt, rest), Sole(s, d, pkt, rest),
         ReceiveEncryptionContext(s, d, pkt, rest)
  PROVE  HandshakeInv'
<1> HIDE DEF Packet, Node, Key
<1> DEFINE old == node[d][s]
           nd  == LearnKey(old, pkt.key)
           out == Reply(d, nd, "Ready", NoKey)
<1>0. TypeOK /\ BehindInv /\ PacketInv
  BY DEF HandshakeInv
<1>1. /\ s # d /\ pkt.type = "EncryptionContext" /\ pkt \in Pending(s, d)
      /\ InState(d, s, pkt.from, "EncryptionContext")
  BY FromOther DEF ReceiveEncryptionContext, Accepts
<1>2. pkt.key \in Key
  BY <1>0, <1>1 DEF PacketInv
<1>3. old # NoNode /\ old.state = 2 /\ Peer(d, s, pkt.from) = old
  <2>1. old # NoNode
    BY <1>1 DEF InState, Peer, NewNode, Expected, Initialised, Handshake
  <2> QED
    BY <1>1, <2>1 DEF InState, Peer, Expected, Handshake
<1>4. old \in Node
  BY <1>0, <1>3 DEF TypeOK
<1>5. Finish(s, d, pkt, rest, nd, out)
  BY <1>3 DEF ReceiveEncryptionContext
<1>6. old.tx # NoKey /\ old.id = MyId(s)
  <2>1. Filled(s, old)
    BY <1>3, KnownPair
  <2> QED
    BY <1>3, <2>1 DEF Filled, Handshake
<1>7. nd \in Node /\ nd.id = MyId(s) /\ nd.state = 3 /\ nd.tx = old.tx /\ nd.rx = pkt.key
  <2> HIDE DEF old
  <2> QED
    BY <1>2, <1>4, <1>6, KeyUpdate
<1> HIDE DEF nd
<1>8. out \in Seq(Packet)
  BY <1>0, <1>7, ReplyType DEF PacketTypes
<1>9. PICK r : /\ out = << r >> /\ r.type = "Ready" /\ r.from = MyId(d)
  BY ReplyFields
<1>10. ToSet(out) = {r} /\ Once(out)
  BY <1>9, ShortToSet DEF Once
<1> HIDE DEF out
<1>11. /\ node' = [node EXCEPT ![d][s] = nd] /\ lane' = Answered(s, d, rest, out)
       /\ Keep(d, s, pkt) /\ UNCHANGED <<up, boot>>
  BY <1>3, <1>5, <1>8, KnownFinish
<1>12. /\ ~(old.state >= CheckEncryption) /\ old.state >= KeyExchange
       /\ old.state >= Handshake
  BY <1>3 DEF KeyExchange, Handshake, CheckEncryption
<1>13. /\ nd.state >= KeyExchange /\ nd.state >= Handshake
       /\ nd.state >= CheckEncryption /\ ~(nd.state >= Connected)
  BY <1>7 DEF KeyExchange, Handshake, CheckEncryption, Connected
<1>14. Backed(d, s, old, << >>) /\ InStep(d, s, old)
  BY <1>3, KnownPair
<1>15. up[s] => /\ AtLeast(s, d, Initialised) /\ AtLeast(s, d, KeyExchange)
                /\ AtLeast(s, d, Handshake) /\ nd.rx = node[s][d].tx
                /\ AtLeast(s, d, CheckEncryption) => node[s][d].rx = nd.tx
                /\ ~AtLeast(s, d, Connected)
  <2>1. up[s] => AtLeast(s, d, Handshake) /\ pkt.key = node[s][d].tx
    BY <1>0, <1>1 DEF BehindInv
  <2> QED
    BY <1>7, <1>12, <1>14, <2>1 DEF InStep
<1>16. Filled(s, nd)
  BY <1>2, <1>6, <1>7, <1>13, SentinelAssumption DEF Filled
<1>17. Requested(pkt, ToSet(rest[s][d]), nd)
  <2>1. \A p \in ToSet(rest[s][d]) : ~IsRequest(p)
    BY <1>3, <1>12, KnownPair DEF Read
  <2> QED
    BY <1>1, <2>1 DEF Requested, IsRequest
<1>18. Sendable(d, s, out) /\ Expecting(s, d, out)
  BY <1>9, <1>10, <1>15 DEF Sendable, Expecting, IsRequest, AtLeast
<1>19. Backed(d, s, nd, out) /\ InStep(d, s, nd)
  BY <1>7, <1>9, <1>10, <1>13, <1>14, <1>15 DEF Backed, InStep
<1> QED
  BY <1>1, <1>7, <1>8, <1>10, <1>11, <1>16, <1>17, <1>18, <1>19, PairStep

LEMMA ReadyStep ==
  ASSUME HandshakeInv, TypeOK',
         NEW s \in Addr, NEW d \in Addr, up[d], NEW pkt, NEW rest,
         Read(s, d, pkt, rest), Sole(s, d, pkt, rest),
         ReceiveReady(s, d, pkt, rest)
  PROVE  HandshakeInv'
<1> HIDE DEF Packet, Node, Key
<1> DEFINE old == node[d][s]
           nd  == [old EXCEPT !.state = Connected]
<1>0. TypeOK /\ BehindInv
  BY DEF HandshakeInv
<1>1. /\ s # d /\ pkt.type = "Ready" /\ pkt \in Pending(s, d)
      /\ InState(d, s, pkt.from, "Ready")
  BY FromOther DEF ReceiveReady, Accepts
<1>2. old # NoNode /\ old.state = 3 /\ Peer(d, s, pkt.from) = old
  <2>1. old # NoNode
    BY <1>1 DEF InState, Peer, NewNode, Expected, Initialised, CheckEncryption
  <2> QED
    BY <1>1, <2>1 DEF InState, Peer, Expected, CheckEncryption
<1>3. old \in Node
  BY <1>0, <1>2 DEF TypeOK
<1>4. Finish(s, d, pkt, rest, nd, << >>) /\ << >> \in Seq(Packet)
  BY <1>2 DEF ReceiveReady
<1>5. /\ nd \in Node /\ nd.id = old.id /\ nd.state = 4
      /\ nd.tx = old.tx /\ nd.rx = old.rx
  <2> HIDE DEF old
  <2> QED
    BY <1>3 DEF Node, Initialised, Connected
<1> HIDE DEF nd
<1>6. /\ node' = [node EXCEPT ![d][s] = nd] /\ lane' = Answered(s, d, rest, << >>)
      /\ Keep(d, s, pkt) /\ UNCHANGED <<up, boot>>
  <2>1. Greeting(d, s, nd.id) = << >> /\ << >> \o << >> = << >>
    BY <1>2 DEF Greeting
  <2> QED
    BY <1>4, <2>1 DEF Finish
<1>7. \A k \in {KeyExchange, Handshake, CheckEncryption} : old.state >= k /\ nd.state >= k
  BY <1>2, <1>5 DEF KeyExchange, Handshake, CheckEncryption
<1>8. /\ Filled(s, old) /\ Backed(d, s, old, << >>) /\ InStep(d, s, old)
      /\ \A p \in ToSet(rest[s][d]) : ~IsRequest(p)
  BY <1>2, <1>7, KnownPair DEF Read
<1>9. up[s] => AtLeast(s, d, CheckEncryption)
  BY <1>0, <1>1 DEF BehindInv
<1>10. Filled(s, nd) /\ Backed(d, s, nd, << >>)
  BY <1>5, <1>7, <1>8 DEF Filled, Backed
<1>11. Requested(pkt, ToSet(rest[s][d]), nd)
  BY <1>1, <1>8 DEF Requested, IsRequest
<1>12. InStep(d, s, nd)
  BY <1>5, <1>7, <1>8, <1>9 DEF InStep
<1>13. Once(<< >>) /\ Sendable(d, s, << >>) /\ Expecting(s, d, << >>)
  BY ShortToSet DEF Once, Sendable, Expecting
<1> QED
  BY <1>1, <1>4, <1>5, <1>6, <1>10, <1>11, <1>12, <1>13, PairStep

-----------------------------------------------------------------------------
(* The other actions.                                                      *)

\* A datagram no handshake depends on: a broadcast, or the greeting of a
\* process that ends in the same step.
Harmless(x, y, p) ==
    /\ boot[x] # 0 /\ p.from = MyId(x) /\ p.enc = NoKey
    /\ \/ p.type = "Discovery"
       \/ /\ p.type = "PublicKeyRequest" /\ x # y /\ boot[y] # 0
          /\ ~up'[x]
          /\ up[y] => ~AtLeast(y, x, KeyExchange)

\* Datagrams and processes may go, harmless datagrams come, and anything but a
\* request is left in a standby buffer.
LEMMA FadingStep ==
  ASSUME HandshakeInv, TypeOK', UNCHANGED boot,
         \A x \in Addr : up'[x] => up[x] /\ \A y \in Addr : node'[x][y] = node[x][y],
         \A x, y \in Addr : Once(lane'[x][y]),
         \A x, y \in Addr : \A p \in InFlight(x, y)' :
            p \in InFlight(x, y) \/ Harmless(x, y, p),
         \A x, y \in Addr : \A p \in Again(x, y)' :
            \/ p \in Again(x, y)
            \/ ~IsRequest(p) /\ \E q \in Pending(x, y) : Says(p, q)
  PROVE  HandshakeInv'
<1> HIDE DEF Packet, Node
<1> USE DEF HandshakeInv
<1>1. \A x, y \in Addr : node'[x][y] = NoNode \/ (up[x] /\ node'[x][y] = node[x][y])
  BY DEF TypeOK
<1>2. \A x, y \in Addr : \A p \in Pending(x, y)' :
         (\E q \in Pending(x, y) : Says(p, q)) \/ Harmless(x, y, p)
  BY DEF Pending, Says
<1>3. \A x \in Addr : MyId(x)' = MyId(x)
  BY DEF MyId
<1>4. NoSelfEntry'
  BY <1>1, <1>3 DEF NoSelfEntry
<1>5. PacketInv'
  <2> SUFFICES ASSUME NEW x \in Addr, NEW y \in Addr, NEW p \in Pending(x, y)'
               PROVE  /\ p.from = MyId(x)
                      /\ p.enc # NoKey => p.type = "Ready"
                      /\ p.type = "EncryptionContext" => p.key \in Key
                      /\ x = y \/ boot[y] = 0 => p.type = "Discovery"
    BY <1>3 DEF PacketInv
  <2>1. ASSUME NEW q \in Pending(x, y), Says(p, q)
        PROVE  /\ p.from = MyId(x)
               /\ p.enc # NoKey => p.type = "Ready"
               /\ p.type = "EncryptionContext" => p.key \in Key
               /\ x = y \/ boot[y] = 0 => p.type = "Discovery"
    BY <2>1 DEF PacketInv, Says
  <2>2. CASE Harmless(x, y, p)
    BY <2>2 DEF Harmless
  <2> QED
    BY <1>2, <2>1, <2>2
<1>6. UnbornInv'
  <2> SUFFICES ASSUME NEW x \in Addr, boot[x] = 0, NEW y \in Addr
               PROVE  lane'[x][y] = << >> /\ Again(x, y)' = {} /\ node'[y][x] = NoNode
    BY DEF UnbornInv
  <2>1. /\ lane[x][y] = << >> /\ Again(x, y) = {} /\ node[y][x] = NoNode
    BY DEF UnbornInv
  <2>2. InFlight(x, y) = {} /\ Pending(x, y) = {}
    BY <2>1, ShortToSet DEF InFlight, Pending
  <2>3. InFlight(x, y)' = {} /\ Again(x, y)' = {}
    BY <2>1, <2>2 DEF Harmless
  <2> QED
    BY <1>1, <2>1, <2>3, EmptyLane
<1>7. FilledInv'
  BY <1>1, <1>3 DEF FilledInv
<1>8. \A x, y \in Addr : up'[x] => up[x] /\ \A k : AtLeast(x, y, k)' <=> AtLeast(x, y, k)
  BY DEF AtLeast
<1>9. RequestInv'
  <2>1. ASSUME NEW x \in Addr, NEW y \in Addr, up'[y], NEW p \in InFlight(x, y)', IsRequest(p)
        PROVE  ~AtLeast(y, x, KeyExchange)'
    BY <1>8, <2>1 DEF RequestInv, Harmless, IsRequest
  <2>2. ASSUME NEW x \in Addr, NEW y \in Addr, NEW p \in Again(x, y)', IsRequest(p)
        PROVE  AtLeast(y, x, KeyExchange)' /\ ~AtLeast(y, x, Handshake)'
    <3>1. p \in Again(x, y)
      BY <2>2
    <3>2. up'[y]
      BY <2>2 DEF Again, TypeOK
    <3> QED
      BY <1>8, <2>2, <3>1, <3>2 DEF RequestInv
  <2> QED
    BY <2>1, <2>2 DEF RequestInv
<1>10. AheadInv'
  <2> SUFFICES ASSUME NEW x \in Addr, NEW y \in Addr, NEW p \in Pending(x, y)', up'[y],
                      p.type \in {"PublicKeyReply", "EncryptionContext", "Ready"}
               PROVE  node[y][x] # NoNode
    BY DEF AheadInv
  <2>1. PICK q \in Pending(x, y) : Says(p, q)
    BY <1>2 DEF Harmless
  <2> QED
    BY <2>1, <1>8 DEF AheadInv, Says
<1>11. BehindInv'
  <2> SUFFICES ASSUME NEW x \in Addr, NEW y \in Addr, up'[x], NEW p \in Pending(x, y)'
               PROVE  /\ p.type = "PublicKeyRequest" => AtLeast(x, y, Initialised)'
                      /\ p.type = "PublicKeyReply" => AtLeast(x, y, KeyExchange)'
                      /\ p.type = "EncryptionContext" =>
                            AtLeast(x, y, Handshake)' /\ p.key = node'[x][y].tx
                      /\ p.type = "Ready" => AtLeast(x, y, CheckEncryption)'
    BY DEF BehindInv
  <2>1. up[x] /\ node'[x][y] = node[x][y] /\ \A k : AtLeast(x, y, k)' <=> AtLeast(x, y, k)
    BY <1>8
  <2>2. CASE \E q \in Pending(x, y) : Says(p, q)
    BY <2>1, <2>2 DEF BehindInv, Says
  <2>3. CASE Harmless(x, y, p)
    BY <2>3 DEF Harmless
  <2> QED
    BY <1>2, <2>2, <2>3
<1>12. StepInv'
  <2> SUFFICES ASSUME NEW x \in Addr, NEW y \in Addr, up'[x], up'[y]
               PROVE  /\ AtLeast(x, y, KeyExchange)' => AtLeast(y, x, Initialised)'
                      /\ AtLeast(x, y, Handshake)' => AtLeast(y, x, KeyExchange)'
                      /\ AtLeast(x, y, CheckEncryption)' =>
                            AtLeast(y, x, Handshake)' /\ node'[x][y].rx = node'[y][x].tx
                      /\ AtLeast(x, y, Connected)' => AtLeast(y, x, CheckEncryption)'
    BY DEF StepInv
  <2>1. /\ up[x] /\ up[y]
        /\ node'[x][y] = node[x][y] /\ node'[y][x] = node[y][x]
        /\ \A k : AtLeast(x, y, k)' <=> AtLeast(x, y, k)
        /\ \A k : AtLeast(y, x, k)' <=> AtLeast(y, x, k)
    BY <1>8
  <2> QED
    BY <2>1 DEF StepInv
<1> QED
  BY <1>4, <1>5, <1>6, <1>7, <1>9, <1>10, <1>11, <1>12

\* A datagram is lost: nothing else happens.
LEMMA RemovalStep ==
  ASSUME HandshakeInv, TypeOK',
         NEW s \in Addr, NEW d \in Addr, NEW i \in DOMAIN lane[s][d],
         lane' = [lane EXCEPT ![s][d] = RemoveAt(@, i)],
         UNCHANGED <<up, boot, node, standby>>
  PROVE  HandshakeInv'
<1> HIDE DEF Packet, Node
<1> DEFINE rest == [lane EXCEPT ![s][d] = RemoveAt(@, i)]
<1>0. TypeOK /\ RequestInv
  BY DEF HandshakeInv
<1>1. \A x, y \in Addr : Once(rest[x][y])
  BY <1>0, SoleTaken DEF Sole
<1>2. \A x, y \in Addr : ToSet(rest[x][y]) \subseteq InFlight(x, y)
  BY <1>0, Taken DEF Read
<1> HIDE DEF rest
<1>3. lane' = rest
  BY DEF rest
<1>4. \A x, y \in Addr : Again(x, y)' = Again(x, y) /\ InFlight(x, y)' = ToSet(rest[x][y])
  BY <1>3 DEF Again, InFlight
<1> QED
  BY <1>1, <1>2, <1>3, <1>4, FadingStep

\* A packet is read and forgotten: no request is.
LEMMA DiscardStep ==
  ASSUME HandshakeInv, TypeOK',
         NEW s \in Addr, NEW d \in Addr, up[d], NEW pkt, NEW rest,
         Read(s, d, pkt, rest), Sole(s, d, pkt, rest),
         ~IsRequest(pkt), Discard(s, d, pkt, rest)
  PROVE  HandshakeInv'
<1> HIDE DEF Packet, Node
<1>0. TypeOK
  BY DEF HandshakeInv
<1>1. pkt \in Packet /\ pkt \in Pending(s, d) /\ lane' = rest /\ Keep(d, s, pkt)
      /\ UNCHANGED <<up, boot, node>>
  BY DEF Discard, Read
<1>2. \A x, y \in Addr : InFlight(x, y)' \subseteq InFlight(x, y)
  BY <1>1 DEF Read, InFlight
<1>3. \A x, y \in Addr : Once(lane'[x][y])
  BY <1>1 DEF Sole
<1>4. \A x, y \in Addr : \A p \in Again(x, y)' :
         (y # d /\ p \in Again(x, y)) \/ (x = s /\ y = d /\ Says(p, pkt))
  BY <1>0, <1>1, AgainEffect
<1>5. \A p : Says(p, pkt) => ~IsRequest(p)
  BY DEF Says, IsRequest
<1> QED
  BY <1>1, <1>2, <1>3, <1>4, <1>5, FadingStep

LEMMA GoneStep ==
  ASSUME HandshakeInv, TypeOK', NEW a \in Addr, Gone(a), UNCHANGED <<boot, lane>>
  PROVE  HandshakeInv'
<1> HIDE DEF Packet, Node
<1>0. TypeOK /\ RequestInv
  BY DEF HandshakeInv
<1>1. \A x \in Addr : up'[x] => up[x] /\ \A y \in Addr : node'[x][y] = node[x][y]
  BY <1>0 DEF Gone, TypeOK
<1>2. /\ \A x, y \in Addr : Once(lane'[x][y])
      /\ \A x, y \in Addr : \A p \in InFlight(x, y)' : p \in InFlight(x, y)
  BY <1>0 DEF RequestInv, InFlight
<1>3. \A x, y \in Addr : \A p \in Again(x, y)' : p \in Again(x, y)
  <2>1. standby'[a] = NoPacket /\ \A x \in Addr : x # a => standby'[x] = standby[x]
    BY <1>0 DEF Gone, TypeOK
  <2> QED
    BY <2>1 DEF Again
<1> QED
  BY <1>1, <1>2, <1>3, FadingStep

\* One more datagram of a kind that is no request.
LEMMA OnceMore ==
  ASSUME NEW q \in Seq(Packet), NEW pkt \in Packet, Once(q), ~IsRequest(pkt)
  PROVE  Once(Append(q, pkt)) /\ ToSet(Append(q, pkt)) = ToSet(q) \cup {pkt}
<1> HIDE DEF Packet
<1>1. Append(q, pkt) = q \o << pkt >> /\ << pkt >> \in Seq(Packet)
  BY AppendIsConcat
<1>2. Once(<< pkt >>) /\ ToSet(<< pkt >>) = {pkt}
  BY ShortToSet DEF Once
<1>3. Once(q \o << pkt >>)
  BY <1>1, <1>2, OnceJoined
<1>4. ToSet(Append(q, pkt)) = ToSet(q) \cup {pkt}
  BY AppendToSet
<1> QED
  BY <1>1, <1>3, <1>4, Zenon

LEMMA DuplicateStep ==
  ASSUME HandshakeInv, TypeOK', "PublicKeyRequest" \notin Repeatable,
         NEW s \in Addr, NEW d \in Addr, NEW i \in DOMAIN lane[s][d], Duplicate(s, d, i)
  PROVE  HandshakeInv'
<1> HIDE DEF Packet, Node
<1> DEFINE pkt == lane[s][d][i]
<1>0. TypeOK /\ RequestInv
  BY DEF HandshakeInv
<1>1. pkt \in Packet /\ pkt \in InFlight(s, d) /\ lane[s][d] \in Seq(Packet)
  BY <1>0, InFlightType
<1>2. /\ ~IsRequest(pkt)
      /\ lane' = [lane EXCEPT ![s][d] = Append(@, pkt)]
      /\ UNCHANGED <<up, boot, node, standby>>
  BY DEF Duplicate, IsRequest
<1>3. /\ lane'[s][d] = Append(lane[s][d], pkt)
      /\ \A x, y \in Addr : ~(x = s /\ y = d) => lane'[x][y] = lane[x][y]
  BY <1>0, <1>2 DEF TypeOK
<1> HIDE DEF pkt
<1>4. Once(lane'[s][d]) /\ ToSet(lane'[s][d]) = ToSet(lane[s][d]) \cup {pkt}
  BY <1>0, <1>1, <1>2, <1>3, OnceMore DEF RequestInv
<1>5. \A x, y \in Addr : Once(lane'[x][y])
  BY <1>0, <1>3, <1>4 DEF RequestInv
<1>6. \A x, y \in Addr : \A p \in InFlight(x, y)' : p \in InFlight(x, y)
  BY <1>1, <1>3, <1>4 DEF InFlight
<1>7. \A x, y \in Addr : \A p \in Again(x, y)' : p \in Again(x, y)
  BY <1>2 DEF Again
<1> QED
  BY <1>2, <1>5, <1>6, <1>7, FadingStep

LEMMA BroadcastStep ==
  ASSUME HandshakeInv, TypeOK', NEW a \in Addr, Broadcast(a)
  PROVE  HandshakeInv'
<1> HIDE DEF Packet, Node
<1> DEFINE pkt == Plain("Discovery", MyId(a), BroadcastId, NoKey)
<1>0. TypeOK /\ RequestInv
  BY DEF HandshakeInv
<1>1. /\ \A y \in Addr : lane'[a][y] = Append(lane[a][y], pkt)
      /\ \A x, y \in Addr : x # a => lane'[x][y] = lane[x][y]
      /\ UNCHANGED <<up, boot, node, standby>>
  BY <1>0 DEF TypeOK, Broadcast
<1>2. pkt \in Packet /\ pkt.type = "Discovery" /\ pkt.from = MyId(a) /\ pkt.enc = NoKey
  <2>1. MyId(a) \in Id
    BY <1>0, NetworkAssumption DEF TypeOK, MyId, Id
  <2>2. pkt \in Packet
    BY <2>1, PlainType DEF PacketTypes
  <2> QED
    BY <2>2 DEF Plain
<1>3. boot[a] # 0
  BY <1>0, NetworkAssumption DEF TypeOK, Broadcast
<1> HIDE DEF pkt
<1>4. \A y \in Addr : Harmless(a, y, pkt)
  BY <1>2, <1>3 DEF Harmless
<1>5. ASSUME NEW y \in Addr
      PROVE  /\ InFlight(a, y)' = InFlight(a, y) \cup {pkt}
             /\ Once(lane'[a][y])
  <2>1. lane[a][y] \in Seq(Packet) /\ Once(lane[a][y]) /\ ~IsRequest(pkt)
    BY <1>0, <1>2 DEF TypeOK, RequestInv, IsRequest
  <2>2. Once(Append(lane[a][y], pkt))
        /\ ToSet(Append(lane[a][y], pkt)) = ToSet(lane[a][y]) \cup {pkt}
    BY <1>2, <2>1, OnceMore
  <2> QED
    BY <1>1, <2>2 DEF InFlight
<1>6. \A x, y \in Addr : Once(lane'[x][y])
  BY <1>0, <1>1, <1>5 DEF RequestInv
<1>7. \A x, y \in Addr : \A p \in InFlight(x, y)' :
         p \in InFlight(x, y) \/ Harmless(x, y, p)
  <2>1. \A y \in Addr : \A p \in InFlight(a, y)' : p \in InFlight(a, y) \/ Harmless(a, y, p)
    BY <1>4, <1>5
  <2>2. \A x, y \in Addr : x # a => InFlight(x, y)' = InFlight(x, y)
    BY <1>1 DEF InFlight
  <2> QED
    BY <2>1, <2>2
<1>8. \A x, y \in Addr : \A p \in Again(x, y)' : p \in Again(x, y)
  BY <1>1 DEF Again
<1> QED
  BY <1>1, <1>6, <1>7, <1>8, FadingStep

\* The process that cannot answer for lack of a public key.
LEMMA FatalStep ==
  ASSUME HandshakeInv, TypeOK',
         NEW s \in Addr, NEW d \in Addr, up[d], NEW pkt, NEW rest,
         Read(s, d, pkt, rest), Sole(s, d, pkt, rest),
         ReceivePublicKeyRequestFatal(s, d, pkt, rest)
  PROVE  HandshakeInv'
<1> HIDE DEF Packet, Node
<1> DEFINE ask == Plain("PublicKeyRequest", MyId(d), pkt.from, NoKey)
           out == Greeting(d, s, pkt.from)
<1>0. TypeOK /\ RequestInv /\ UnbornInv
  BY DEF HandshakeInv
<1>1. /\ s # d /\ pkt.from \in Id /\ pkt \in Pending(s, d)
      /\ lane' = Answered(s, d, rest, out) /\ UNCHANGED boot
      /\ up' = [up EXCEPT ![d] = FALSE]
      /\ standby' = [standby EXCEPT ![d] = NoPacket]
      /\ node' = [node EXCEPT ![d] = [x \in Addr |-> NoNode]]
  BY FromOther DEF ReceivePublicKeyRequestFatal, Gone, Accepts
<1>2. out \in Seq(Packet)
  BY <1>0, <1>1, PeerType
<1>3. /\ ~up'[d]
      /\ \A x \in Addr : up'[x] => up[x] /\ \A y \in Addr : node'[x][y] = node[x][y]
  BY <1>0, <1>1 DEF TypeOK
<1>4. /\ rest \in [Addr -> [Addr -> Seq(Packet)]] /\ rest[d][s] \in Seq(Packet)
      /\ \A x, y \in Addr : ToSet(rest[x][y]) \subseteq InFlight(x, y)
  BY DEF Read
<1>5. /\ lane'[d][s] = rest[d][s] \o out
      /\ \A x, y \in Addr : ~(x = d /\ y = s) => lane'[x][y] = rest[x][y]
  <2> HIDE DEF out
  <2> QED
    BY <1>1, <1>4 DEF Answered
<1>6. \A p \in ToSet(out) : node[d][s] = NoNode /\ p = ask
  BY ShortToSet DEF Greeting
<1>7. ask.type = "PublicKeyRequest" /\ ask.from = MyId(d) /\ ask.enc = NoKey
  BY DEF Plain
<1>8. Once(out)
  BY DEF Once, Greeting
<1> HIDE DEF out, ask
<1>9. boot[s] # 0 /\ boot[d] # 0
  <2>1. boot[s] # 0
    BY <1>0, <1>1, ShortToSet DEF UnbornInv, Pending, InFlight
  <2>2. boot[d] > 0
    BY <1>0 DEF TypeOK
  <2> QED
    BY <2>1, <2>2
<1>10. node[d][s] = NoNode =>
          /\ \A q \in InFlight(d, s) : ~IsRequest(q)
          /\ up[s] => ~AtLeast(s, d, KeyExchange)
  BY <1>1, UnknownPair
<1>11. \A p \in ToSet(out) : Harmless(d, s, p)
  BY <1>1, <1>3, <1>6, <1>7, <1>9, <1>10 DEF Harmless
<1>12. Once(lane'[d][s]) /\ ToSet(lane'[d][s]) = ToSet(rest[d][s]) \cup ToSet(out)
  <2>1. Once(rest[d][s])
    BY DEF Sole
  <2>2. \A p1 \in ToSet(rest[d][s]), p2 \in ToSet(out) : ~(IsRequest(p1) /\ IsRequest(p2))
    BY <1>4, <1>6, <1>10
  <2> QED
    BY <1>2, <1>4, <1>5, <1>8, <2>1, <2>2, ConcatToSet, OnceJoined
<1>14. \A x, y \in Addr : Once(lane'[x][y])
  BY <1>5, <1>12 DEF Sole
<1>15. \A x, y \in Addr : \A p \in InFlight(x, y)' :
          p \in InFlight(x, y) \/ Harmless(x, y, p)
  BY <1>4, <1>5, <1>11, <1>12 DEF InFlight
<1>16. \A x, y \in Addr : \A p \in Again(x, y)' : p \in Again(x, y)
  <2>1. standby'[d] = NoPacket /\ \A x \in Addr : x # d => standby'[x] = standby[x]
    BY <1>0, <1>1 DEF TypeOK
  <2> QED
    BY <2>1 DEF Again
<1> QED
  BY <1>1, <1>3, <1>14, <1>15, <1>16, FadingStep

LEMMA StartStep ==
  ASSUME MaxBoots = 1, HandshakeInv, TypeOK', NEW a \in Addr, Start(a)
  PROVE  HandshakeInv'
<1> HIDE DEF Packet, Node
<1> USE DEF HandshakeInv
<1>1. /\ boot[a] = 0 /\ ~up[a]
      /\ \A x \in Addr : x # a => boot'[x] = boot[x] /\ up'[x] = up[x]
      /\ UNCHANGED <<node, lane, standby>>
  BY DEF Start, TypeOK
<1>2. \A y \in Addr :
         /\ Pending(a, y) = {} /\ Again(y, a) = {}
         /\ node[a][y] = NoNode /\ node[y][a] = NoNode
  BY <1>1, ShortToSet DEF UnbornInv, TypeOK, InFlight, Again, Pending
<1>3. \A x, y \in Addr : /\ InFlight(x, y)' = InFlight(x, y)
                         /\ Again(x, y)' = Again(x, y)
                         /\ Pending(x, y)' = Pending(x, y)
  BY <1>1 DEF InFlight, Again, Pending
<1>4. \A x, y \in Addr : \A k : AtLeast(x, y, k)' <=> AtLeast(x, y, k)
  BY <1>1 DEF AtLeast
<1>5. \A y \in Addr : \A k : ~AtLeast(a, y, k) /\ ~AtLeast(y, a, k)
  BY <1>2 DEF AtLeast
<1>6. \A x \in Addr : x # a => MyId(x)' = MyId(x)
  BY <1>1 DEF MyId
<1>7. \A x \in Addr : boot'[x] = 0 => boot[x] = 0
  BY <1>1
<1>8. PacketInv'
  <2> SUFFICES ASSUME NEW x \in Addr, NEW y \in Addr, NEW p \in Pending(x, y)
               PROVE  /\ p.from = MyId(x)'
                      /\ p.enc # NoKey => p.type = "Ready"
                      /\ p.type = "EncryptionContext" => p.key \in Key
                      /\ x = y \/ boot'[y] = 0 => p.type = "Discovery"
    BY <1>3 DEF PacketInv
  <2>1. x # a
    BY <1>2
  <2> QED
    BY <2>1, <1>6, <1>7 DEF PacketInv
<1>9. UnbornInv' /\ NoSelfEntry'
  BY <1>1, <1>2, <1>3, <1>6, <1>7 DEF UnbornInv, NoSelfEntry
<1>10. RequestInv'
  <2>1. \A x \in Addr : \A p \in InFlight(x, a) : ~IsRequest(p)
    BY <1>1 DEF PacketInv, Pending, IsRequest
  <2> QED
    BY <1>1, <1>3, <1>4, <2>1 DEF RequestInv
<1>11. FilledInv'
  BY <1>1, <1>2, <1>6 DEF FilledInv
<1>12. AheadInv'
  <2>1. \A x \in Addr : \A p \in Pending(x, a) : p.type = "Discovery"
    BY <1>1 DEF PacketInv
  <2> QED
    BY <1>1, <1>3, <2>1 DEF AheadInv
<1>13. BehindInv'
  BY <1>1, <1>2, <1>3, <1>4 DEF BehindInv
<1>14. StepInv'
  BY <1>1, <1>4, <1>5 DEF StepInv
<1> QED
  BY <1>8, <1>9, <1>10, <1>11, <1>12, <1>13, <1>14

\* One iteration of _main_loop, on a packet that came in or came again.
LEMMA HandleStep ==
  ASSUME HandshakeInv, TypeOK',
         NEW s \in Addr, NEW d \in Addr, up[d], NEW pkt, NEW rest,
         Read(s, d, pkt, rest), Sole(s, d, pkt, rest),
         Handle(s, d, pkt, rest)
  PROVE  HandshakeInv'
<1> HIDE DEF Packet, Node, Key
<1>0. TypeOK /\ PacketInv /\ AheadInv
  BY DEF HandshakeInv
<1>1. pkt \in Pending(s, d)
  BY DEF Read
<1>2. CASE ReceiveOwn(s, d, pkt, rest)
  <2>1. CASE s = d
    BY <1>0, <1>1, <1>2, <2>1, DiscardStep DEF PacketInv, IsRequest, ReceiveOwn
  <2>2. CASE s # d
    <3>1. MyId(s) # MyId(d)
      BY <2>2 DEF MyId
    <3> QED
      BY <1>0, <1>1, <1>2, <3>1 DEF PacketInv, ReceiveOwn, FromUs
  <2> QED
    BY <2>1, <2>2
<1>3. CASE ReceiveUndecryptable(s, d, pkt, rest) \/ ReceiveGarbled(s, d, pkt, rest)
  <2>1. pkt.type = "Ready" /\ Discard(s, d, pkt, rest)
    BY <1>0, <1>1, <1>3
       DEF PacketInv, ReceiveUndecryptable, ReceiveGarbled, Readable
  <2> QED
    BY <2>1, DiscardStep DEF IsRequest
\* Nobody unknown has a session key to encrypt with.
<1>4. CASE ReceiveMisread(s, d, pkt, rest)
  <2>1. pkt.type = "Ready" /\ node[d][s] = NoNode
    BY <1>0, <1>1, <1>4 DEF PacketInv, ReceiveMisread, Readable
  <2> QED
    BY <1>0, <1>1, <2>1 DEF AheadInv
<1>5. CASE ReceiveDiscovery(s, d, pkt, rest)
  BY <1>5, ContactStep DEF ReceiveDiscovery, Accepts, IsRequest
<1>6. CASE ReceiveRefused(s, d, pkt, rest)
  <2>1. /\ ~FromUs(d, pkt) /\ ~IsRequest(pkt)
        /\ Finish(s, d, pkt, rest, Peer(d, s, pkt.from), << >>)
    BY <1>6 DEF ReceiveRefused, Accepts, IsRequest
  <2> QED
    BY <2>1, ContactStep
<1> QED
  BY <1>2, <1>3, <1>4, <1>5, <1>6,
     RequestStep, FatalStep, ReplyStep, ContextStep, ReadyStep DEF Handle

\* HandshakeInv is inductive when no request is duplicated and nobody restarts.
LEMMA HandshakeStep ==
  ASSUME "PublicKeyRequest" \notin Repeatable, MaxBoots = 1, HandshakeInv, [Next]_vars
  PROVE  HandshakeInv'
<1>0. TypeOK /\ RequestInv
  BY DEF HandshakeInv
<1>1. TypeOK'
  BY <1>0, TypeStep
<1> HIDE DEF Packet, Node, Key
<1>8. ASSUME UNCHANGED <<up, boot, node, lane, standby>> PROVE HandshakeInv'
  <2>1. /\ \A x, y \in Addr : InFlight(x, y)' = InFlight(x, y) /\ Again(x, y)' = Again(x, y)
        /\ \A x, y \in Addr : Once(lane'[x][y])
    BY <1>0, <1>8 DEF InFlight, Again, RequestInv
  <2> QED
    BY <1>1, <1>8, <2>1, FadingStep
<1>2. ASSUME NEW a \in Addr, Start(a) \/ Exit(a) \/ Broadcast(a) PROVE HandshakeInv'
  BY <1>1, <1>2, StartStep, GoneStep, BroadcastStep DEF Exit
<1>3. ASSUME NEW s \in Addr, NEW d \in Addr, Vanish(s, d) PROVE HandshakeInv'
  <2>1. 1 \in DOMAIN lane[s][d]
    BY <1>0, <1>3, InFlightType DEF Vanish
  <2> QED
    BY <1>1, <1>3, <2>1, RemovalStep DEF Vanish
<1>4. ASSUME NEW s \in Addr, NEW d \in Addr, NEW i \in DOMAIN lane[s][d],
             Lose(s, d, i) \/ Duplicate(s, d, i)
      PROVE  HandshakeInv'
  BY <1>1, <1>4, RemovalStep, DuplicateStep DEF Lose
<1>5. ASSUME NEW s \in Addr, NEW d \in Addr, NEW i \in DOMAIN lane[s][d], Receive(s, d, i)
      PROVE  HandshakeInv'
  BY <1>0, <1>1, <1>5, Taken, SoleTaken, HandleStep DEF Receive
<1>6. ASSUME NEW d \in Addr, ReceiveAgain(d) PROVE HandshakeInv'
  <2>1. CASE OverrunStack(d)
    <3>1. CASE Gone(d)
      BY <1>1, <2>1, <3>1, GoneStep DEF OverrunStack
    <3>2. CASE UNCHANGED <<up, node, standby>>
      BY <2>1, <3>2, <1>8 DEF OverrunStack
    <3> QED
      BY <2>1, <3>1, <3>2 DEF OverrunStack
  <2> QED
    BY <1>0, <1>1, <1>6, <2>1, TakenAgain, SoleAgain, HandleStep DEF ReceiveAgain
<1>7. CASE UNCHANGED vars
  BY <1>7, <1>8 DEF vars
<1> QED
  BY <1>2, <1>3, <1>4, <1>5, <1>6, <1>7 DEF Next

-----------------------------------------------------------------------------
(* The theorems.  MaxBoots = 1 and a network that does not duplicate a      *)
(* PublicKeyRequest are not bounds here but the conditions under which the  *)
(* handshake is sound.                                                      *)

LEMMA HandshakeInit == Init => HandshakeInv
<1> SUFFICES ASSUME Init PROVE HandshakeInv
  OBVIOUS
<1>1. TypeOK
  BY NetworkAssumption DEF Init, TypeOK
<1>2. \A x, y \in Addr : /\ lane[x][y] = << >> /\ Again(x, y) = {}
                         /\ InFlight(x, y) = {} /\ node[x][y] = NoNode
  BY ShortToSet DEF Init, InFlight, Again
<1>3. \A x \in Addr : ~up[x]
  BY DEF Init
<1>4. \A x, y \in Addr : Pending(x, y) = {}
  BY <1>2 DEF Pending
<1>5. NoSelfEntry /\ PacketInv /\ UnbornInv /\ FilledInv
  BY <1>2, <1>4 DEF NoSelfEntry, PacketInv, UnbornInv, FilledInv
<1>6. RequestInv
  BY <1>2 DEF RequestInv, Once
<1>7. AheadInv /\ BehindInv /\ StepInv
  BY <1>3 DEF AheadInv, BehindInv, StepInv
<1> QED
  BY <1>1, <1>5, <1>6, <1>7 DEF HandshakeInv

\* What is pending and the two ends of every pair always fit together.
THEOREM HandshakeCorrect ==
  ASSUME "PublicKeyRequest" \notin Repeatable, MaxBoots = 1
  PROVE  Spec => []HandshakeInv
<1>1. HandshakeInv /\ [Next]_vars => HandshakeInv'
  BY HandshakeStep
<1> QED
  BY <1>1, HandshakeInit, PTL DEF Spec

\* An end that takes the handshake for complete has a peer that has both keys
\* in use, the same two the other way round.
THEOREM MutualConnectCorrect ==
  ASSUME "PublicKeyRequest" \notin Repeatable, MaxBoots = 1
  PROVE  Spec => []MutualConnect
<1>1. HandshakeInv => MutualConnect
  <2> SUFFICES ASSUME HandshakeInv, NEW a \in Addr, NEW s \in Addr,
                      up[s], IsConnected(a, s)
               PROVE  /\ AtLeast(s, a, CheckEncryption)
                      /\ node[a][s].rx = node[s][a].tx
                      /\ node[s][a].rx = node[a][s].tx
    BY DEF MutualConnect
  <2>1. TypeOK /\ StepInv
    BY DEF HandshakeInv
  <2>2. node[a][s] # NoNode /\ node[a][s].state >= 4
    BY DEF IsConnected, AtLeast, Connected
  <2>3. up[a] /\ node[a][s] \in Node
    BY <2>1, <2>2 DEF TypeOK
  <2>4. AtLeast(a, s, CheckEncryption)
    BY <2>2, <2>3, NodeFields DEF AtLeast, CheckEncryption
  <2> QED
    BY <2>1, <2>3, <2>4 DEF StepInv, IsConnected
<1> QED
  BY <1>1, HandshakeCorrect, PTL

-----------------------------------------------------------------------------
(* What one iteration does to a node, and the two theorems that follow.    *)

\* A node is met or asked for its key, offered a key, gives its key, or is
\* taken for connected: n becomes nd, n being what d held for s.
Meets(n, nd) ==
    /\ nd.state \in 0 .. 1 /\ nd.tx = NoKey /\ nd.rx = NoKey
    /\ n # NoNode => /\ n.state \in 0 .. nd.state
                     /\ n.tx = NoKey /\ n.rx = NoKey
Offers(n, nd) ==
    /\ n # NoNode /\ n.state = 1 /\ nd.state = 2
    /\ n.tx = NoKey /\ nd.tx \in Key /\ nd.rx = n.rx
Learns(n, nd, d, s) ==
    /\ n # NoNode /\ n.state = 2 /\ nd.state = 3
    /\ n.tx # NoKey /\ n.rx = NoKey /\ nd.tx = n.tx /\ nd.rx \in Key
    /\ up[s] => node[s][d] # NoNode /\ nd.rx = node[s][d].tx
Joins(n, nd, d, s) ==
    /\ n # NoNode /\ n.state = 3 /\ nd.state = 4
    /\ n.rx # NoKey /\ nd.tx = n.tx /\ nd.rx = n.rx
    /\ up[s] => node[s][d] # NoNode /\ node[s][d].rx = nd.tx
Changes(d, s, nd) ==
    \/ Meets(node[d][s], nd)
    \/ Offers(node[d][s], nd)
    \/ Learns(node[d][s], nd, d, s)
    \/ Joins(node[d][s], nd, d, s)

LEMMA HandleChanges ==
  ASSUME HandshakeInv, NEW s \in Addr, NEW d \in Addr, up[d], NEW pkt, NEW rest,
         Read(s, d, pkt, rest), Handle(s, d, pkt, rest)
  PROVE  \/ UNCHANGED <<up, boot, node>>
         \/ UNCHANGED boot /\ Gone(d)
         \/ \E nd \in Node : /\ node' = [node EXCEPT ![d][s] = nd]
                             /\ UNCHANGED <<up, boot>> /\ Changes(d, s, nd)
<1> HIDE DEF Packet, Node, Key
<1> DEFINE n == node[d][s]
           id == pkt.from
           Goal == \E nd \in Node : /\ node' = [node EXCEPT ![d][s] = nd]
                                    /\ UNCHANGED <<up, boot>> /\ Changes(d, s, nd)
<1>0. TypeOK /\ PacketInv /\ RequestInv /\ AheadInv /\ BehindInv /\ StepInv
  BY DEF HandshakeInv
<1>1. pkt \in Pending(s, d) /\ pkt \in Packet /\ id \in Id
  BY PacketFields DEF Read
<1>2. /\ n # NoNode => n \in Node /\ n.state \in 0 .. 4 /\ Peer(d, s, id) = n
      /\ n # NoNode => Filled(s, n) /\ InStep(d, s, n)
      /\ n = NoNode => /\ Peer(d, s, id) \in Node /\ Peer(d, s, id).state = 0
                       /\ Peer(d, s, id).tx = NoKey /\ Peer(d, s, id).rx = NoKey
  <2>1. n # NoNode => n \in Node
    BY <1>0 DEF TypeOK
  <2>2. n # NoNode => n.state \in 0 .. 4
    BY <2>1, NodeFields
  <2>3. n # NoNode => Filled(s, n) /\ InStep(d, s, n)
    BY KnownPair
  <2>4. Peer(d, s, id) \in Node
    BY <1>0, <1>1, PeerType
  <2> QED
    BY <2>1, <2>2, <2>3, <2>4 DEF Peer, NewNode, Initialised
<1>3. n # NoNode /\ n.state \in 0 .. 1 => n.tx = NoKey /\ n.rx = NoKey
  BY <1>2 DEF Filled, Handshake, CheckEncryption
<1>4. ASSUME ReceiveDiscovery(s, d, pkt, rest) \/ ReceiveRefused(s, d, pkt, rest)
      PROVE  UNCHANGED <<up, boot, node>> \/ Goal
  <2>1. node' = [node EXCEPT ![d][s] = Peer(d, s, id)] /\ UNCHANGED <<up, boot>>
    BY <1>4 DEF ReceiveDiscovery, ReceiveRefused, Finish
  <2>2. CASE n # NoNode
    BY <1>0, <1>2, <2>1, <2>2 DEF TypeOK
  <2>3. CASE n = NoNode
    <3>1. Changes(d, s, Peer(d, s, id))
      BY <1>2, <2>3 DEF Changes, Meets
    <3> QED
      BY <1>2, <2>1, <2>3, <3>1
  <2> QED
    BY <2>2, <2>3
<1>5. ASSUME ReceivePublicKeyRequest(s, d, pkt, rest) PROVE Goal
  <2> DEFINE old == Peer(d, s, id)
             nd == [old EXCEPT !.state = KeyExchange]
  <2>1. node' = [node EXCEPT ![d][s] = nd] /\ UNCHANGED <<up, boot>> /\ IsRequest(pkt)
    BY <1>5 DEF ReceivePublicKeyRequest, Finish, Accepts, IsRequest
  <2>2. n # NoNode => n.state \in 0 .. 1
    <3>1. ~AtLeast(d, s, Handshake) \/ ~AtLeast(d, s, KeyExchange)
      BY <1>0, <1>1, <2>1 DEF Pending, RequestInv
    <3> QED
      BY <1>2, <3>1 DEF AtLeast, Handshake, KeyExchange
  <2>3. old \in Node /\ old.tx = NoKey /\ old.rx = NoKey
    BY <1>2, <1>3, <2>2
  <2> HIDE DEF old
  <2>4. nd \in Node /\ nd.state = 1 /\ nd.tx = NoKey /\ nd.rx = NoKey
    BY <2>3 DEF Node, KeyExchange, Initialised, Connected
  <2> HIDE DEF nd
  <2>5. Changes(d, s, nd)
    BY <1>3, <2>2, <2>4 DEF Changes, Meets
  <2> QED
    BY <2>1, <2>4, <2>5
<1>6. ASSUME ReceivePublicKeyReply(s, d, pkt, rest) PROVE Goal
  <2> DEFINE key == <<d, s, generated[d][s]>>
             nd == OfferKey(Peer(d, s, id), key)
  <2>1. node' = [node EXCEPT ![d][s] = nd] /\ UNCHANGED <<up, boot>>
    BY <1>6 DEF ReceivePublicKeyReply, Finish
  <2>2. n # NoNode /\ n.state = 1
    BY <1>2, <1>6 DEF ReceivePublicKeyReply, InState, Expected, KeyExchange
  <2>3. key \in Key
    BY <1>0 DEF TypeOK, Key
  <2> HIDE DEF key
  <2>4. nd \in Node /\ nd.state = 2 /\ nd.tx = key /\ nd.rx = n.rx
    BY <1>2, <2>2, <2>3, KeyUpdate
  <2> HIDE DEF nd
  <2>5. Changes(d, s, nd)
    BY <1>3, <2>2, <2>3, <2>4 DEF Changes, Offers
  <2> QED
    BY <2>1, <2>4, <2>5
<1>7. ASSUME ReceiveEncryptionContext(s, d, pkt, rest) PROVE Goal
  <2> DEFINE nd == LearnKey(Peer(d, s, id), pkt.key)
  <2>1. /\ node' = [node EXCEPT ![d][s] = nd] /\ UNCHANGED <<up, boot>>
        /\ pkt.type = "EncryptionContext"
    BY <1>7 DEF ReceiveEncryptionContext, Finish, Accepts
  <2>2. n # NoNode /\ n.state = 2
    BY <1>2, <1>7 DEF ReceiveEncryptionContext, InState, Expected, Handshake
  <2>3. pkt.key \in Key
    BY <1>0, <1>1, <2>1 DEF PacketInv
  <2>4. nd \in Node /\ nd.state = 3 /\ nd.tx = n.tx /\ nd.rx = pkt.key
    BY <1>2, <2>2, <2>3, KeyUpdate
  <2>5. n.tx # NoKey /\ n.rx = NoKey
    BY <1>2, <2>2 DEF Filled, Handshake, CheckEncryption
  <2>6. up[s] => node[s][d] # NoNode /\ pkt.key = node[s][d].tx
    BY <1>0, <1>1, <2>1 DEF BehindInv, AtLeast
  <2> HIDE DEF nd
  <2>7. Changes(d, s, nd)
    BY <2>2, <2>3, <2>4, <2>5, <2>6 DEF Changes, Learns
  <2> QED
    BY <2>1, <2>4, <2>7
<1>8. ASSUME ReceiveReady(s, d, pkt, rest) PROVE Goal
  <2> DEFINE nd == [Peer(d, s, id) EXCEPT !.state = Connected]
  <2>1. /\ node' = [node EXCEPT ![d][s] = nd] /\ UNCHANGED <<up, boot>>
        /\ pkt.type = "Ready"
    BY <1>8 DEF ReceiveReady, Finish, Accepts
  <2>2. n # NoNode /\ n.state = 3
    BY <1>2, <1>8 DEF ReceiveReady, InState, Expected, CheckEncryption
  <2>3. n \in Node /\ nd = [n EXCEPT !.state = Connected]
    BY <1>2, <2>2
  <2>4. nd \in Node /\ nd.state = 4 /\ nd.tx = n.tx /\ nd.rx = n.rx
    <3> HIDE DEF n
    <3> QED
      BY <2>3 DEF Node, Initialised, Connected
  <2>5. n.rx # NoKey
    BY <1>2, <2>2 DEF Filled, CheckEncryption
  <2>6. up[s] => node[s][d] # NoNode /\ node[s][d].rx = n.tx
    <3>1. up[s] => AtLeast(s, d, CheckEncryption)
      BY <1>0, <1>1, <2>1 DEF BehindInv
    <3> QED
      BY <1>2, <2>2, <3>1 DEF InStep, AtLeast
  <2> HIDE DEF nd
  <2>7. Changes(d, s, nd)
    BY <2>2, <2>4, <2>5, <2>6 DEF Changes, Joins
  <2> QED
    BY <2>1, <2>4, <2>7
<1>9. ~ReceiveMisread(s, d, pkt, rest)
  <2> SUFFICES ASSUME ReceiveMisread(s, d, pkt, rest) PROVE FALSE
    OBVIOUS
  <2>1. pkt.type = "Ready" /\ node[d][s] = NoNode
    BY <1>0, <1>1 DEF PacketInv, ReceiveMisread, Readable
  <2> QED
    BY <1>0, <1>1, <2>1 DEF AheadInv
<1> QED
  BY <1>4, <1>5, <1>6, <1>7, <1>8, <1>9
     DEF Handle, ReceiveOwn, ReceiveUndecryptable, ReceiveGarbled, Discard,
         ReceivePublicKeyRequestFatal

\* What any step does to the processes and their tables.
LEMMA NextChanges ==
  ASSUME HandshakeInv, [Next]_vars
  PROVE  \/ UNCHANGED <<up, boot, node>>
         \/ \E a \in Addr : Start(a)
         \/ UNCHANGED boot /\ \E a \in Addr : up[a] /\ Gone(a)
         \/ \E s, d \in Addr : \E nd \in Node :
               /\ up[d] /\ node' = [node EXCEPT ![d][s] = nd]
               /\ UNCHANGED <<up, boot>> /\ Changes(d, s, nd)
<1> HIDE DEF Packet, Node, Key
<1>0. TypeOK
  BY DEF HandshakeInv
<1>1. ASSUME NEW s \in Addr, NEW d \in Addr, NEW i \in DOMAIN lane[s][d], Receive(s, d, i)
      PROVE  \/ UNCHANGED <<up, boot, node>>
             \/ UNCHANGED boot /\ up[d] /\ Gone(d)
             \/ \E nd \in Node : /\ up[d] /\ node' = [node EXCEPT ![d][s] = nd]
                                 /\ UNCHANGED <<up, boot>> /\ Changes(d, s, nd)
  BY <1>0, <1>1, Taken, HandleChanges DEF Receive
<1>2. ASSUME NEW d \in Addr, ReceiveAgain(d)
      PROVE  \/ UNCHANGED <<up, boot, node>>
             \/ UNCHANGED boot /\ up[d] /\ Gone(d)
             \/ \E s \in Addr : \E nd \in Node :
                   /\ up[d] /\ node' = [node EXCEPT ![d][s] = nd]
                   /\ UNCHANGED <<up, boot>> /\ Changes(d, s, nd)
  <2>1. CASE OverrunStack(d)
    <3>1. up[d]
      BY <1>0, <1>2 DEF ReceiveAgain, TypeOK
    <3> QED
      BY <2>1, <3>1 DEF OverrunStack
  <2> QED
    BY <1>0, <1>2, <2>1, TakenAgain, HandleChanges DEF ReceiveAgain
<1>3. ASSUME NEW a \in Addr, Exit(a) PROVE UNCHANGED boot /\ up[a] /\ Gone(a)
  BY <1>3 DEF Exit
<1> QED
  BY <1>1, <1>2, <1>3 DEF Next, vars, Broadcast, Vanish, Lose, Duplicate

\* No handshake goes back, whatever a process is sent.
LEMMA AdvancesStep ==
  ASSUME HandshakeInv, [Next]_vars, NEW a \in Addr, NEW b \in Addr
  PROVE  Advances(a, b)
<1> HIDE DEF Packet, Node, Key
<1>0. TypeOK
  BY DEF HandshakeInv
<1> SUFFICES ASSUME node[a][b] # NoNode, up'[a]
             PROVE  node'[a][b] # NoNode /\ node'[a][b].state >= node[a][b].state
  BY DEF Advances
<1>1. node[a][b].state \in 0 .. 4
  BY <1>0, NodeFields DEF TypeOK
<1>2. CASE node'[a][b] = node[a][b]
  BY <1>1, <1>2
<1>3. CASE \E x \in Addr : Start(x)
  BY <1>2, <1>3 DEF Start
<1>4. ASSUME NEW x \in Addr, Gone(x) PROVE node'[a][b] = node[a][b]
  <2>1. a # x
    BY <1>0, <1>4 DEF TypeOK, Gone
  <2> QED
    BY <1>0, <1>4, <2>1 DEF TypeOK, Gone
<1>5. ASSUME NEW s \in Addr, NEW d \in Addr, NEW nd \in Node,
             node' = [node EXCEPT ![d][s] = nd], Changes(d, s, nd)
      PROVE  node'[a][b] # NoNode /\ node'[a][b].state >= node[a][b].state
  <2>1. CASE a = d /\ b = s
    <3>1. node'[a][b] = nd /\ nd # NoNode
      BY <1>0, <1>5, <2>1, SentinelAssumption DEF TypeOK
    <3>2. nd.state >= node[a][b].state
      BY <1>1, <1>5, <2>1 DEF Changes, Meets, Offers, Learns, Joins
    <3> QED
      BY <3>1, <3>2
  <2>2. CASE ~(a = d /\ b = s)
    BY <1>0, <1>2, <1>5, <2>2 DEF TypeOK
  <2> QED
    BY <2>1, <2>2
<1>6. CASE UNCHANGED <<up, boot, node>>
  BY <1>2, <1>6
<1> QED
  BY <1>2, <1>3, <1>4, <1>5, <1>6, NextChanges

\* A handshake under way is never started again from an earlier state.
THEOREM HandshakeOnlyAdvancesCorrect ==
  ASSUME "PublicKeyRequest" \notin Repeatable, MaxBoots = 1
  PROVE  Spec => HandshakeOnlyAdvances
<1>1. HandshakeInv /\ [Next]_vars => [\A a, s \in Addr : Advances(a, s)]_vars
  BY AdvancesStep
<1> QED
  BY <1>1, HandshakeCorrect, PTL DEF Spec, HandshakeOnlyAdvances

-----------------------------------------------------------------------------
(* The refinement.                                                         *)

SessionLife == [a \in Addr |-> Life(a)]
SessionTx == [a \in Addr |-> [s \in Addr |-> SessionKey(a, s, "tx")]]
SessionRx == [a \in Addr |-> [s \in Addr |-> SessionKey(a, s, "rx")]]
SessionLinked == [a \in Addr |-> [s \in Addr |-> IsConnected(a, s)]]

LEMMA SessionTypes ==
  ASSUME TypeOK
  PROVE  /\ SessionTx \in [Addr -> [Addr -> Key \cup {NoKey}]]
         /\ SessionRx \in [Addr -> [Addr -> Key \cup {NoKey}]]
         /\ SessionLinked \in [Addr -> [Addr -> BOOLEAN]]
<1> HIDE DEF Packet, Node, Key
<1>1. ASSUME NEW a \in Addr, NEW s \in Addr
      PROVE  /\ SessionKey(a, s, "tx") \in Key \cup {NoKey}
             /\ SessionKey(a, s, "rx") \in Key \cup {NoKey}
             /\ IsConnected(a, s) \in BOOLEAN
  <2>1. node[a][s] \in Node \cup {NoNode}
    BY DEF TypeOK
  <2> QED
    BY <2>1, NodeFields DEF SessionKey, IsConnected, AtLeast
<1> QED
  BY <1>1 DEF SessionTx, SessionRx, SessionLinked

\* What a node that changes changes of the session.
LEMMA SessionMove ==
  ASSUME HandshakeInv, NEW d \in Addr, NEW s \in Addr, up[d], NEW nd \in Node,
         node' = [node EXCEPT ![d][s] = nd], UNCHANGED <<up, boot>>
  PROVE  /\ SessionLife' = SessionLife
         /\ SessionTx' = [SessionTx EXCEPT ![d][s] = nd.tx]
         /\ SessionRx' = [SessionRx EXCEPT ![d][s] = nd.rx]
         /\ nd.state # 4 /\ (node[d][s] = NoNode \/ node[d][s].state # 4) =>
               SessionLinked' = SessionLinked
         /\ nd.state = 4 => SessionLinked' = [SessionLinked EXCEPT ![d][s] = TRUE]
<1> HIDE DEF Packet, Node, Key
<1>0. /\ node \in [Addr -> [Addr -> Node \cup {NoNode}]]
      /\ \A x \in Node : x.state \in 0 .. 4
  BY NodeFields DEF HandshakeInv, TypeOK
<1>1. node'[d][s] = nd /\ \A x, y \in Addr : x # d \/ y # s => node'[x][y] = node[x][y]
  BY <1>0
<1>2. nd # NoNode
  BY SentinelAssumption
<1>3. SessionLife' = SessionLife
  BY DEF SessionLife, Life
<1>4. SessionTx' = [SessionTx EXCEPT ![d][s] = nd.tx]
  <2>1. SessionKey(d, s, "tx")' = nd.tx
    BY <1>1, <1>2 DEF SessionKey
  <2>2. \A x, y \in Addr : x # d \/ y # s => SessionKey(x, y, "tx")' = SessionKey(x, y, "tx")
    BY <1>1 DEF SessionKey
  <2> QED
    BY <2>1, <2>2 DEF SessionTx
<1>5. SessionRx' = [SessionRx EXCEPT ![d][s] = nd.rx]
  <2>1. SessionKey(d, s, "rx")' = nd.rx
    BY <1>1, <1>2 DEF SessionKey
  <2>2. \A x, y \in Addr : x # d \/ y # s => SessionKey(x, y, "rx")' = SessionKey(x, y, "rx")
    BY <1>1 DEF SessionKey
  <2> QED
    BY <2>1, <2>2 DEF SessionRx
<1>6. \A x, y \in Addr : x # d \/ y # s => IsConnected(x, y)' = IsConnected(x, y)
  BY <1>1 DEF IsConnected, AtLeast
<1>7. ASSUME nd.state # 4, node[d][s] = NoNode \/ node[d][s].state # 4
      PROVE  SessionLinked' = SessionLinked
  <2>1. ~IsConnected(d, s) /\ ~IsConnected(d, s)'
    <3>1. nd.state \in 0 .. 4 /\ (node[d][s] # NoNode => node[d][s].state \in 0 .. 4)
      BY <1>0
    <3> QED
      BY <1>1, <1>7, <3>1 DEF IsConnected, AtLeast, Connected
  <2>2. \A x, y \in Addr : IsConnected(x, y)' = IsConnected(x, y)
    BY <1>6, <2>1 DEF IsConnected, AtLeast
  <2> QED
    BY <2>2 DEF SessionLinked
<1>8. ASSUME nd.state = 4
      PROVE  SessionLinked' = [SessionLinked EXCEPT ![d][s] = TRUE]
  <2>1. IsConnected(d, s)' = TRUE
    BY <1>1, <1>2, <1>8 DEF IsConnected, AtLeast, Connected
  <2>2. \A x \in Addr : x # d =>
           [y \in Addr |-> IsConnected(x, y)]' = [y \in Addr |-> IsConnected(x, y)]
    BY <1>6
  <2>3. [y \in Addr |-> IsConnected(d, y)]' =
           [[y \in Addr |-> IsConnected(d, y)] EXCEPT ![s] = TRUE]
    <3> DEFINE before == [y \in Addr |-> IsConnected(d, y)]
               after == [y \in Addr |-> IsConnected(d, y)']
    <3>1. after[s] = TRUE
      BY <2>1
    <3>2. \A y \in Addr : y # s => after[y] = before[y]
      BY <1>6
    <3>3. after \in [Addr -> {after[y] : y \in Addr}] /\ DOMAIN before = Addr
      OBVIOUS
    <3> HIDE DEF before, after
    <3>4. after = [before EXCEPT ![s] = TRUE]
      BY <3>1, <3>2, <3>3
    <3> QED
      BY <3>4 DEF before, after
  <2>4. SessionLinked'[d] = [SessionLinked[d] EXCEPT ![s] = TRUE]
    BY <2>3 DEF SessionLinked
  <2>5. \A x \in Addr : x # d => SessionLinked'[x] = SessionLinked[x]
    BY <2>2 DEF SessionLinked
  <2>6. DOMAIN SessionLinked = Addr /\ SessionLinked' \in [Addr -> {SessionLinked'[x] : x \in Addr}]
    BY DEF SessionLinked
  <2> HIDE DEF SessionLinked
  <2> QED
    BY <2>4, <2>5, <2>6
<1> QED
  BY <1>3, <1>4, <1>5, <1>7, <1>8

\* Every step is a step of SecureSession, or leaves all of it alone.
LEMMA SessionStep ==
  ASSUME MaxBoots = 1, HandshakeInv, [Next]_vars
  PROVE  [Session!Next]_(Session!vars)
<1> HIDE DEF Packet, Node, Key
<1>0. TypeOK
  BY DEF HandshakeInv
<1>1. CASE UNCHANGED <<up, boot, node>>
  BY <1>1 DEF Session!vars, Life, SessionKey, IsConnected, AtLeast
<1>2. ASSUME NEW a \in Addr, Start(a) PROVE Session!Next
  <2>1. Session!Born(a)
    <3>1. boot[a] = 0 /\ ~up[a]
      BY <1>0, <1>2 DEF Start, TypeOK
    <3>2. SessionLife[a] = "unborn"
      BY <3>1 DEF SessionLife, Life
    <3>3. SessionLife' = [SessionLife EXCEPT ![a] = "alive"]
      <4>1. Life(a)' = "alive"
        BY <1>0, <1>2 DEF Start, Life, TypeOK
      <4>2. \A x \in Addr : x # a => Life(x)' = Life(x)
        BY <1>0, <1>2 DEF Start, Life, TypeOK
      <4> QED
        BY <4>1, <4>2 DEF SessionLife
    <3>4. UNCHANGED <<SessionTx, SessionRx, SessionLinked>>
      BY <1>2 DEF Start, SessionKey, IsConnected, AtLeast,
                  SessionTx, SessionRx, SessionLinked
    <3> QED
      BY <3>2, <3>3, <3>4
         DEF Session!Born, SessionLife, SessionTx, SessionRx, SessionLinked
  <2> QED
    BY <2>1 DEF Session!Next
<1>3. ASSUME NEW a \in Addr, up[a], UNCHANGED boot, Gone(a) PROVE Session!Next
  <2>1. /\ node'[a] = [s \in Addr |-> NoNode]
        /\ \A x \in Addr : x # a => node'[x] = node[x] /\ up'[x] = up[x]
        /\ ~up'[a] /\ boot[a] > 0
    BY <1>0, <1>3 DEF Gone, TypeOK
  <2>2. SessionLife[a] = "alive"
    BY <1>3 DEF SessionLife, Life
  <2>3. SessionLife' = [SessionLife EXCEPT ![a] = "dead"]
    <3>1. Life(a)' = "dead"
      BY <1>0, <1>3, <2>1 DEF Life, TypeOK
    <3>2. \A x \in Addr : x # a => Life(x)' = Life(x)
      BY <1>3, <2>1 DEF Life
    <3> QED
      BY <3>1, <3>2 DEF SessionLife
  <2>4. \A s \in Addr : /\ SessionKey(a, s, "tx")' = NoKey
                        /\ SessionKey(a, s, "rx")' = NoKey
                        /\ IsConnected(a, s)' = FALSE
    BY <2>1 DEF SessionKey, IsConnected, AtLeast
  <2>5. \A x, s \in Addr : x # a => /\ SessionKey(x, s, "tx")' = SessionKey(x, s, "tx")
                                    /\ SessionKey(x, s, "rx")' = SessionKey(x, s, "rx")
                                    /\ IsConnected(x, s)' = IsConnected(x, s)
    BY <2>1 DEF SessionKey, IsConnected, AtLeast
  <2>6. /\ SessionTx' = [SessionTx EXCEPT ![a] = [s \in Addr |-> NoKey]]
        /\ SessionRx' = [SessionRx EXCEPT ![a] = [s \in Addr |-> NoKey]]
        /\ SessionLinked' = [SessionLinked EXCEPT ![a] = [s \in Addr |-> FALSE]]
    BY <2>4, <2>5 DEF SessionTx, SessionRx, SessionLinked
  <2>7. Session!Die(a)
    BY <2>2, <2>3, <2>6
       DEF Session!Die, SessionLife, SessionTx, SessionRx, SessionLinked
  <2> QED
    BY <2>7 DEF Session!Next
<1>4. ASSUME NEW s \in Addr, NEW d \in Addr, NEW nd \in Node, up[d],
             node' = [node EXCEPT ![d][s] = nd], UNCHANGED <<up, boot>>,
             Changes(d, s, nd)
      PROVE  [Session!Next]_(Session!vars)
  <2> DEFINE n == node[d][s]
  <2>1. /\ SessionLife' = SessionLife
        /\ SessionTx' = [SessionTx EXCEPT ![d][s] = nd.tx]
        /\ SessionRx' = [SessionRx EXCEPT ![d][s] = nd.rx]
        /\ nd.state # 4 /\ (n = NoNode \/ n.state # 4) => SessionLinked' = SessionLinked
        /\ nd.state = 4 => SessionLinked' = [SessionLinked EXCEPT ![d][s] = TRUE]
    BY <1>4, SessionMove
  <2>2. /\ SessionLife[d] = "alive" /\ (SessionLife[s] = "alive" <=> up[s])
        /\ n = NoNode => SessionTx[d][s] = NoKey /\ SessionRx[d][s] = NoKey
        /\ n # NoNode => SessionTx[d][s] = n.tx /\ SessionRx[d][s] = n.rx
        /\ node[s][d] # NoNode =>
              SessionTx[s][d] = node[s][d].tx /\ SessionRx[s][d] = node[s][d].rx
    BY <1>4 DEF Life, SessionKey, SessionLife, SessionTx, SessionRx
  <2>3. n # NoNode => n.state \in 0 .. 4
    BY <1>0, NodeFields DEF TypeOK
  <2>4. nd.state \in 0 .. 4
    BY NodeFields
  <2>5. /\ SessionTx \in [Addr -> [Addr -> Key \cup {NoKey}]]
        /\ SessionRx \in [Addr -> [Addr -> Key \cup {NoKey}]]
    BY <1>0, SessionTypes
  <2> HIDE DEF n
  <2>8. CASE Meets(n, nd)
    <3>1. /\ SessionTx' = SessionTx /\ SessionRx' = SessionRx
          /\ SessionLinked' = SessionLinked
      BY <2>1, <2>2, <2>3, <2>5, <2>8 DEF Meets
    <3> QED
      BY <2>1, <3>1 DEF Session!vars, SessionLife, SessionTx, SessionRx, SessionLinked
  <2>9. CASE Offers(n, nd)
    <3>1. /\ SessionTx[d][s] = NoKey /\ SessionTx'[d][s] = nd.tx /\ nd.tx \in Key
          /\ SessionRx' = SessionRx /\ SessionLinked' = SessionLinked
      BY <2>1, <2>2, <2>5, <2>9 DEF Offers
    <3>2. Session!Offer(d, s)
      BY <2>1, <2>2, <3>1
         DEF Session!Offer, SessionLife, SessionTx, SessionRx, SessionLinked
    <3> QED
      BY <3>2 DEF Session!Next
  <2>10. CASE Learns(n, nd, d, s)
    <3>1. /\ SessionTx[d][s] # NoKey /\ SessionRx[d][s] = NoKey
          /\ SessionRx'[d][s] = nd.rx /\ nd.rx \in Key
          /\ SessionTx' = SessionTx /\ SessionLinked' = SessionLinked
          /\ up[s] => nd.rx = SessionTx[s][d]
      BY <2>1, <2>2, <2>5, <2>10 DEF Learns
    <3>2. Session!Take(d, s)
      BY <2>1, <2>2, <3>1
         DEF Session!Take, SessionLife, SessionTx, SessionRx, SessionLinked
    <3> QED
      BY <3>2 DEF Session!Next
  <2>11. CASE Joins(n, nd, d, s)
    <3>1. /\ SessionRx[d][s] # NoKey
          /\ SessionTx' = SessionTx /\ SessionRx' = SessionRx
          /\ SessionLinked' = [SessionLinked EXCEPT ![d][s] = TRUE]
          /\ up[s] => SessionRx[s][d] = SessionTx[d][s]
      BY <2>1, <2>2, <2>5, <2>11 DEF Joins
    <3>2. Session!Link(d, s)
      BY <2>1, <2>2, <3>1
         DEF Session!Link, SessionLife, SessionTx, SessionRx, SessionLinked
    <3> QED
      BY <3>2 DEF Session!Next
  <2> QED
    BY <1>4, <2>8, <2>9, <2>10, <2>11 DEF Changes, n
<1> QED
  BY <1>1, <1>2, <1>3, <1>4, NextChanges

LEMMA SessionInit == Init => Session!Init
<1> SUFFICES ASSUME Init PROVE Session!Init
  OBVIOUS
<1>1. \A a \in Addr : Life(a) = "unborn"
  BY DEF Init, Life
<1>2. \A a, s \in Addr : /\ SessionKey(a, s, "tx") = NoKey
                         /\ SessionKey(a, s, "rx") = NoKey
                         /\ IsConnected(a, s) = FALSE
  BY DEF Init, SessionKey, IsConnected, AtLeast
<1> QED
  BY <1>1, <1>2 DEF Session!Init

\* The handshake implements the abstract session: keys are offered once, taken
\* from the peer that offered them, and linked only when both sides have both.
THEOREM ImplementsSessionCorrect ==
  ASSUME "PublicKeyRequest" \notin Repeatable, MaxBoots = 1
  PROVE  Spec => ImplementsSession
<1>1. HandshakeInv /\ [Next]_vars => [Session!Next]_(Session!vars)
  BY SessionStep
<1> QED
  BY <1>1, SessionInit, HandshakeCorrect, PTL DEF Spec, ImplementsSession, Session!Spec
=============================================================================
