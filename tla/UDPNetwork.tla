----------------------------- MODULE UDPNetwork -----------------------------
(***************************************************************************)
(* The network thread of every Kapua process (src/src/UDPNetwork.cpp),     *)
(* the nodes it keeps in Core's address table, and the datagrams in        *)
(* flight between them.                                                    *)
(*                                                                         *)
(* One value of Addr is one UDP endpoint; a process runs there from Start  *)
(* to Exit.  Each process draws a fresh identity when it starts            *)
(* (Core::start), so a restarted process is a new node to the protocol     *)
(* and an old address to its peers' tables.  _main_loop takes one datagram *)
(* at a time: it finds the node by source address, decrypts if it must,    *)
(* adds the node and asks for its public key if the address is new, and    *)
(* runs the handler of the packet's type.  One action is one whole         *)
(* iteration, replies included.                                            *)
(*                                                                         *)
(* Left out: packet and request numbers, ttl, last contact time, log       *)
(* lines, the bytes of keys and of packets.  Idealised: two random 64-bit  *)
(* identities or two random session keys never coincide, and a ciphertext  *)
(* read as plaintext never shows one of the six packet types.              *)
(***************************************************************************)
EXTENDS Naturals, Sequences, SequencesExt

CONSTANTS
    Addr,         \* UDP endpoints a process may run at
    Loaded,       \* Loaded[a]: the halves of a's RSA key pair that Core holds
    LenHolds,     \* what the uninitialised len of _process_packet may hold
    Discoverers,  \* endpoints configured with local discovery enabled
    Stoppable,    \* endpoints whose process may stop or crash
    Faults,       \* what may go wrong: a subset of {"loss", "reorder", "recvfrom"}
    Repeatable,   \* the types of packet of which the network makes duplicates
    MaxRepeats,   \* bound: datagrams duplicated, or handled again by a failed recvfrom
    MaxBoots,     \* bound: times a process starts at one endpoint
    BroadcastId,  \* KAPUA_ID_BROADCAST, the identity of no process
    NoNode,       \* the address table has no entry
    NoKey,        \* no session key: plaintext, or an AESKey not yet filled in
    NoPacket      \* nothing read into the standby buffer yet

ASSUME LoadedAssumption == Loaded \in [Addr -> SUBSET {"public", "private"}]
ASSUME LenAssumption == LenHolds \subseteq {"enough", "too little"}
ASSUME EndpointsAssumption == Discoverers \subseteq Addr /\ Stoppable \subseteq Addr
ASSUME NetworkAssumption ==
    /\ Faults \subseteq {"loss", "reorder", "recvfrom"}
    /\ MaxRepeats \in Nat
    /\ MaxBoots \in Nat

VARIABLES
    up,         \* up[a]: a process runs at a, its network thread in its loop
    boot,       \* boot[a]: how many processes have started at a
    node,       \* node[a][s]: what a's _nodes_by_addr holds for s, or NoNode
    lane,       \* lane[s][d]: the datagrams in flight from s to d, in order
    generated,  \* generated[a][s]: session keys made at a for s
    standby,    \* standby[d]: what d read last and from where, or NoPacket
    repeats     \* datagrams duplicated or handled again so far

vars == <<up, boot, node, lane, generated, standby, repeats>>

-----------------------------------------------------------------------------
(* Identities, keys, nodes and packets.                                    *)

\* Node::State, in the order the code compares them.
Initialised     == 0
KeyExchange     == 1
Handshake       == 2
CheckEncryption == 3
Connected       == 4

\* The identity drawn by the n-th process at a; <<a, 0>> stands for the
\* identity misread from a ciphertext that came from a.
Id == Addr \X Nat
MyId(a) == <<a, boot[a]>>

\* A session key: who generated it, for which peer, and the how-manieth.
Key == Addr \X Addr \X Nat

PacketTypes ==
    {"Discovery", "PublicKeyRequest", "PublicKeyReply", "EncryptionContext", "Ready"}

Node == [id : Id, state : Initialised .. Connected,
         tx : Key \cup {NoKey}, rx : Key \cup {NoKey}]

\* key: the session key carried by an EncryptionContext; enc: the session key
\* the whole datagram is encrypted with.
Packet == [type : PacketTypes, from : Id, to : Id \cup {BroadcastId},
           key : Key \cup {NoKey}, enc : Key \cup {NoKey}]

Standby == [src : Addr, pkt : Packet]

ASSUME SentinelAssumption ==
    NoNode \notin Node /\ NoKey \notin Key /\ NoPacket \notin Standby

NewNode(id) == [id |-> id, state |-> Initialised, tx |-> NoKey, rx |-> NoKey]

Plain(type, from, to, key) ==
    [type |-> type, from |-> from, to |-> to, key |-> key, enc |-> NoKey]

\* (Mutant of Seal: the comparison is off by one state.)
SealLate(nd, pkt) ==
    [pkt EXCEPT !.enc = IF nd.state > CheckEncryption THEN nd.tx ELSE NoKey]

\* _send to a known node: encrypted with the node's tx key from
\* CheckEncryption on, and in the clear before.
Seal(nd, pkt) ==
    [pkt EXCEPT !.enc = IF nd.state >= CheckEncryption THEN nd.tx ELSE NoKey]

InFlight(s, d) == ToSet(lane[s][d])

-----------------------------------------------------------------------------
Init ==
    /\ up = [a \in Addr |-> FALSE]
    /\ boot = [a \in Addr |-> 0]
    /\ node = [a \in Addr |-> [s \in Addr |-> NoNode]]
    /\ lane = [s \in Addr |-> [d \in Addr |-> << >>]]
    /\ generated = [a \in Addr |-> [s \in Addr |-> 0]]
    /\ standby = [a \in Addr |-> NoPacket]
    /\ repeats = 0

(* The process.                                                            *)

\* Core::start and UDPNetwork::start: a new identity, an empty table.
Start(a) ==
    /\ ~up[a]
    /\ boot[a] < MaxBoots
    /\ up' = [up EXCEPT ![a] = TRUE]
    /\ boot' = [boot EXCEPT ![a] = @ + 1]
    /\ UNCHANGED <<node, lane, generated, standby, repeats>>

\* What is left at a when its process is gone: no table, as ~Core frees it.  No
\* peer is told, and what is in flight stays there.
Gone(a) ==
    /\ up' = [up EXCEPT ![a] = FALSE]
    /\ standby' = [standby EXCEPT ![a] = NoPacket]
    /\ node' = [node EXCEPT ![a] = [s \in Addr |-> NoNode]]

\* The process ends: main returns after a signal, or a crash.  UDPNetwork::stop
\* alone would leave Core its table; main never starts the network again.
Exit(a) ==
    /\ a \in Stoppable
    /\ up[a]
    /\ Gone(a)
    /\ UNCHANGED <<boot, lane, generated, repeats>>

\* _broadcast.  The broadcast reaches every endpoint, the sender's own too.
\* Bound: not while an earlier broadcast of this process is still in flight.
DiscoveryInFlight(a) ==
    \E d \in Addr : \E pkt \in InFlight(a, d) :
        pkt.type = "Discovery" /\ pkt.from = MyId(a)

Broadcast(a) ==
    /\ up[a]
    /\ a \in Discoverers
    /\ ~DiscoveryInFlight(a)
    /\ lane' = [lane EXCEPT ![a] = [d \in Addr |->
                  Append(lane[a][d], Plain("Discovery", MyId(a), BroadcastId, NoKey))]]
    /\ UNCHANGED <<up, boot, node, generated, standby, repeats>>

-----------------------------------------------------------------------------
(* The network.                                                            *)

\* UDP loses datagrams.
Lose(s, d, i) ==
    /\ "loss" \in Faults
    /\ lane' = [lane EXCEPT ![s][d] = RemoveAt(@, i)]
    /\ UNCHANGED <<up, boot, node, generated, standby, repeats>>

\* UDP duplicates datagrams, and the copy may come later.
Duplicate(s, d, i) ==
    /\ repeats < MaxRepeats
    /\ lane[s][d][i].type \in Repeatable
    /\ lane' = [lane EXCEPT ![s][d] = Append(@, @[i])]
    /\ repeats' = repeats + 1
    /\ UNCHANGED <<up, boot, node, generated, standby>>

\* Nobody listens at d.
Vanish(s, d) ==
    /\ ~up[d]
    /\ lane[s][d] # << >>
    /\ lane' = [lane EXCEPT ![s][d] = RemoveAt(@, 1)]
    /\ UNCHANGED <<up, boot, node, generated, standby, repeats>>

-----------------------------------------------------------------------------
(* One iteration of _main_loop at d, on a packet pkt from s.  rest is what is *)
(* in flight once pkt has been read.                                          *)

\* The node's keys are in use: _receive may decrypt, _send encrypts.
Sealed(d, s) == node[d][s] # NoNode /\ node[d][s].state >= CheckEncryption

\* (Mutant of Readable: decrypts with the key of the other direction.)
ReadableWithTx(d, s, pkt) ==
    pkt.enc = NoKey \/ (Sealed(d, s) /\ node[d][s].tx = pkt.enc)

\* _receive gets a packet with a valid magic number out of the datagram.
Readable(d, s, pkt) ==
    pkt.enc = NoKey \/ (Sealed(d, s) /\ node[d][s].rx = pkt.enc)

\* What is left in the standby buffer and in client_addr: a packet that was
\* decrypted, in the clear.
Kept(d, s, pkt) ==
    [src |-> s, pkt |-> IF Readable(d, s, pkt) THEN [pkt EXCEPT !.enc = NoKey] ELSE pkt]

\* Recorded only where recvfrom may fail: nothing else reads it again.
Keep(d, s, pkt) ==
    standby' = [standby EXCEPT ![d] =
        IF "recvfrom" \in Faults THEN Kept(d, s, pkt) ELSE NoPacket]

\* (Mutant of FromUs: the check is missing.)
FromNobody(d, pkt) == FALSE

\* A packet from our own identity: our broadcast, looped back.
FromUs(d, pkt) == pkt.from = MyId(d)

Discard(s, d, pkt, rest) ==
    /\ lane' = rest
    /\ Keep(d, s, pkt)
    /\ UNCHANGED <<up, boot, node, generated>>

ReceiveOwn(s, d, pkt, rest) ==
    /\ Readable(d, s, pkt)
    /\ FromUs(d, pkt)
    /\ Discard(s, d, pkt, rest)

\* Decrypted with the wrong key: an AES error or a bad magic number.
ReceiveUndecryptable(s, d, pkt, rest) ==
    /\ ~Readable(d, s, pkt)
    /\ Sealed(d, s)
    /\ Discard(s, d, pkt, rest)

\* A ciphertext for which d has no key in use goes on as if it were
\* plaintext.  The version byte stops it 255 times in 256; from a known node
\* it is stopped by its unknown type at the latest.
ReceiveGarbled(s, d, pkt, rest) ==
    /\ ~Readable(d, s, pkt)
    /\ ~Sealed(d, s)
    /\ Discard(s, d, pkt, rest)

\* What _receive makes of the sender, and what it sends to a new one.
Peer(d, s, id) == IF node[d][s] = NoNode THEN NewNode(id) ELSE node[d][s]

\* (Mutant of Greeting: asks known nodes again.)
GreetingAlways(d, s, id) == << Plain("PublicKeyRequest", MyId(d), id, NoKey) >>

Greeting(d, s, id) ==
    IF node[d][s] = NoNode
    THEN << Plain("PublicKeyRequest", MyId(d), id, NoKey) >>
    ELSE << >>

\* out is on its way back to s.
Answered(s, d, rest, out) == [rest EXCEPT ![d][s] = @ \o out]

\* The other time in 256, from an unknown address: a node is added under a
\* meaningless identity and asked for its key; the type is unknown.
ReceiveMisread(s, d, pkt, rest) ==
    /\ ~Readable(d, s, pkt)
    /\ node[d][s] = NoNode
    /\ node' = [node EXCEPT ![d][s] = Peer(d, s, <<s, 0>>)]
    /\ lane' = Answered(s, d, rest, Greeting(d, s, <<s, 0>>))
    /\ Keep(d, s, pkt)
    /\ UNCHANGED <<up, boot, generated>>

\* _receive hands _process_packet a packet of this type.
Accepts(s, d, pkt, type) ==
    /\ Readable(d, s, pkt)
    /\ ~FromUs(d, pkt)
    /\ pkt.type = type

\* The iteration ends with nd in the table, and the greeting and then the
\* handler's replies on the way back.
Finish(s, d, pkt, rest, nd, replies) ==
    /\ node' = [node EXCEPT ![d][s] = nd]
    /\ lane' = Answered(s, d, rest, Greeting(d, s, nd.id) \o replies)
    /\ Keep(d, s, pkt)
    /\ UNCHANGED <<up, boot>>

Reply(d, nd, type, key) == << Seal(nd, Plain(type, MyId(d), nd.id, key)) >>

\* _process_packet: case Discovery.
ReceiveDiscovery(s, d, pkt, rest) ==
    /\ Accepts(s, d, pkt, "Discovery")
    /\ Finish(s, d, pkt, rest, Peer(d, s, pkt.from), << >>)
    /\ UNCHANGED generated

\* case PublicKeyRequest: in any state.
ReceivePublicKeyRequest(s, d, pkt, rest) ==
    LET nd == [Peer(d, s, pkt.from) EXCEPT !.state = KeyExchange] IN
    /\ Accepts(s, d, pkt, "PublicKeyRequest")
    /\ "public" \in Loaded[d]
    /\ Finish(s, d, pkt, rest, nd, Reply(d, nd, "PublicKeyReply", NoKey))
    /\ UNCHANGED generated

\* case PublicKeyRequest without a public key: write_public_key throws, no
\* frame of the thread catches it, and the process ends.  The greeting, if
\* there was one, is already sent.
ReceivePublicKeyRequestFatal(s, d, pkt, rest) ==
    /\ Accepts(s, d, pkt, "PublicKeyRequest")
    /\ "public" \notin Loaded[d]
    /\ Gone(d)
    /\ lane' = Answered(s, d, rest, Greeting(d, s, pkt.from))
    /\ UNCHANGED <<boot, generated>>

\* (Mutant of Expected: takes the peer's session key before making its own.)
ExpectedEarly(type) ==
    IF type = "Ready" THEN CheckEncryption ELSE KeyExchange

\* The state a node must be in for a handler to go on.
Expected(type) ==
    CASE type = "PublicKeyReply"    -> KeyExchange
      [] type = "EncryptionContext" -> Handshake
      [] type = "Ready"             -> CheckEncryption

InState(d, s, id, type) == Peer(d, s, id).state = Expected(type)

OfferKey(nd, key) == [nd EXCEPT !.state = Handshake, !.tx = key]

\* case PublicKeyReply: make the session key we send with.
ReceivePublicKeyReply(s, d, pkt, rest) ==
    LET key == <<d, s, generated[d][s]>>
        nd  == OfferKey(Peer(d, s, pkt.from), key)
    IN
    /\ Accepts(s, d, pkt, "PublicKeyReply")
    /\ InState(d, s, pkt.from, "PublicKeyReply")
    /\ generated' = [generated EXCEPT ![d][s] = @ + 1]
    /\ Finish(s, d, pkt, rest, nd, Reply(d, nd, "EncryptionContext", key))

\* (Mutants of the next two: the result of the decryption is not looked at;
\* Ready is not waited for; the key is stored for the wrong direction.)
DecryptUnchecked(d) == TRUE
LearnKeyAndConnect(nd, key) == [nd EXCEPT !.state = Connected, !.rx = key]
LearnKeyAsTx(nd, key) == [nd EXCEPT !.state = CheckEncryption, !.tx = key]

\* decrypt_aes_context on a key sent to d.  It passes the address of len, of
\* which nothing was ever stored in this call of _process_packet, to
\* EVP_PKEY_decrypt as the room there is for the result; less than the size
\* of the RSA key is refused.
CanDecrypt(d) == "private" \in Loaded[d] /\ "enough" \in LenHolds
CanFailToDecrypt(d) == "private" \notin Loaded[d] \/ "too little" \in LenHolds

LearnKey(nd, key) == [nd EXCEPT !.state = CheckEncryption, !.rx = key]

\* case EncryptionContext: learn the session key we receive with.
ReceiveEncryptionContext(s, d, pkt, rest) ==
    LET nd == LearnKey(Peer(d, s, pkt.from), pkt.key) IN
    /\ Accepts(s, d, pkt, "EncryptionContext")
    /\ InState(d, s, pkt.from, "EncryptionContext")
    /\ CanDecrypt(d)
    /\ Finish(s, d, pkt, rest, nd, Reply(d, nd, "Ready", NoKey))
    /\ UNCHANGED generated

\* case Ready: the peer has our key and can encrypt with its own.
ReceiveReady(s, d, pkt, rest) ==
    /\ Accepts(s, d, pkt, "Ready")
    /\ InState(d, s, pkt.from, "Ready")
    /\ Finish(s, d, pkt, rest, [Peer(d, s, pkt.from) EXCEPT !.state = Connected], << >>)
    /\ UNCHANGED generated

\* Those three cases in any other state, and an EncryptionContext that is not
\* decrypted: a warning, nothing sent.
Refused(d, s, id, type) ==
    \/ ~InState(d, s, id, type)
    \/ type = "EncryptionContext" /\ CanFailToDecrypt(d)

\* (Mutant of ReceiveRefused: keeps the packet for later.)
ReceiveRefusedKept(s, d, pkt, rest) ==
    /\ \E type \in {"PublicKeyReply", "EncryptionContext", "Ready"} :
          Accepts(s, d, pkt, type) /\ Refused(d, s, pkt.from, type)
    /\ lane' = [rest EXCEPT ![s][d] = Append(@, pkt)]
    /\ UNCHANGED <<up, boot, node, generated, standby>>

ReceiveRefused(s, d, pkt, rest) ==
    \E type \in {"PublicKeyReply", "EncryptionContext", "Ready"} :
        /\ Accepts(s, d, pkt, type)
        /\ Refused(d, s, pkt.from, type)
        /\ Finish(s, d, pkt, rest, Peer(d, s, pkt.from), << >>)
        /\ UNCHANGED generated

Handle(s, d, pkt, rest) ==
    \/ ReceiveOwn(s, d, pkt, rest)
    \/ ReceiveUndecryptable(s, d, pkt, rest)
    \/ ReceiveGarbled(s, d, pkt, rest)
    \/ ReceiveMisread(s, d, pkt, rest)
    \/ ReceiveDiscovery(s, d, pkt, rest)
    \/ ReceivePublicKeyRequest(s, d, pkt, rest)
    \/ ReceivePublicKeyRequestFatal(s, d, pkt, rest)
    \/ ReceivePublicKeyReply(s, d, pkt, rest)
    \/ ReceiveEncryptionContext(s, d, pkt, rest)
    \/ ReceiveReady(s, d, pkt, rest)
    \/ ReceiveRefused(s, d, pkt, rest)

\* The i-th datagram on the way from s is read and handled.
Receive(s, d, i) ==
    /\ up[d]
    /\ i = 1 \/ "reorder" \in Faults
    /\ Handle(s, d, lane[s][d][i], [lane EXCEPT ![s][d] = RemoveAt(@, i)])
    /\ UNCHANGED repeats

\* A decryption of 65535 bytes: they do not fit crypt_buffer, and are no whole
\* number of blocks.
Overruns(s, d, pkt) == pkt.enc # NoKey /\ Sealed(d, s)

\* The stack is overwritten: the process ends, or goes on to drop the buffer.
OverrunStack(d) ==
    /\ Gone(d) \/ UNCHANGED <<up, node, standby>>
    /\ UNCHANGED <<boot, lane, generated>>

\* recvfrom fails after select has seen a datagram: its -1 becomes the size
\* 65535, which passes both checks, and what is in the buffer is handled again
\* as if it came once more from the address it came from.  With nothing read
\* yet the buffer holds an empty packet and the address is whatever the stack
\* held: no endpoint of the model, so left out.
ReceiveAgain(d) ==
    LET src == standby[d].src
        pkt == standby[d].pkt
    IN
    /\ "recvfrom" \in Faults
    /\ repeats < MaxRepeats
    /\ standby[d] # NoPacket
    /\ \/ ~Overruns(src, d, pkt) /\ Handle(src, d, pkt, lane)
       \/ Overruns(src, d, pkt) /\ OverrunStack(d)
    /\ repeats' = repeats + 1

-----------------------------------------------------------------------------
Next ==
    \/ \E a \in Addr : Start(a) \/ Exit(a) \/ Broadcast(a)
    \/ \E d \in Addr : ReceiveAgain(d)
    \/ \E s, d \in Addr : Vanish(s, d)
    \/ \E s, d \in Addr : \E i \in DOMAIN lane[s][d] :
          Lose(s, d, i) \/ Duplicate(s, d, i) \/ Receive(s, d, i)

Spec == Init /\ [][Next]_vars

\* The loop in _main_loop takes every datagram the socket has and broadcasts
\* when the interval is over; the network delays no datagram for ever, others
\* may overtake it; a datagram to nobody does not stay in flight.
Fairness ==
    /\ \A a \in Addr : WF_vars(Broadcast(a))
    /\ \A s, d \in Addr :
          /\ WF_vars(lane[s][d] # << >> /\ Receive(s, d, 1))
          /\ WF_vars(Vanish(s, d))

FairSpec == Spec /\ Fairness
-----------------------------------------------------------------------------
(* Properties.                                                             *)

\* What a holds for s has reached a state.
AtLeast(a, s, state) == node[a][s] # NoNode /\ node[a][s].state >= state
IsConnected(a, s) == AtLeast(a, s, Connected)

\* The types; where no process runs, no table and no buffer is left.
TypeOK ==
    /\ up \in [Addr -> BOOLEAN]
    /\ boot \in [Addr -> 0 .. MaxBoots]
    /\ node \in [Addr -> [Addr -> Node \cup {NoNode}]]
    /\ lane \in [Addr -> [Addr -> Seq(Packet)]]
    /\ generated \in [Addr -> [Addr -> Nat]]
    /\ standby \in [Addr -> Standby \cup {NoPacket}]
    /\ repeats \in 0 .. MaxRepeats
    /\ \A a \in Addr : up[a] => boot[a] > 0
    /\ \A a \in Addr : ~up[a] => standby[a] = NoPacket /\ \A s \in Addr : node[a][s] = NoNode

\* A session key is used only once it is there: the tx key exists when the
\* node reaches Handshake, the rx key when it reaches CheckEncryption, the
\* state from which _send and _receive use them.  AESKey has no initial
\* value, so a key used earlier would be whatever the memory held.
KeysBeforeUse ==
    \A a, s \in Addr :
        /\ AtLeast(a, s, Handshake) => node[a][s].tx # NoKey
        /\ AtLeast(a, s, CheckEncryption) => node[a][s].rx # NoKey

\* Every handshake packet up to EncryptionContext leaves in the clear, since
\* its receiver may have no key yet, and Ready never does ("this will now be
\* encrypted with the session key"), even when a repeated request throws a
\* connected node back to KeyExchange.
OnlyReadyIsEncrypted ==
    \A s, d \in Addr : \A pkt \in InFlight(s, d) :
        pkt.type = "Ready" <=> pkt.enc # NoKey

\* Its own broadcast comes back to every process, at any time and any number of
\* times, yet none takes itself for a peer: a node filed under the process's own
\* address has another identity, and stands for an earlier process there whose
\* datagrams outlived it.
NoSelfEntry ==
    \A a \in Addr : node[a][a] # NoNode => boot[a] > 1 /\ node[a][a].id # MyId(a)

\* With one run per endpoint and no duplicated PublicKeyRequest, whatever else
\* is lost, reordered, repeated or handled again: when one end says the
\* handshake is complete, the other end, if it is still running, has the same
\* two keys in use, each for the opposite direction.
MutualConnect ==
    \A a, s \in Addr :
        (up[s] /\ IsConnected(a, s)) =>
            /\ AtLeast(s, a, CheckEncryption)
            /\ node[a][s].rx = node[s][a].tx
            /\ node[s][a].rx = node[a][s].tx

\* Under the same assumptions a handshake never goes back while its process
\* lives, although PublicKeyRequest is accepted in every state.
Advances(a, s) ==
    node[a][s] # NoNode /\ up'[a] =>
        /\ node'[a][s] # NoNode
        /\ node'[a][s].state >= node[a][s].state
HandshakeOnlyAdvances == [][\A a, s \in Addr : Advances(a, s)]_vars

\* What d may still handle of s: in flight, or again from the standby buffer.
Again(s, d) ==
    IF standby[d] # NoPacket /\ standby[d].src = s THEN {standby[d].pkt} ELSE {}
Pending(s, d) == InFlight(s, d) \cup Again(s, d)

\* Nothing is retried: once two ends know each other and no handshake packet
\* is on its way between them, or left in a standby buffer, neither end's node
\* ever changes again while both run, whatever is broadcast.  A lost packet
\* leaves the pair where it is for good.
Quiet(a, s) ==
    /\ node[a][s] # NoNode /\ node[s][a] # NoNode
    /\ \A pkt \in Pending(a, s) \cup Pending(s, a) : pkt.type = "Discovery"
StaysQuiet(a, s) ==
    Quiet(a, s) /\ up'[a] /\ up'[s] => node'[a][s] = node[a][s] /\ Quiet(a, s)'
NothingRetried == [][\A a, s \in Addr : StaysQuiet(a, s)]_vars

\* Only processes with both halves of their key pair at both ends complete a
\* handshake: the public half answers the request, the private half opens
\* the other's session key.
FullKeysToConnect ==
    \A a, s \in Addr :
        IsConnected(a, s) => Loaded[a] \cap Loaded[s] = {"public", "private"}

\* On a network that neither loses, repeats nor reorders, and where len always
\* holds enough, two processes that keep running and have their key pairs end
\* up connected both ways if one of them broadcasts.
Whole(a) == Loaded[a] = {"public", "private"}
EventuallyConnected ==
    \A a \in Discoverers : \A s \in Addr \ {a} : Whole(a) /\ Whole(s) =>
        (<>[](up[a] /\ up[s]) => <>[](IsConnected(a, s) /\ IsConnected(s, a)))

\* Answers do not breed answers: in the end only broadcasts are in flight,
\* whatever starts, stops and duplicates came before.
Quiesces ==
    <>[](\A s, d \in Addr : \A pkt \in InFlight(s, d) : pkt.type = "Discovery")

\* The inductive invariant behind MutualConnect, HandshakeOnlyAdvances and
\* ImplementsSession, for MaxBoots = 1 and no duplicated PublicKeyRequest.

\* What every packet says about itself, and where it may go.
PacketInv ==
    \A s, d \in Addr : \A pkt \in Pending(s, d) :
        /\ pkt.from = MyId(s)
        /\ pkt.enc # NoKey => pkt.type = "Ready"
        /\ pkt.type = "EncryptionContext" => pkt.key \in Key
        /\ s = d \/ boot[d] = 0 => pkt.type = "Discovery"

\* Nobody has heard of, or from, a process that has not started.
UnbornInv ==
    \A s \in Addr : boot[s] = 0 =>
        \A d \in Addr :
            lane[s][d] = << >> /\ Again(s, d) = {} /\ node[d][s] = NoNode

\* A PublicKeyRequest is in flight at most once, and only while its receiver
\* has not moved.  The one in the standby buffer is what moved it last.
IsRequest(pkt) == pkt.type = "PublicKeyRequest"
Once(q) == \A i, j \in DOMAIN q : IsRequest(q[i]) /\ IsRequest(q[j]) => i = j
RequestInv ==
    \A s, d \in Addr :
        /\ Once(lane[s][d])
        /\ \A pkt \in InFlight(s, d) :
              up[d] /\ IsRequest(pkt) => ~AtLeast(d, s, KeyExchange)
        /\ \A pkt \in Again(s, d) :
              IsRequest(pkt) => AtLeast(d, s, KeyExchange) /\ ~AtLeast(d, s, Handshake)

\* A node is filed under the identity of its process, and its keys are filled
\* in by its state, and not before.
FilledInv ==
    \A a, s \in Addr : node[a][s] # NoNode =>
        /\ node[a][s].id = MyId(s)
        /\ node[a][s].state >= Handshake <=> node[a][s].tx # NoKey
        /\ node[a][s].state >= CheckEncryption <=> node[a][s].rx # NoKey

\* Who is answered knows who answers.
AheadInv ==
    \A s, d \in Addr : \A pkt \in Pending(s, d) :
        up[d] /\ pkt.type \in {"PublicKeyReply", "EncryptionContext", "Ready"} =>
            node[d][s] # NoNode

\* A packet comes from a sender that was, and still is, at least as far as it.
BehindInv ==
    \A s, d \in Addr : up[s] => \A pkt \in Pending(s, d) :
        /\ pkt.type = "PublicKeyRequest" => AtLeast(s, d, Initialised)
        /\ pkt.type = "PublicKeyReply" => AtLeast(s, d, KeyExchange)
        /\ pkt.type = "EncryptionContext" =>
              AtLeast(s, d, Handshake) /\ pkt.key = node[s][d].tx
        /\ pkt.type = "Ready" => AtLeast(s, d, CheckEncryption)

\* Two running ends are never more than one step of the handshake apart.
StepInv ==
    \A a, s \in Addr : up[a] /\ up[s] =>
        /\ AtLeast(a, s, KeyExchange) => AtLeast(s, a, Initialised)
        /\ AtLeast(a, s, Handshake) => AtLeast(s, a, KeyExchange)
        /\ AtLeast(a, s, CheckEncryption) =>
              AtLeast(s, a, Handshake) /\ node[a][s].rx = node[s][a].tx
        /\ AtLeast(a, s, Connected) => AtLeast(s, a, CheckEncryption)

HandshakeInv ==
    /\ TypeOK
    /\ NoSelfEntry
    /\ PacketInv
    /\ UnbornInv
    /\ RequestInv
    /\ FilledInv
    /\ AheadInv
    /\ BehindInv
    /\ StepInv

\* Expected by the documents and refuted by a run each.

\* "may join or leave the system at any time": a process that leaves and
\* joins again ends up connected like one that joins for the first time.
PeersRejoin ==
    \A a \in Discoverers : \A s \in Discoverers \ {a} :
        <>[](up[a] /\ up[s]) => <>[](IsConnected(a, s) /\ IsConnected(s, a))

\* "Decrypt the AESKey sent to us ..., set it as the node session key": one
\* who waits for a session key and can open it has it afterwards.
HeadConsumed(s, d) == up[d] /\ lane[s][d] # << >> /\ lane'[s][d] = Tail(lane[s][d])
SessionKeysOpened ==
    [][\A s, d \in Addr :
         LET pkt == Head(lane[s][d]) IN
         /\ HeadConsumed(s, d)
         /\ pkt.type = "EncryptionContext"
         /\ node[d][s] # NoNode /\ node[d][s].state = Handshake
         /\ "private" \in Loaded[d]
         => node'[d][s].rx = pkt.key]_vars

\* The handshake implements the abstract session.
Life(a) == IF up[a] THEN "alive" ELSE IF boot[a] = 0 THEN "unborn" ELSE "dead"
SessionKey(a, s, dir) ==
    IF node[a][s] = NoNode THEN NoKey
    ELSE IF dir = "tx" THEN node[a][s].tx ELSE node[a][s].rx

Session == INSTANCE SecureSession WITH
    life   <- [a \in Addr |-> Life(a)],
    tx     <- [a \in Addr |-> [s \in Addr |-> SessionKey(a, s, "tx")]],
    rx     <- [a \in Addr |-> [s \in Addr |-> SessionKey(a, s, "rx")]],
    linked <- [a \in Addr |-> [s \in Addr |-> IsConnected(a, s)]]

\* With one run per endpoint and no duplicated PublicKeyRequest, every step of
\* the network thread is a step of SecureSession or leaves it alone.
ImplementsSession == Session!Spec
=============================================================================
