-------------------------- MODULE KeyFiles_proofs --------------------------
(***************************************************************************)
(* KeyFiles: the pair a process loads matches and a private key on disk is *)
(* not lost, for any number of restarts, crashes and failed calls on       *)
(* files, until a process cannot open private.pem for reading and takes it *)
(* for missing.                                                            *)
(***************************************************************************)
EXTENDS KeyFiles, TLAPS

LEMMA InitKeys == Init => KeyInv
<1> SUFFICES ASSUME Init PROVE KeyInv
  OBVIOUS
<1>1. made \in 0 .. MaxKeys
  BY KeysAssumption DEF Init
<1>2. TypeOK
  BY <1>1 DEF Init, TypeOK
<1>3. QED
  BY <1>2, FileAssumption DEF Init, KeyInv, PairMatches, Generating

\* The processes' own steps, those that touch no file.
LEMMA ControlStep ==
    ASSUME KeyInv, Start \/ CheckPrivate \/ CheckFails \/ Stop
    PROVE  KeyInv'
<1> USE DEF KeyInv, TypeOK, PairMatches, Generating, Goes, files, keys
<1>1. CASE Start
  BY <1>1 DEF Start
<1>2. CASE CheckPrivate
  BY <1>2, FileAssumption DEF CheckPrivate, Missing
<1>3. CASE CheckFails
  BY <1>3 DEF CheckFails
<1>4. CASE Stop
  BY <1>4 DEF Stop
<1>5. QED
  BY <1>1, <1>2, <1>3, <1>4

\* Making a pair: no private key is on disk until the public half is written,
\* but for one that was misread, so no other pair's public half is written
\* beside it.
LEMMA GenerateStep ==
    ASSUME KeyInv,
           \/ Generate \/ GenerateFails
           \/ OpenPublic \/ WritePublic \/ OpenPrivate \/ WritePrivate
    PROVE  KeyInv'
<1> USE FileAssumption DEF KeyInv, TypeOK, PairMatches, Generating, Goes, files, keys
<1>1. CASE Generate
  <2>1. made' \in Key /\ made' \in 0 .. MaxKeys
    BY <1>1, KeysAssumption DEF Generate, Key
  <2>2. QED
    BY <1>1, <2>1 DEF Generate
<1>2. CASE GenerateFails
  BY <1>2 DEF GenerateFails
<1>3. CASE OpenPublic
  BY <1>3 DEF OpenPublic
<1>4. CASE WritePublic
  BY <1>4 DEF WritePublic, Written
<1>5. CASE OpenPrivate
  BY <1>5 DEF OpenPrivate
<1>6. CASE WritePrivate
  BY <1>6 DEF WritePrivate, Written
<1>7. QED
  BY <1>1, <1>2, <1>3, <1>4, <1>5, <1>6

\* Loading: what is in memory is what is on disk, or nothing.
LEMMA LoadStep ==
    ASSUME KeyInv, LoadPublic \/ LoadPrivate
    PROVE  KeyInv'
<1> USE FileAssumption DEF KeyInv, TypeOK, PairMatches, Generating, Goes, files, keys
<1>1. CASE LoadPublic
  BY <1>1 DEF LoadPublic, Read, Opens
<1>2. CASE LoadPrivate
  <2>1. privateKey' \in {Null, Read(private_pem)} /\ publicKey' \in {Null, publicKey}
    BY <1>2 DEF LoadPrivate
  <2>2. answer' \in BOOLEAN /\ (answer' => privateKey' # Null)
    BY <1>2 DEF LoadPrivate
  <2>3. QED
    BY <1>2, <2>1, <2>2 DEF LoadPrivate, Read
<1>3. QED
  BY <1>1, <1>2

LEMMA NextKeys == KeyInv /\ [Next]_vars => KeyInv'
<1> SUFFICES ASSUME KeyInv, [Next]_vars PROVE KeyInv'
  OBVIOUS
<1>1. CASE UNCHANGED vars
  BY <1>1 DEF vars, files, keys, KeyInv, TypeOK, PairMatches
<1>2. CASE Next
  BY <1>2, ControlStep, GenerateStep, LoadStep DEF Next, FilesStep
<1>3. QED
  BY <1>1, <1>2

\* The files and the loaded halves stay consistent (src/src/RSA.cpp:25-111,
\* src/examples/kapuad/main.cpp:36-40).
THEOREM KeyFilesCorrect == Spec => []KeyInv
BY InitKeys, NextKeys, PTL DEF Spec

\* No process works with the halves of two different pairs, unless one of them
\* took a private key for missing.
THEOREM PairMatchesCorrect == Spec => []PairMatches
<1>1. KeyInv => PairMatches
  BY DEF KeyInv
<1>2. QED
  BY <1>1, KeyFilesCorrect, PTL

\* The pair a node has on disk survives everything a process does that can open
\* it: only a step that generates writes, and none generates beside a private
\* key that was not misread.
THEOREM KeysStayCorrect == Spec => KeysStay
<1>1. KeyInv /\ [Next]_vars => [files' # files /\ private_pem \in Key => misread]_vars
  <2> SUFFICES ASSUME KeyInv, Next, private_pem \in Key, ~misread
               PROVE  files' = files
    BY DEF vars
  <2>1. pc \notin {"generate", "open_public", "write_public", "open_private", "write_private"}
    BY DEF KeyInv, Generating
  <2>2. QED
    BY <2>1 DEF Next, FilesStep, Start, CheckPrivate, CheckFails, Stop, Generate, GenerateFails,
       OpenPublic, WritePublic, OpenPrivate, WritePrivate, LoadPublic, LoadPrivate, Goes, files
<1>2. QED
  BY <1>1, KeyFilesCorrect, PTL DEF Spec, KeysStay
=============================================================================
