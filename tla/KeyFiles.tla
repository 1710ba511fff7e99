------------------------------ MODULE KeyFiles ------------------------------
(***************************************************************************)
(* The RSA key pair of a node on disk and in Core (src/src/RSA.cpp, and    *)
(* the first lines of main in src/examples/kapuad/main.cpp).  A process    *)
(* that cannot open private.pem makes a key pair and writes public.pem,    *)
(* then private.pem; then it loads what is there, whatever came of that.   *)
(* It may crash at any point and be started again.                         *)
(*                                                                         *)
(* One action is one call on a file.  A file that exists may fail to open  *)
(* (permissions, descriptors, the disk), for reading as for writing.       *)
(* Opening it for writing truncates it, and it is torn from then on until  *)
(* its contents are flushed; whether they were is not looked at.  One      *)
(* process runs in the directory at a time.                                *)
(***************************************************************************)
EXTENDS Naturals

CONSTANTS
    MaxKeys,  \* bound: key pairs made in the directory
    Faults,   \* a subset of {"generate", "open", "write"}: what may fail
    Absent,   \* the file does not exist
    Torn,     \* the file holds no whole PEM block
    Null      \* nullptr: no key

Key == 1 .. MaxKeys

ASSUME KeysAssumption == MaxKeys \in Nat
ASSUME FaultsAssumption == Faults \subseteq {"generate", "open", "write"}
ASSUME FileAssumption ==
    Absent # Torn /\ Absent \notin Key /\ Torn \notin Key /\ Null \notin Key

VARIABLES
    public_pem,   \* what each file holds: a key, or Absent or Torn
    private_pem,
    made,         \* how many key pairs were made so far; the last is in use
    pc,           \* where main is, "down" when no process runs
    publicKey,    \* the halves in Core's KeyPair
    privateKey,
    answer,       \* success in load_rsa_key_pair, then its answer; main ignores it
    misread       \* history: a private key on disk was taken for missing, and
                  \* the pair has not been written anew since

files == <<public_pem, private_pem>>
keys == <<publicKey, privateKey>>
vars == <<public_pem, private_pem, made, pc, publicKey, privateKey, answer, misread>>

Init ==
    /\ public_pem = Absent /\ private_pem = Absent
    /\ made = 0
    /\ pc = "down"
    /\ publicKey = Null /\ privateKey = Null
    /\ answer = FALSE
    /\ misread = FALSE

\* main goes on from one point to another.
Goes(from, to) == pc = from /\ pc' = to

-----------------------------------------------------------------------------
(* main.                                                                   *)

Start ==
    /\ Goes("down", "check")
    /\ UNCHANGED <<files, made, keys, answer, misread>>

\* (Mutant of Missing: a pair that is not whole is made again.)
NotWhole == public_pem \notin Key \/ private_pem \notin Key

\* ifstream("private.pem").good(): there is no such file.
Missing == private_pem = Absent

CheckPrivate ==
    /\ Goes("check", IF Missing THEN "generate" ELSE "load_public")
    /\ UNCHANGED <<files, made, keys, answer, misread>>

\* ... or there is one, and it does not open: main goes on as if there were none.
CheckFails ==
    /\ "open" \in Faults
    /\ private_pem # Absent
    /\ Goes("check", "generate")
    /\ misread' = (misread \/ private_pem \in Key)
    /\ UNCHANGED <<files, made, keys, answer>>

\* The process ends or crashes, wherever it is.
Stop ==
    /\ pc # "down"
    /\ pc' = "down"
    /\ publicKey' = Null /\ privateKey' = Null /\ answer' = FALSE
    /\ UNCHANGED <<files, made, misread>>

-----------------------------------------------------------------------------
(* generate_rsa_key_pair.  main does not look at its result.               *)

Generate ==
    /\ Goes("generate", "open_public")
    /\ made < MaxKeys
    /\ made' = made + 1
    /\ UNCHANGED <<files, keys, answer, misread>>

\* (Mutant of GenerateFails: no return when public.pem cannot be opened.)
GenerateGoesOn ==
    /\ \/ Goes("generate", "load_public") /\ "generate" \in Faults
       \/ Goes("open_public", "open_private") /\ "open" \in Faults
       \/ Goes("open_private", "load_public") /\ "open" \in Faults
    /\ UNCHANGED <<files, made, keys, answer, misread>>

\* No key, or a file that cannot be opened: return false.
GenerateFails ==
    /\ \/ Goes("generate", "load_public") /\ "generate" \in Faults
       \/ Goes("open_public", "load_public") /\ "open" \in Faults
       \/ Goes("open_private", "load_public") /\ "open" \in Faults
    /\ UNCHANGED <<files, made, keys, answer, misread>>

OpenPublic ==
    /\ Goes("open_public", "write_public")
    /\ public_pem' = Torn
    /\ UNCHANGED <<private_pem, made, keys, answer, misread>>

\* What a file holds after PEM_write and fclose.
Written == {made} \cup IF "write" \in Faults THEN {Torn} ELSE {}

WritePublic ==
    /\ Goes("write_public", "open_private")
    /\ public_pem' \in Written
    /\ UNCHANGED <<private_pem, made, keys, answer, misread>>

OpenPrivate ==
    /\ Goes("open_private", "write_private")
    /\ private_pem' = Torn
    /\ UNCHANGED <<public_pem, made, keys, answer, misread>>

WritePrivate ==
    /\ Goes("write_private", "load_public")
    /\ private_pem' \in Written
    /\ misread' = FALSE
    /\ UNCHANGED <<public_pem, made, keys, answer>>

-----------------------------------------------------------------------------
(* load_rsa_key_pair.                                                      *)

\* Whether fopen for reading succeeds.
Opens(file) == {file # Absent} \cup IF "open" \in Faults THEN {FALSE} ELSE {}

\* PEM_read on a file that is open.
Read(file) == IF file \in Key THEN file ELSE Null

\* A public key that cannot be parsed is only logged.
LoadPublic ==
    /\ Goes("load_public", "load_private")
    /\ answer' \in Opens(public_pem)
    /\ publicKey' = IF answer' THEN Read(public_pem) ELSE Null
    /\ UNCHANGED <<files, made, privateKey, misread>>

\* A private key that cannot be parsed returns at once and leaves the public
\* half; otherwise, a file of the two that did not open leaves neither.
LoadPrivate ==
    /\ Goes("load_private", "running")
    /\ \E opened \in Opens(private_pem) :
          \/ /\ opened /\ Read(private_pem) = Null
             /\ privateKey' = Null /\ answer' = FALSE
             /\ UNCHANGED publicKey
          \/ /\ opened => Read(private_pem) # Null
             /\ ~(answer /\ opened)
             /\ publicKey' = Null /\ privateKey' = Null /\ answer' = FALSE
          \/ /\ opened /\ Read(private_pem) # Null
             /\ answer
             /\ privateKey' = Read(private_pem)
             /\ UNCHANGED <<publicKey, answer>>
    /\ UNCHANGED <<files, made, misread>>

-----------------------------------------------------------------------------
\* The process, from its start to what comes of load_rsa_key_pair.
FilesStep ==
    \/ Start \/ CheckPrivate \/ CheckFails
    \/ Generate \/ GenerateFails
    \/ OpenPublic \/ WritePublic \/ OpenPrivate \/ WritePrivate
    \/ LoadPublic \/ LoadPrivate

Next == FilesStep \/ Stop

Spec == Init /\ [][Next]_vars

-----------------------------------------------------------------------------
(* Properties.                                                             *)

Generating == {"open_public", "write_public", "open_private", "write_private"}

TypeOK ==
    /\ public_pem \in Key \cup {Absent, Torn}
    /\ private_pem \in Key \cup {Absent, Torn}
    /\ made \in 0 .. MaxKeys
    /\ pc \in {"down", "check", "generate", "load_public", "load_private", "running"}
              \cup Generating
    /\ publicKey \in Key \cup {Null}
    /\ privateKey \in Key \cup {Null}
    /\ answer \in BOOLEAN
    /\ misread \in BOOLEAN

\* A running process never holds the halves of two different pairs, whatever
\* crashed or failed before: it would hand out a public key and could not
\* open what its peers encrypt with it.  (But a process that could not open a
\* good private.pem writes public.pem anew; if private.pem then does not open
\* for writing either, the next one to open both holds two.)
PairMatches ==
    publicKey # Null /\ privateKey # Null => publicKey = privateKey \/ misread

\* A private key once written is never replaced, and its public half is not
\* touched any more, but by a process that could not open it: the node keeps
\* its key over every other restart, crash and failure.
KeysStay == [][files' # files /\ private_pem \in Key => misread]_vars

\* The inductive invariant: a private key on disk has its own public half
\* beside it (or a torn file), and while a pair is being written there is no
\* other private key; but for one that was misread.  What is in memory is what
\* is on disk.  load_rsa_key_pair never says yes without the private half.
KeyInv ==
    /\ TypeOK
    /\ PairMatches
    /\ private_pem \in Key =>
          \/ misread
          \/ /\ pc \notin {"generate"} \cup Generating
             /\ public_pem \in {private_pem, Torn}
    /\ pc \in Generating => made \in Key
    /\ pc \in {"open_private", "write_private"} => public_pem \in {made, Torn}
    /\ pc = "write_private" => private_pem = Torn
    /\ pc \notin {"load_private", "running"} => publicKey = Null /\ ~answer
    /\ pc # "running" => privateKey = Null
    /\ publicKey # Null => publicKey = public_pem
    /\ privateKey # Null => privateKey = private_pem
    /\ pc = "running" /\ answer => privateKey # Null
=============================================================================
