---------------------------- MODULE SecureSession ----------------------------
(***************************************************************************)
(* What the handshake of UDPNetwork promises, without packets or           *)
(* intermediate states: each of two live processes offers the other one    *)
(* session key, takes the key the other has offered, and calls the session *)
(* linked only when both hold each other's key.  Keys never change while   *)
(* the process lives.  Nothing is promised towards a process that is gone. *)
(***************************************************************************)
EXTENDS Naturals

CONSTANTS Addr, Key, NoKey

VARIABLES
    life,    \* life[a]: "unborn", "alive" or "dead"
    tx,      \* tx[a][s]: the key a sends to s with
    rx,      \* rx[a][s]: the key a receives from s with
    linked   \* linked[a][s]: a regards its session with s as complete

vars == <<life, tx, rx, linked>>

Init ==
    /\ life = [a \in Addr |-> "unborn"]
    /\ tx = [a \in Addr |-> [s \in Addr |-> NoKey]]
    /\ rx = [a \in Addr |-> [s \in Addr |-> NoKey]]
    /\ linked = [a \in Addr |-> [s \in Addr |-> FALSE]]

Born(a) ==
    /\ life[a] = "unborn"
    /\ life' = [life EXCEPT ![a] = "alive"]
    /\ UNCHANGED <<tx, rx, linked>>

Die(a) ==
    /\ life[a] = "alive"
    /\ life' = [life EXCEPT ![a] = "dead"]
    /\ tx' = [tx EXCEPT ![a] = [s \in Addr |-> NoKey]]
    /\ rx' = [rx EXCEPT ![a] = [s \in Addr |-> NoKey]]
    /\ linked' = [linked EXCEPT ![a] = [s \in Addr |-> FALSE]]

\* The key is whichever tx' holds: TLC need not enumerate Key.
Offer(a, s) ==
    /\ life[a] = "alive"
    /\ tx[a][s] = NoKey
    /\ tx'[a][s] \in Key
    /\ tx' = [tx EXCEPT ![a][s] = tx'[a][s]]
    /\ UNCHANGED <<life, rx, linked>>

Take(a, s) ==
    /\ life[a] = "alive"
    /\ tx[a][s] # NoKey
    /\ rx[a][s] = NoKey
    /\ rx'[a][s] \in Key
    /\ rx' = [rx EXCEPT ![a][s] = rx'[a][s]]
    /\ life[s] = "alive" => rx'[a][s] = tx[s][a]
    /\ UNCHANGED <<life, tx, linked>>

Link(a, s) ==
    /\ life[a] = "alive"
    /\ rx[a][s] # NoKey
    /\ life[s] = "alive" => rx[s][a] = tx[a][s]
    /\ linked' = [linked EXCEPT ![a][s] = TRUE]
    /\ UNCHANGED <<life, tx, rx>>

Next ==
    \/ \E a \in Addr : Born(a) \/ Die(a)
    \/ \E a, s \in Addr : Offer(a, s) \/ Take(a, s) \/ Link(a, s)

Spec == Init /\ [][Next]_vars
=============================================================================
