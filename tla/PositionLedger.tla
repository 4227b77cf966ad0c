--------------------------- MODULE PositionLedger ---------------------------
(***************************************************************************)
(* What an Aperture manager promises about the positions it keeps, whatever*)
(* the chain it runs on: a position is opened once and keeps the strategy  *)
(* it was opened for; an instruction from another chain is performed once  *)
(* and only on an open position; a token transfer pays for at most one     *)
(* instruction, and never before its tokens have arrived.                  *)
(***************************************************************************)

VARIABLES
  opened,      \* partial function: position key -> strategy id
  arrived,     \* transfers whose tokens the manager's chain has released
  paid,        \* partial function: performed instruction -> its transfers
  performed    \* partial function: performed instruction -> how many times

ledger == <<opened, arrived, paid, performed>>

Init ==
  /\ opened = [p \in {} |-> p]
  /\ arrived = {}
  /\ paid = [i \in {} |-> i]
  /\ performed = [i \in {} |-> i]

(* The transfers that have paid for something.                             *)
Spent == UNION {paid[i] : i \in DOMAIN paid}

(* Tokens may arrive at any time, with or without an instruction.          *)
Arrive ==
  /\ arrived \subseteq arrived'
  /\ UNCHANGED <<opened, paid, performed>>

(* Instruction i is performed for the first and only time, paid for by     *)
(* transfers nothing else used.                                            *)
Pay(i) ==
  /\ i \notin DOMAIN paid
  /\ DOMAIN performed' = DOMAIN performed \cup {i}
  /\ performed'[i] = 1
  /\ \A j \in DOMAIN performed : performed'[j] = performed[j]
  /\ DOMAIN paid' = DOMAIN paid \cup {i}
  /\ \A j \in DOMAIN paid : paid'[j] = paid[j]
  /\ paid'[i] \cap Spent = {}
  /\ paid'[i] \subseteq arrived'
  /\ arrived \subseteq arrived'

(* A local request needs no instruction and no transfer.                   *)
Local == UNCHANGED <<arrived, paid, performed>>

Open(p) ==
  /\ p \notin DOMAIN opened
  /\ DOMAIN opened' = DOMAIN opened \cup {p}
  /\ \A q \in DOMAIN opened : opened'[q] = opened[q]
  /\ Local \/ \E i \in DOMAIN paid' : Pay(i)

Act ==
  /\ DOMAIN opened # {}
  /\ UNCHANGED opened
  /\ \E i \in DOMAIN paid' : Pay(i)

Next == Arrive \/ (\E p \in DOMAIN opened' : Open(p)) \/ Act

Spec == Init /\ [][Next]_ledger

=============================================================================
