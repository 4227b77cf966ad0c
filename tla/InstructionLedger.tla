------------------------- MODULE InstructionLedger -------------------------
(***************************************************************************)
(* What every Aperture manager promises about the instructions it receives *)
(* from other chains, on any chain and whatever the instruction asks for:  *)
(* it is performed once, and paid for by token transfers of its own that   *)
(* have arrived.  PositionLedger adds what a manager that keeps positions  *)
(* promises about them.                                                    *)
(***************************************************************************)

VARIABLES
  arrived,     \* transfers whose tokens the manager's chain has released
  paid,        \* partial function: performed instruction -> its transfers
  performed    \* partial function: performed instruction -> how many times

ledger == <<arrived, paid, performed>>

Init ==
  /\ arrived = {}
  /\ paid = [i \in {} |-> i]
  /\ performed = [i \in {} |-> i]

Spent == UNION {paid[i] : i \in DOMAIN paid}

Arrive ==
  /\ arrived \subseteq arrived'
  /\ UNCHANGED <<paid, performed>>

(* Instruction i is performed for the first and only time, paid for by     *)
(* transfers nothing else used.                                            *)
Pay(i) ==
  /\ i \notin DOMAIN paid
  /\ DOMAIN performed' = DOMAIN performed \cup {i}
  /\ performed'[i] = 1
  /\ \A j \in DOMAIN performed : performed'[j] = performed[j]
  /\ DOMAIN paid' = DOMAIN paid \cup {i}
  /\ \A j \in DOMAIN paid : paid'[j] = paid[j]
  /\ paid'[i] \cap Spent = {}
  /\ paid'[i] \subseteq arrived'
  /\ arrived \subseteq arrived'

Next == Arrive \/ \E i \in DOMAIN paid' : Pay(i)

Spec == Init /\ [][Next]_ledger

=============================================================================
