----------------------------- MODULE OrderLedger -----------------------------
(***************************************************************************)
(* What the order service promises about the database, whatever happens to *)
(* the process that serves it: an order row appears as running, is settled *)
(* at most once, and the owner pays exactly the cost that the settled      *)
(* record states, in the same step.  The detailed module OrderLifecycle    *)
(* (manager, workers, handlers, faults, crashes) implements this one.      *)
(***************************************************************************)
EXTENDS Integers, FiniteSets

CONSTANTS
  Orders,          \* the ids that AllocateOrder may draw
  Users,           \* account ids
  Owner,           \* orders.user_id of each id
  Costs,           \* what a finished process may cost, in whole currency units
  InitialBalance   \* accounts.balance before the first order

\* OrderLifecycle, which gives these constants their values, states what is
\* assumed of them.
VARIABLES
  phase,    \* order id -> "none", "running" or "settled"
  paid,     \* order id -> the cost stated by its record, 0 while there is none
  balance   \* user -> accounts.balance

vars == <<phase, paid, balance>>

TypeOK ==
  /\ phase \in [Orders -> {"none", "running", "settled"}]
  /\ paid \in [Orders -> Nat]
  /\ balance \in [Users -> Int]

Init ==
  /\ phase = [o \in Orders |-> "none"]
  /\ paid = [o \in Orders |-> 0]
  /\ balance = [u \in Users |-> InitialBalance]

\* A row is inserted for a new id.
Open(o) ==
  /\ phase[o] = "none"
  /\ phase' = [phase EXCEPT ![o] = "running"]
  /\ UNCHANGED <<paid, balance>>

\* The process ran: its cost is recorded and charged in one transaction.
Settle(o) ==
  \E c \in Costs :
    /\ phase[o] = "running"
    /\ phase' = [phase EXCEPT ![o] = "settled"]
    /\ paid' = [paid EXCEPT ![o] = c]
    /\ balance' = [balance EXCEPT ![Owner[o]] = @ - c]

\* Orders that failed are settled at no cost, one by one or all at restart.
WriteOff(S) ==
  /\ \A o \in S : phase[o] = "running"
  /\ phase' = [o \in Orders |-> IF o \in S THEN "settled" ELSE phase[o]]
  /\ UNCHANGED <<paid, balance>>

Next ==
  \/ \E o \in Orders : Open(o) \/ Settle(o)
  \/ \E S \in SUBSET Orders : WriteOff(S)

Spec == Init /\ [][Next]_vars
=============================================================================
