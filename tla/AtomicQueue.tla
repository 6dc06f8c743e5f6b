----------------------------- MODULE AtomicQueue -----------------------------
(***************************************************************************)
(* What the PostgreSQL queue promises, without transactions, locks, clocks *)
(* or sessions: one job at a time goes from pending to a single claimant   *)
(* and from its claimant to completed, each in one indivisible step.       *)
(***************************************************************************)
CONSTANTS Names,    \* rows: workspace and job
          Claimants \* who may claim

VARIABLE table      \* [row -> its state and its owner]

AtomicInit == table = [r \in Names |-> [state |-> "absent", owner |-> "none"]]

Enqueue(r) ==
    /\ table[r].state = "absent"
    /\ table' = [table EXCEPT ![r].state = "pending"]

Claim(c, r) ==
    /\ table[r].state = "pending"
    /\ table' = [table EXCEPT ![r] = [state |-> "claimed", owner |-> c]]

Complete(c, r) ==
    /\ table[r] = [state |-> "claimed", owner |-> c]
    /\ table' = [table EXCEPT ![r] = [state |-> "completed", owner |-> "none"]]

AtomicNext ==
    \E r \in Names : Enqueue(r) \/ \E c \in Claimants : Claim(c, r) \/ Complete(c, r)

AtomicSpec == AtomicInit /\ [][AtomicNext]_table
=============================================================================
