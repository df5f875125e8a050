----------------------------- MODULE RunLedger ------------------------------
(* What a crawl run promises: it owes every account it enumerated, settles  *)
(* each once, and is completed when it owes none; nothing is owed later.    *)
EXTENDS Naturals

CONSTANT Runs
VARIABLES stage, owed, settled

ledger == <<stage, owed, settled>>

Init ==
  /\ stage = [r \in Runs |-> "none"]
  /\ owed = [r \in Runs |-> 0]
  /\ settled = [r \in Runs |-> 0]

Start(r) ==
  /\ stage[r] = "none" /\ \A q \in Runs : stage[q] # "running"
  /\ stage' = [stage EXCEPT ![r] = "running"]
  /\ UNCHANGED <<owed, settled>>

\* A page of the listing adds accounts to a running run.
Owe(r) ==
  /\ stage[r] = "running"
  /\ owed'[r] > owed[r]
  /\ owed' = [owed EXCEPT ![r] = owed'[r]]
  /\ UNCHANGED <<stage, settled>>

\* A batch may settle accounts of several runs.
Settle ==
  /\ \A r \in Runs : /\ owed'[r] <= owed[r]
                     /\ owed'[r] + settled'[r] = owed[r] + settled[r]
  /\ UNCHANGED stage

Complete(r) ==
  /\ stage[r] = "running" /\ owed[r] = 0
  /\ stage' = [stage EXCEPT ![r] = "completed"]
  /\ UNCHANGED <<owed, settled>>

Next == Settle \/ \E r \in Runs : Start(r) \/ Owe(r) \/ Complete(r)

Spec == Init /\ [][Next]_ledger

=============================================================================
