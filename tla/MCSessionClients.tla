-------------------------- MODULE MCSessionClients --------------------------
(***************************************************************************)
(* A session with one more client than its jobs: a follower of its deltas, *)
(* one that asks for the values of cells, or one with a transaction.       *)
(***************************************************************************)
EXTENDS DeltaClient, TargetRequests, SessionTransactions, MCCalculationSession

CONSTANT u1

VARIABLE role  \* the client

(* What happens beside each client: a bound on the jobs at a time, on the  *)
(* cursor, and the batches.                                                *)
Beside ==
  [follows   |-> [jobs |-> 2, cursor |-> 5, batches |-> {"x2"}],
   asks      |-> [jobs |-> 2, cursor |-> 5, batches |-> {"x2"}],
   transacts |-> [jobs |-> 1, cursor |-> 3, batches |-> {"x2", "bf", "format"}]]

ClientsInit == ClientInit /\ TargetInit /\ TransactionInit /\ role \in DOMAIN Beside

(* Nothing more than that starts; what was started runs to its end.        *)
WithinBounds ==
  LET beside  == Beside[role]
      batches == {AllBatches[n] : n \in beside.batches}
  IN
  /\ Cardinality({j \in Job : jobs'[j] # Idle}) <= beside.jobs
  /\ \A j \in Job : jobs[j] = Idle =>
       /\ jobs'[j].kind = "edit" => jobs'[j].batch \in batches
       /\ jobs'[j].kind = "calc" => nextCursor < beside.cursor
  /\ \A t \in Transaction : transactions[t] = Absent /\ transactions'[t] # Absent =>
       transactions'[t].batch \in batches /\ nextCursor < beside.cursor

ClientsNext ==
  /\ \/ role = "transacts" /\ TransactionNext /\ UNCHANGED <<client, asked>>
     \/ role # "transacts" /\ Next /\ UNCHANGED <<client, asked, transactions>>
     \/ /\ role = "follows"
        /\ \E limit \in 1 .. MaxDeltaPage : Follow(limit)
        /\ UNCHANGED <<asked, transactions>>
     \/ role = "asks" /\ TargetNext /\ UNCHANGED <<client, transactions>>
  /\ WithinBounds
  /\ UNCHANGED role

ClientsSpec == ClientsInit /\ [][ClientsNext]_<<clientVars, asked, transactions, role>>
=============================================================================
