--------------------------- MODULE TransferLedger ---------------------------
(***************************************************************************)
(* What an AptpRpcServer promises its peer, whatever the interleaving of   *)
(* the calls: a ledger.  A session is an account, a packet that enters the *)
(* PacketSink is a deposit, ack = true is the credit of one deposit to one *)
(* account, and the receivedCount of finalize is the account's statement.  *)
(***************************************************************************)
EXTENDS Naturals, Sequences, SequencesExt, FiniteSets

CONSTANTS Accounts, Items

VARIABLES
  status,    \* [Accounts -> {"new", "open", "closed"}]
  deposits,  \* the items delivered, oldest first
  credit,    \* the account an item was credited to: a set of at most one
  statement  \* the count an account was settled for: a set of at most one

vars == <<status, deposits, credit, statement>>

CreditedTo(a) == {i \in Items : credit[i] = {a}}

Init ==
  /\ status = [a \in Accounts |-> "new"]
  /\ deposits = <<>>
  /\ credit = [i \in Items |-> {}]
  /\ statement = [a \in Accounts |-> {}]

OpenAccount(a) ==
  /\ status[a] = "new"
  /\ status' = [status EXCEPT ![a] = "open"]
  /\ UNCHANGED <<deposits, credit, statement>>

\* Delivery asks nothing of an account: stream.rs sends before it looks one up.
Deposit(i) ==
  /\ i \notin Range(deposits)
  /\ deposits' = Append(deposits, i)
  /\ UNCHANGED <<status, credit, statement>>

Credit(i, a) ==
  /\ i \in Range(deposits)
  /\ credit[i] = {}
  /\ status[a] = "open"
  /\ credit' = [credit EXCEPT ![i] = {a}]
  /\ UNCHANGED <<status, deposits, statement>>

Settle(a) ==
  /\ status[a] = "open"
  /\ status' = [status EXCEPT ![a] = "closed"]
  /\ statement' = [statement EXCEPT ![a] = {Cardinality(CreditedTo(a))}]
  /\ UNCHANGED <<deposits, credit>>

\* The connection is lost: the open accounts close without a statement.
VoidAll ==
  /\ status' = [a \in Accounts |-> IF status[a] = "open" THEN "closed" ELSE status[a]]
  /\ UNCHANGED <<deposits, credit, statement>>

Next ==
  \/ \E a \in Accounts : OpenAccount(a) \/ Settle(a)
  \/ \E i \in Items : Deposit(i)
  \/ \E i \in Items, a \in Accounts : Credit(i, a)
  \/ VoidAll

Spec == Init /\ [][Next]_vars
=============================================================================
