------------------------- MODULE ActivationContract -------------------------
(***************************************************************************)
(* What the adaptor promises about an operation, whatever requests, polls, *)
(* deliveries and purges overlap, fail or are evicted: it is accepted once *)
(* and on terms that never change, completes after that and stays          *)
(* completed, is announced to the receiver only once completed, and earns  *)
(* its receipt; when it is closed it never comes back.                     *)
(***************************************************************************)
EXTENDS Naturals

CONSTANTS
  Operations,
  Terms,      \* what an operation is accepted for; records with a hook
  None

VARIABLES
  phase,    \* of each operation
  terms,    \* what it was accepted for, None before and after
  receipt,  \* its webhook is done with
  sent,     \* deliveries made
  heard     \* the receiver has accepted one

contractVars == <<phase, terms, receipt, sent, heard>>

ContractInit ==
  /\ phase = [o \in Operations |-> "unknown"]
  /\ terms = [o \in Operations |-> None]
  /\ receipt = [o \in Operations |-> FALSE]
  /\ sent = [o \in Operations |-> 0]
  /\ heard = [o \in Operations |-> FALSE]

Accept(o, t) ==
  /\ phase[o] = "unknown"
  /\ phase' = [phase EXCEPT ![o] = "accepted"]
  /\ terms' = [terms EXCEPT ![o] = t]
  /\ UNCHANGED <<receipt, sent, heard>>

\* A request that fails before it is accepted gives its id up.
Forgo(o) ==
  /\ phase[o] = "unknown"
  /\ phase' = [phase EXCEPT ![o] = "closed"]
  /\ UNCHANGED <<terms, receipt, sent, heard>>

Complete(o) ==
  /\ phase[o] = "accepted"
  /\ phase' = [phase EXCEPT ![o] = "completed"]
  /\ UNCHANGED <<terms, receipt, sent, heard>>

\* A delivery that is under way may outlive its operation.
Send(o) ==
  /\ \/ phase[o] = "completed" /\ terms[o].hook = "https"
     \/ phase[o] = "closed"
  /\ sent' = [sent EXCEPT ![o] = @ + 1]
  /\ UNCHANGED <<phase, terms, receipt, heard>>

Hear(o) ==
  /\ sent[o] > 0
  /\ heard' = [heard EXCEPT ![o] = TRUE]
  /\ UNCHANGED <<phase, terms, receipt, sent>>

EarnReceipt(o) ==
  /\ phase[o] = "completed"
  /\ heard[o] \/ terms[o].hook = "invalid"
  /\ receipt' = [receipt EXCEPT ![o] = TRUE]
  /\ UNCHANGED <<phase, terms, sent, heard>>

\* Retention ends for several operations at a time.
Close(S) ==
  /\ \A o \in S : phase[o] \in {"accepted", "completed"}
  /\ phase' = [o \in Operations |-> IF o \in S THEN "closed" ELSE phase[o]]
  /\ terms' = [o \in Operations |-> IF o \in S THEN None ELSE terms[o]]
  /\ receipt' = [o \in Operations |-> IF o \in S THEN FALSE ELSE receipt[o]]
  /\ UNCHANGED <<sent, heard>>

ContractNext ==
  \/ \E o \in Operations :
       \/ \E t \in Terms : Accept(o, t)
       \/ Forgo(o) \/ Complete(o) \/ Send(o) \/ Hear(o) \/ EarnReceipt(o)
  \/ \E S \in SUBSET Operations : Close(S)

ContractSpec == ContractInit /\ [][ContractNext]_contractVars

=============================================================================
