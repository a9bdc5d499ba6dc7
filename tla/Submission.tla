----------------------------- MODULE Submission -----------------------------
(***************************************************************************)
(* How the scripts put transactions on the chain (RetryProvider.ts and     *)
(* NotionalDeployer.txMined).  A script is run by a person, one run after  *)
(* another.  A run sends a transaction, waits for its receipt and its      *)
(* confirmations, and only then sends the next.  It ends at its last step, *)
(* at the first error, or when somebody stops it, and it keeps nothing in  *)
(* memory: what it sent before stays in the node's pool, and is mined in   *)
(* the order of the nonces of its wallet, possibly during a later run.     *)
(*                                                                         *)
(* Deployment and Upgrade say which calls a run makes and what each does.  *)
(***************************************************************************)
EXTENDS Naturals

CONSTANTS
  Call,      \* the transactions a script sends
  NoCall,    \* no transaction
  Wallet,    \* the keys a run can be given
  MaxRuns,   \* bound: how often a script is started
  Attempts   \* RetryProvider.attempts

ASSUME RunsAssumption == MaxRuns \in Nat
ASSUME AttemptsAssumption == Attempts \in Nat \ {0}
ASSUME CallAssumption == NoCall \notin Call

Run == 1..MaxRuns

VARIABLES
  wallet,    \* the key of each run
  run,       \* the last run that was started
  phase,     \* what that run is doing
  tries,     \* how often its current request was refused with status 429
  pending,   \* the transaction of each run that is sent and not mined
  acted      \* the runs that have had a transaction mined (history, for proofs)

submission == <<wallet, run, phase, tries, pending, acted>>

Phase == {"down", "ready", "waiting", "mined", "reverted"}

TypeOK ==
  /\ wallet \in [Run -> Wallet]
  /\ run \in 0..MaxRuns
  /\ phase \in Phase
  /\ phase # "down" => run \in Run
  /\ tries \in 0..(Attempts - 1)
  /\ pending \in [Run -> Call \cup {NoCall}]
  /\ acted \subseteq 1..run

SubmissionInit ==
  /\ wallet \in [Run -> Wallet]
  /\ run = 0
  /\ phase = "down"
  /\ tries = 0
  /\ pending = [r \in Run |-> NoCall]
  /\ acted = {}
-----------------------------------------------------------------------------
\* Somebody runs the script.  One is not started while another is running.
Start ==
  /\ phase = "down"
  /\ run < MaxRuns
  /\ run' = run + 1
  /\ phase' = "ready"
  /\ UNCHANGED <<wallet, tries, pending, acted>>

\* Mutant: the attempts are not bounded (counted modulo, to stay finite).
LimitedForever ==
  /\ phase = "ready"
  /\ tries' = (tries + 1) % Attempts
  /\ UNCHANGED <<wallet, run, phase, pending, acted>>

\* Mutant: one attempt too many.
LimitedOnceMore ==
  /\ phase = "ready"
  /\ tries < Attempts
  /\ tries' = tries + 1
  /\ UNCHANGED <<wallet, run, phase, pending, acted>>

\* The node refuses a request with status 429 and the provider asks again.
Limited ==
  /\ phase = "ready"
  /\ tries + 1 < Attempts
  /\ tries' = tries + 1
  /\ UNCHANGED <<wallet, run, phase, pending, acted>>

\* A step of the script that sends no transaction.
Proceed ==
  /\ phase = "ready"
  /\ tries' = 0
  /\ UNCHANGED <<wallet, run, phase, pending, acted>>

\* The node takes a transaction; the script waits for it.
Send(c) ==
  /\ phase = "ready"
  /\ phase' = "waiting"
  /\ tries' = 0
  /\ pending' = [pending EXCEPT ![run] = c]
  /\ UNCHANGED <<wallet, run, acted>>

\* The node takes a transaction but the answer is lost: the script sees an
\* error that is not a 429.
ReplyLost(c) ==
  /\ phase = "ready"
  /\ phase' = "down"
  /\ tries' = 0
  /\ pending' = [pending EXCEPT ![run] = c]
  /\ UNCHANGED <<wallet, run, acted>>

\* Another error, or the last attempt refused: main() rejects, exit(1).
\* Also the end of main().
Exit ==
  /\ phase = "ready"
  /\ phase' = "down"
  /\ tries' = 0
  /\ UNCHANGED <<wallet, run, pending, acted>>

\* The process is stopped while it waits.
Interrupt ==
  /\ phase \in {"waiting", "mined"}
  /\ phase' = "down"
  /\ UNCHANGED <<wallet, run, tries, pending, acted>>

\* The transaction of run r is next by its wallet's nonce, and is mined; it
\* takes effect or reverts.
Mine(r, succeeds) ==
  /\ pending[r] # NoCall
  /\ \A q \in Run : q < r /\ wallet[q] = wallet[r] => pending[q] = NoCall
  /\ pending' = [pending EXCEPT ![r] = NoCall]
  /\ acted' = acted \cup {r}
  /\ phase' = IF r # run \/ phase = "down" THEN phase
              ELSE IF succeeds THEN "mined" ELSE "reverted"
  /\ UNCHANGED <<wallet, run, tries>>

\* The receipt has its confirmations: wait() resolves.
Confirm ==
  /\ phase = "mined"
  /\ phase' = "ready"
  /\ UNCHANGED <<wallet, run, tries, pending, acted>>

\* The receipt says that the transaction reverted: wait() rejects.
Refused ==
  /\ phase = "reverted"
  /\ phase' = "down"
  /\ UNCHANGED <<wallet, run, tries, pending, acted>>

SubmissionNext ==
  \/ Start \/ Limited \/ Proceed \/ Exit \/ Interrupt \/ Confirm \/ Refused
  \/ \E c \in Call : Send(c) \/ ReplyLost(c)
  \/ \E r \in Run, succeeds \in BOOLEAN : Mine(r, succeeds)

SubmissionSpec == SubmissionInit /\ [][SubmissionNext]_submission
-----------------------------------------------------------------------------
\* A run that goes on has none of its own transactions outstanding: what it
\* reads from the chain is what all its earlier calls left there.
Settled == phase \in {"ready", "mined", "reverted"} => pending[run] = NoCall

\* A script ends, whatever the node answers, once the chain mines what it is
\* sent.
RunEnds == phase # "down" ~> phase = "down"
=============================================================================
