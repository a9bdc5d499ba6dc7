-------------------------- MODULE SubmissionProofs --------------------------
(***************************************************************************)
(* What every script may rely on, whatever it sends and however often it   *)
(* dies: for any number of runs, wallets, calls and attempts.              *)
(***************************************************************************)
EXTENDS Submission, TLAPS

\* A run that has not been started has sent nothing.
Future == \A r \in Run : r > run => pending[r] = NoCall

\* What the chain's order of nonces, which Mine has as its guard, means for
\* the runs: once one has had a transaction mined, nothing that an earlier
\* run of its wallet sent is still waiting.
NoncesInOrder ==
  \A r \in acted, q \in Run :
    q < r /\ wallet[q] = wallet[r] => pending[q] = NoCall

\* The invariant the others follow from.  NoncesInOrder is inductive only
\* with Future: a call is sent by the last run, and no later run has acted.
SubmissionInv == TypeOK /\ Settled /\ Future /\ NoncesInOrder

\* The invariant holds at the start: nothing is sent.
LEMMA SubmissionStart == SubmissionInit => SubmissionInv
BY RunsAssumption, AttemptsAssumption
   DEF SubmissionInit, SubmissionInv, TypeOK, Settled, Future, NoncesInOrder, Run,
       Phase

\* A call is sent by the last run, which no run that acted comes after.
LEMMA SendingKeeps ==
  ASSUME SubmissionInv, phase = "ready", NEW c \in Call,
         pending' = [pending EXCEPT ![run] = c],
         phase' \in {"waiting", "down"}, tries' = 0,
         UNCHANGED <<wallet, run, acted>>
  PROVE  SubmissionInv'
<1>1. run \in Run
  BY DEF SubmissionInv, TypeOK
<1>2. TypeOK'
  BY <1>1, AttemptsAssumption DEF SubmissionInv, TypeOK, Phase
<1>3. Settled'
  BY DEF Settled
<1>4. Future'
  BY <1>1, RunsAssumption DEF SubmissionInv, TypeOK, Future, Run
<1>5. NoncesInOrder'
  <2> SUFFICES ASSUME NEW r \in acted, NEW q \in Run, q < r,
                      wallet[q] = wallet[r]
               PROVE  pending'[q] = NoCall
    BY DEF NoncesInOrder
  <2>1. r \in 1..run
    BY DEF SubmissionInv, TypeOK
  <2>2. q # run
    BY <2>1, RunsAssumption DEF Run, SubmissionInv, TypeOK
  <2>3. pending[q] = NoCall
    BY DEF SubmissionInv, NoncesInOrder
  <2> QED BY <2>2, <2>3 DEF SubmissionInv, TypeOK
<1> QED BY <1>2, <1>3, <1>4, <1>5 DEF SubmissionInv

\* A transaction is mined when those before it of its wallet are.
LEMMA MiningKeeps ==
  ASSUME SubmissionInv, NEW r \in Run, NEW succeeds \in BOOLEAN,
         Mine(r, succeeds)
  PROVE  SubmissionInv'
<1> USE DEF Mine
<1>1. r \in 1..run
  BY RunsAssumption DEF SubmissionInv, TypeOK, Future, Run
<1>2. TypeOK'
  BY <1>1, RunsAssumption DEF SubmissionInv, TypeOK, Phase, Run
<1>3. Settled'
  <2>1. CASE r = run /\ phase # "down"
    BY <2>1, <1>1 DEF SubmissionInv, TypeOK, Settled
  <2>2. CASE r # run \/ phase = "down"
    BY <2>2, <1>1, RunsAssumption DEF SubmissionInv, TypeOK, Settled, Run
  <2> QED BY <2>1, <2>2
<1>4. Future'
  BY DEF SubmissionInv, TypeOK, Future
<1>5. NoncesInOrder'
  <2> SUFFICES ASSUME NEW p \in acted', NEW q \in Run, q < p,
                      wallet[q] = wallet[p]
               PROVE  pending'[q] = NoCall
    BY DEF NoncesInOrder
  <2>1. CASE p = r
    BY <2>1 DEF SubmissionInv, TypeOK
  <2>2. CASE p \in acted
    BY <2>2 DEF SubmissionInv, TypeOK, NoncesInOrder
  <2> QED BY <2>1, <2>2
<1> QED BY <1>2, <1>3, <1>4, <1>5 DEF SubmissionInv

\* Every step keeps the invariant.
LEMMA SubmissionStep ==
  SubmissionInv /\ [SubmissionNext]_submission => SubmissionInv'
<1> SUFFICES ASSUME SubmissionInv, [SubmissionNext]_submission
             PROVE  SubmissionInv'
  OBVIOUS
<1> USE DEF SubmissionInv
<1>1. CASE Start
  <2>1. run' \in Run /\ run < run'
    BY <1>1, RunsAssumption DEF Start, TypeOK, Run
  <2>2. TypeOK'
    BY <1>1, <2>1, RunsAssumption DEF Start, TypeOK, Phase, Run
  <2>3. Settled'
    BY <1>1, <2>1 DEF Start, Settled, Future
  <2>4. Future'
    BY <1>1, <2>1, RunsAssumption DEF Start, Future, Run, TypeOK
  <2> QED BY <1>1, <2>2, <2>3, <2>4 DEF Start, NoncesInOrder
<1>2. CASE Limited
  BY <1>2, AttemptsAssumption
     DEF Limited, TypeOK, Settled, Future, NoncesInOrder
<1>3. CASE Proceed
  BY <1>3, AttemptsAssumption
     DEF Proceed, TypeOK, Settled, Future, NoncesInOrder
<1>4. CASE Exit
  BY <1>4, AttemptsAssumption
     DEF Exit, TypeOK, Phase, Settled, Future, NoncesInOrder
<1>5. CASE Interrupt
  BY <1>5 DEF Interrupt, TypeOK, Phase, Settled, Future, NoncesInOrder
<1>6. CASE Confirm
  BY <1>6 DEF Confirm, TypeOK, Phase, Settled, Future, NoncesInOrder
<1>7. CASE Refused
  BY <1>7 DEF Refused, TypeOK, Phase, Settled, Future, NoncesInOrder
<1>8. CASE \E c \in Call : Send(c) \/ ReplyLost(c)
  BY <1>8, SendingKeeps DEF Send, ReplyLost
<1>9. CASE \E r \in Run, succeeds \in BOOLEAN : Mine(r, succeeds)
  BY <1>9, MiningKeeps
<1>10. CASE UNCHANGED submission
  BY <1>10 DEF submission, TypeOK, Settled, Future, NoncesInOrder
<1> QED
  BY <1>1, <1>2, <1>3, <1>4, <1>5, <1>6, <1>7, <1>8, <1>9, <1>10
     DEF SubmissionNext

\* The invariant of txMined and RetryProvider, for every script built on
\* them.
THEOREM SubmissionInvariance == SubmissionSpec => []SubmissionInv
BY SubmissionStart, SubmissionStep, PTL DEF SubmissionSpec

\* A run goes on only when all it sent is mined, so what it reads next from
\* the chain includes the effects of its own calls (txMined).
THEOREM AlwaysSettled == SubmissionSpec => []Settled
<1>1. SubmissionInv => Settled
  BY DEF SubmissionInv
<1> QED BY <1>1, SubmissionInvariance, PTL
=============================================================================
