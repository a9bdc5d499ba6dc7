---------------------------- MODULE Publication -----------------------------
(***************************************************************************)
(* What the deployment promises to those who use its file of addresses: it *)
(* names a deployment that is whole, by one run; nothing of a deployment   *)
(* is given to its new owner before the file names it; and the right to    *)
(* upgrade the proxies is given last, so that until then everything can be *)
(* put right by the deployer.                                              *)
(***************************************************************************)
EXTENDS Naturals

CONSTANTS
  Run,     \* the runs of the deployment
  Part,    \* the contracts of a deployment that have an owner
  Admin    \* the one that owns the proxies

VARIABLES
  whole,      \* the runs whose deployment is complete
  published,  \* the run the file of addresses names, 0 if there is no file
  given       \* the <<run, part>> that have the new owner

PublicationInit ==
  /\ whole = {}
  /\ published = 0
  /\ given = {}

Complete(r) ==
  /\ r \notin whole
  /\ whole' = whole \cup {r}
  /\ UNCHANGED <<published, given>>

Publish(r) ==
  /\ r \in whole
  /\ published' = r
  /\ UNCHANGED <<whole, given>>

Give(p) ==
  /\ published \in whole
  /\ <<published, p>> \notin given
  /\ p = Admin => \A q \in Part \ {Admin} : <<published, q>> \in given
  /\ given' = given \cup {<<published, p>>}
  /\ UNCHANGED <<whole, published>>

PublicationNext ==
  \/ \E r \in Run : Complete(r) \/ Publish(r)
  \/ \E p \in Part : Give(p)

PublicationSpec ==
  PublicationInit /\ [][PublicationNext]_<<whole, published, given>>
=============================================================================
