----------------------------- MODULE InviteQueue -----------------------------
(***************************************************************************)
(* What invites promise: each is delivered at most once, to its receiver,  *)
(* in the order in which they were sent.                                   *)
(***************************************************************************)
EXTENDS Naturals

CONSTANT Accounts

VARIABLES
  sent,     \* number of invites sent so far
  pending   \* those that wait, numbered in the order they were sent

QueueInit == sent = 0 /\ pending = {}

Send(sender, receiver) ==
  /\ sent' = sent + 1
  /\ pending' = pending \union
                  {[number |-> sent + 1, sender |-> sender, receiver |-> receiver]}

Deliver(invite) ==
  /\ \A other \in pending :
       other.receiver = invite.receiver => invite.number <= other.number
  /\ pending' = pending \ {invite}
  /\ UNCHANGED sent

QueueNext ==
  \/ \E sender, receiver \in Accounts : Send(sender, receiver)
  \/ \E invite \in pending : Deliver(invite)

QueueSpec == QueueInit /\ [][QueueNext]_<<sent, pending>>
=============================================================================
