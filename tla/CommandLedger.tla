---------------------------- MODULE CommandLedger ----------------------------
(***************************************************************************)
(* What the downlink command service promises about one command, without   *)
(* its handlers, its sessions, its database or its in-memory map.          *)
(*                                                                         *)
(* A command is accepted once, may be handed to its device, may be         *)
(* resolved by a reported result, and goes away only together with other   *)
(* commands of the device that was deleted.  It never goes back: what was  *)
(* delivered is not pending again, what was resolved stays resolved.       *)
(***************************************************************************)
CONSTANT Cmds

VARIABLE phase

Phases == {"absent", "pending", "delivered", "resolved", "purged"}

LedgerTypeOK == phase \in [Cmds -> Phases]

LedgerInit == phase = [c \in Cmds |-> "absent"]

Accept(c) ==
  /\ phase[c] = "absent"
  /\ phase' = [phase EXCEPT ![c] = "pending"]

Deliver(c) ==
  /\ phase[c] = "pending"
  /\ phase' = [phase EXCEPT ![c] = "delivered"]

\* A result may arrive before the command is marked delivered: the sender's
\* response and the device's socket race with the marking.
Resolve(c) ==
  /\ phase[c] \in {"pending", "delivered"}
  /\ phase' = [phase EXCEPT ![c] = "resolved"]

\* Deleting a device removes a set of accepted commands in one step.
Purge(gone) ==
  /\ \A c \in gone : phase[c] # "absent"
  /\ phase' = [c \in Cmds |-> IF c \in gone THEN "purged" ELSE phase[c]]

LedgerNext ==
  \/ \E c \in Cmds : Accept(c) \/ Deliver(c) \/ Resolve(c)
  \/ \E gone \in SUBSET Cmds : Purge(gone)

LedgerSpec == LedgerInit /\ [][LedgerNext]_phase
-----------------------------------------------------------------------------
\* A command never goes back to an earlier phase: a resolved one is not pending
\* or delivered again, and one that was accepted is not forgotten.
Onward(c) ==
  /\ phase'[c] = "absent"    => phase[c] = "absent"
  /\ phase'[c] = "pending"   => phase[c] \in {"absent", "pending"}
  /\ phase'[c] = "delivered" => phase[c] \in {"pending", "delivered"}
  /\ phase'[c] = "resolved"  => phase[c] \in {"pending", "delivered", "resolved"}
  /\ phase[c] = "purged"     => phase'[c] = "purged"

NeverBack == [][\A c \in Cmds : Onward(c)]_phase
=============================================================================
