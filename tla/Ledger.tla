------------------------------- MODULE Ledger -------------------------------
(***************************************************************************)
(* What the outbox promises of each notification, whoever emits it and     *)
(* however many dispatchers work on it: it is recorded once, attempted at  *)
(* most MaxAttempts times on record, and settled for good.  Outbox         *)
(* implements this specification.                                          *)
(***************************************************************************)
EXTENDS Naturals

CONSTANTS
    Key,            \* idempotency keys; each names one event and its EMAIL delivery
    MaxAttempts     \* NOTIFICATION_MAX_ATTEMPTS

VARIABLE ledger     \* key -> [status, attempts]

DeliveryStatus == {"PENDING", "SENT", "FAILED", "SKIPPED"}
Gone == {"NONE", "DELETED"}     \* not recorded yet; cascaded away with the recipient
Entry == [status : DeliveryStatus \cup Gone, attempts : 0..MaxAttempts]

Recorded(old, new) ==
    old.status = "NONE" /\ new.status \in {"PENDING", "SKIPPED"} /\ new.attempts = 0

\* One attempt: it settles the notification, or leaves it pending with attempts left.
Attempted(old, new) ==
    /\ old.status = "PENDING"
    /\ new.attempts = old.attempts + 1
    /\ \/ new.status \in {"SENT", "FAILED"}
       \/ new.status = "PENDING" /\ new.attempts < MaxAttempts

Forgotten(old, new) ==
    old.status # "NONE" /\ new.status = "DELETED" /\ new.attempts = old.attempts

\* A batch moves several notifications in one transaction.
LedgerNext ==
    /\ ledger' \in [Key -> Entry]
    /\ \A k \in Key :
          \/ ledger'[k] = ledger[k]
          \/ Recorded(ledger[k], ledger'[k])
          \/ Attempted(ledger[k], ledger'[k])
          \/ Forgotten(ledger[k], ledger'[k])

LedgerInit == ledger = [k \in Key |-> [status |-> "NONE", attempts |-> 0]]

LedgerSpec == LedgerInit /\ [][LedgerNext]_ledger
=============================================================================
