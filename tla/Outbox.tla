------------------------------- MODULE Outbox -------------------------------
(***************************************************************************)
(* The outbox of notifications: emit() (app/services/                      *)
(* notification_service.py) records an event and its delivery; dispatchers *)
(* (notification_dispatcher.py) claim the deliveries that are due, call    *)
(* the provider for each and write all results in one transaction.         *)
(*                                                                         *)
(* The database is PostgreSQL: a claim is SELECT ... FOR UPDATE SKIP       *)
(* LOCKED.  Every event type has one channel, EMAIL, so an event and its   *)
(* delivery are one row here.  Time is relative: a row keeps how long it   *)
(* has to wait, a batch how long ago it read the clock.                    *)
(***************************************************************************)
EXTENDS Naturals, FiniteSets

CONSTANTS
    Key, User, Category,
    RecipientOf, CategoryOf,     \* of a key
    Mandatory,                   \* categories that cannot be opted out of
    Emitter,                     \* calls of emit() that can run at once
    Dispatcher,                  \* worker loops and test requests
    Worker,                      \* those that are worker loops
    NoKey,
    MaxAttempts, BatchSize, BackoffUnit,
    MaxFaults                    \* bound: batches that die and answers that are lost

ASSUME OutboxConstants ==
    /\ RecipientOf \in [Key -> User]
    /\ CategoryOf \in [Key -> Category]
    /\ Mandatory \subseteq Category
    /\ Worker \subseteq Dispatcher
    /\ NoKey \notin Key
    /\ MaxAttempts \in Nat \ {0} /\ BatchSize \in Nat \ {0}
    /\ BackoffUnit \in Nat /\ MaxFaults \in Nat

VARIABLES
    users,       \* the users that exist
    optOut,      \* <<user, category>> with a preference row that says disabled
    rows,        \* key -> [status, attempts, wait]: event and delivery rows
    emits,       \* emitter -> the row it is about to insert
    batches,     \* dispatcher -> its transaction: rows as it sees them, keys still to try
    calls,       \* key -> how often the provider was called for it
    accepted,    \* key -> how often the provider took the message
    aborts,      \* how many batches have died before their commit
    timeouts     \* how many calls have timed out after the provider took the message

vars == <<users, optOut, rows, emits, batches, calls, accepted, aborts, timeouts>>

-----------------------------------------------------------------------------
DeliveryStatus == {"PENDING", "SENT", "FAILED", "SKIPPED"}

\* BackoffUnit * 2 ^ n
Doubled[n \in Nat] == IF n = 0 THEN BackoffUnit ELSE 2 * Doubled[n - 1]
\* compute_backoff
Backoff(attempts) == Doubled[IF attempts > 1 THEN attempts - 1 ELSE 0]
LongestWait == Backoff(MaxAttempts)
Less(n, m) == IF n > m THEN n - m ELSE 0

Row == [status : DeliveryStatus \cup {"NONE", "DELETED"},
        attempts : 0..MaxAttempts, wait : 0..LongestWait]
Absent == [status |-> "NONE", attempts |-> 0, wait |-> 0]

Batch == [rows : UNION {[S -> Row] : S \in SUBSET Key}, todo : SUBSET Key,
          age : 0..LongestWait]
NoBatch == [rows |-> <<>>, todo |-> {}, age |-> 0]
Claimed(d) == DOMAIN batches[d].rows
Locked(k) == \E d \in Dispatcher : k \in Claimed(d)
Idle(d) == Claimed(d) = {}

NoEmit == [key |-> NoKey, status |-> "NONE"]

Init ==
    /\ users = User
    /\ optOut = {}
    /\ rows = [k \in Key |-> Absent]
    /\ emits = [e \in Emitter |-> NoEmit]
    /\ batches = [d \in Dispatcher |-> NoBatch]
    /\ calls = [k \in Key |-> 0]
    /\ accepted = [k \in Key |-> 0]
    /\ aborts = 0 /\ timeouts = 0

-----------------------------------------------------------------------------
(* emit() *)

\* resolve_channels: a mandatory category ignores the preference.
Resolved(k) ==
    IF CategoryOf[k] \notin Mandatory /\ <<RecipientOf[k], CategoryOf[k]>> \in optOut
      THEN "SKIPPED" ELSE "PENDING"

\* The key is new, the recipient exists, and the channels are resolved.
EmitLookup(e, k) ==
    /\ emits[e] = NoEmit
    /\ rows[k].status = "NONE"
    /\ RecipientOf[k] \in users
    /\ emits' = [emits EXCEPT ![e] = [key |-> k, status |-> Resolved(k)]]
    /\ UNCHANGED <<users, optOut, rows, batches, calls, accepted, aborts, timeouts>>

\* A mutant: the key is not unique, so the second INSERT replaces the first.
InsertableTwice(k) == RecipientOf[k] \in users

\* uq_notification_events_idempotency_key, and the recipient's foreign key.
Insertable(k) == rows[k].status = "NONE" /\ RecipientOf[k] \in users

EmitCommit(e) ==
    /\ emits[e] # NoEmit
    /\ Insertable(emits[e].key)
    /\ rows' = [rows EXCEPT ![emits[e].key] =
                  [status |-> emits[e].status, attempts |-> 0, wait |-> 0]]
    /\ emits' = [emits EXCEPT ![e] = NoEmit]
    /\ UNCHANGED <<users, optOut, batches, calls, accepted, aborts, timeouts>>

\* An IntegrityError or any other exception: suppressed, nothing is recorded.
EmitFails(e) ==
    /\ emits[e] # NoEmit
    /\ emits' = [emits EXCEPT ![e] = NoEmit]
    /\ UNCHANGED <<users, optOut, rows, batches, calls, accepted, aborts, timeouts>>

-----------------------------------------------------------------------------
(* A dispatcher's batch. *)

\* Mutants: locks are ignored; the last attempt is never made.
DueLocked == {k \in Key : rows[k].status = "PENDING" /\ rows[k].wait = 0}
DueTooFew ==
    {k \in Key : /\ rows[k].status = "PENDING" /\ rows[k].wait = 0 /\ ~Locked(k)
                 /\ rows[k].attempts + 1 < MaxAttempts}
\* The rows a claim can take: PENDING, due, and locked by nobody else.
Due == {k \in Key : rows[k].status = "PENDING" /\ rows[k].wait = 0 /\ ~Locked(k)}

\* claim_due_deliveries: at most BatchSize rows.  Which ones, when more are due, is left
\* open (the ORDER BY prefers those that have been due for longest).
Claim(d) ==
    /\ Idle(d)
    /\ \E S \in SUBSET Due :
          /\ S # {} /\ Cardinality(S) <= BatchSize
          /\ S = Due \/ Cardinality(S) = BatchSize
          /\ batches' = [batches EXCEPT ![d] =
                [rows |-> [k \in S |-> rows[k]], todo |-> S, age |-> 0]]
    /\ UNCHANGED <<users, optOut, rows, emits, calls, accepted, aborts, timeouts>>

\* A mutant: one attempt too many.
RetryOnceMore(row, age) ==
    LET attempts == row.attempts + 1 IN
    IF attempts > MaxAttempts
      THEN [status |-> "FAILED", attempts |-> attempts, wait |-> 0]
      ELSE [status |-> "PENDING", attempts |-> attempts, wait |-> Less(Backoff(attempts), age)]
\* A transient or unexpected error: again after the backoff, until no attempt is left.
\* next_attempt_at counts from the clock the batch read when it started.
Retry(row, age) ==
    LET attempts == row.attempts + 1 IN
    IF attempts >= MaxAttempts
      THEN [status |-> "FAILED", attempts |-> attempts, wait |-> 0]
      ELSE [status |-> "PENDING", attempts |-> attempts, wait |-> Less(Backoff(attempts), age)]

Settled(row, status) == [status |-> status, attempts |-> row.attempts + 1, wait |-> 0]

\* What can come of an attempt: the provider's answer, or "unsendable": no destination,
\* or the template does not render.  A provider that times out is "transient" if it did
\* not take the message, and "unanswered" if it did.
Outcome == {"accepted", "transient", "permanent", "unanswered", "unsendable"}
Taken == {"accepted", "unanswered"}

\* _attempt, on the session's copy of the row.
Attempt(d, k, outcome) ==
    /\ k \in batches[d].todo
    /\ LET row == batches[d].rows[k]
           new == CASE outcome = "accepted" -> Settled(row, "SENT")
                    [] outcome \in {"transient", "unanswered"} -> Retry(row, batches[d].age)
                    [] outcome \in {"permanent", "unsendable"} -> Settled(row, "FAILED")
       IN  batches' = [batches EXCEPT ![d].rows[k] = new, ![d].todo = @ \ {k}]
    /\ calls' = [calls EXCEPT ![k] = @ + IF outcome = "unsendable" THEN 0 ELSE 1]
    /\ accepted' = [accepted EXCEPT ![k] = @ + IF outcome \in Taken THEN 1 ELSE 0]
    /\ outcome = "unanswered" => aborts + timeouts < MaxFaults
    /\ timeouts' = IF outcome = "unanswered" THEN timeouts + 1 ELSE timeouts
    /\ UNCHANGED <<users, optOut, rows, emits, aborts>>

\* The end of session_scope: everything the batch did is written at once.
Commit(d) ==
    /\ ~Idle(d) /\ batches[d].todo = {}
    /\ rows' = [k \in Key |-> IF k \in Claimed(d) THEN batches[d].rows[k] ELSE rows[k]]
    /\ batches' = [batches EXCEPT ![d] = NoBatch]
    /\ UNCHANGED <<users, optOut, emits, calls, accepted, aborts, timeouts>>

\* The process dies or the database fails: the batch is rolled back and its locks are
\* released; what the provider has taken stays taken.
Abort(d) ==
    /\ ~Idle(d) /\ aborts + timeouts < MaxFaults
    /\ aborts' = aborts + 1
    /\ batches' = [batches EXCEPT ![d] = NoBatch]
    /\ UNCHANGED <<users, optOut, rows, emits, calls, accepted, timeouts>>

-----------------------------------------------------------------------------
(* The rest of the system. *)

\* update_my_preferences, one entry.
UpdatePreference(u, category, enabled) ==
    /\ u \in users
    /\ enabled \/ category \notin Mandatory
    /\ optOut' = IF enabled THEN optOut \ {<<u, category>>} ELSE optOut \cup {<<u, category>>}
    /\ UNCHANGED <<users, rows, emits, batches, calls, accepted, aborts, timeouts>>

\* ON DELETE CASCADE takes the user's events, deliveries and preferences along; it
\* waits for the rows a batch has locked.
DeleteUser(u) ==
    /\ u \in users
    /\ \A k \in Key : RecipientOf[k] = u => ~Locked(k)
    /\ users' = users \ {u}
    /\ optOut' = {p \in optOut : p[1] # u}
    /\ rows' = [k \in Key |->
          IF RecipientOf[k] = u /\ rows[k].status # "NONE"
            THEN [rows[k] EXCEPT !.status = "DELETED", !.wait = 0] ELSE rows[k]]
    /\ UNCHANGED <<emits, batches, calls, accepted, aborts, timeouts>>

\* Time passes for the rows that wait and for the batches under way.
Tick ==
    /\ \/ \E k \in Key : rows[k].wait > 0
       \/ \E d \in Dispatcher : ~Idle(d) /\ batches[d].age < LongestWait
    /\ rows' = [k \in Key |-> [rows[k] EXCEPT !.wait = Less(@, 1)]]
    /\ batches' = [d \in Dispatcher |->
          IF Idle(d) THEN batches[d]
          ELSE [rows |-> [k \in Claimed(d) |->
                            [batches[d].rows[k] EXCEPT !.wait = Less(@, 1)]],
                todo |-> batches[d].todo,
                age |-> IF batches[d].age < LongestWait THEN batches[d].age + 1
                        ELSE LongestWait]]
    /\ UNCHANGED <<users, optOut, emits, calls, accepted, aborts, timeouts>>

-----------------------------------------------------------------------------
Work(d) ==
    \/ Commit(d)
    \/ \E k \in Key, outcome \in Outcome : Attempt(d, k, outcome)

Next ==
    \/ \E e \in Emitter : (\E k \in Key : EmitLookup(e, k)) \/ EmitCommit(e) \/ EmitFails(e)
    \/ \E d \in Dispatcher : Claim(d) \/ Work(d) \/ Abort(d)
    \/ \E u \in User : DeleteUser(u)
    \/ \E u \in User, category \in Category, enabled \in BOOLEAN :
          UpdatePreference(u, category, enabled)
    \/ Tick

\* A provider call times out and a transaction ends, so a batch under way ends; the
\* worker loop polls for ever and swallows every exception.  A test request claims
\* once, if at all, and nothing is assumed of emitters and users.
Fairness ==
    /\ WF_vars(Tick)
    /\ \A d \in Dispatcher : WF_vars(Work(d))
    /\ \A d \in Worker : WF_vars(Claim(d))

Spec == Init /\ [][Next]_vars
FairSpec == Spec /\ Fairness

-----------------------------------------------------------------------------
TypeOK ==
    /\ users \subseteq User
    /\ optOut \subseteq User \X Category
    /\ rows \in [Key -> Row]
    /\ emits \in [Emitter -> [key : Key \cup {NoKey}, status : {"NONE", "PENDING", "SKIPPED"}]]
    /\ batches \in [Dispatcher -> Batch]
    /\ \A d \in Dispatcher : batches[d].todo \subseteq Claimed(d)
    /\ calls \in [Key -> Nat] /\ accepted \in [Key -> Nat]
    /\ aborts \in 0..MaxFaults /\ timeouts \in 0..MaxFaults

\* How far a delivery is: in the batch that works on it, or in the table.
Current(k) ==
    IF Locked(k)
      THEN batches[CHOOSE d \in Dispatcher : k \in Claimed(d)].rows[k]
      ELSE rows[k]

\* Retries are bounded whatever the provider answers and however dispatchers overlap:
\* every call of the provider is counted in attempt_count, or belongs to one of the
\* batches that died before they could write it down.
CallsAreCounted == \A k \in Key : calls[k] <= Current(k).attempts + aborts

\* A message is taken by the provider at most once, but for batches that died and answers
\* that were lost: a second dispatcher or a second emit() never sends it again.
SentOnce == \A k \in Key : accepted[k] <= 1 + aborts + timeouts

\* Each notification is recorded once, attempted at most MaxAttempts times on record
\* and settled for good.
PromisedLedger == INSTANCE Ledger WITH
    ledger <- [k \in Key |-> [status |-> rows[k].status, attempts |-> rows[k].attempts]]
KeepsLedger == PromisedLedger!LedgerSpec

\* Every recorded notification is settled in the end, through any finite number of
\* batches that die and of answers that are lost.
EventuallySettled == \A k \in Key : rows[k].status = "PENDING" ~> rows[k].status # "PENDING"
=============================================================================
