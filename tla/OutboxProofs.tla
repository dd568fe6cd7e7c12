---------------------------- MODULE OutboxProofs ----------------------------
(***************************************************************************)
(* Proofs about Outbox.                                                    *)
(***************************************************************************)
EXTENDS Outbox, TLAPS, WellFoundedInduction

-----------------------------------------------------------------------------
(* Induction on Nat, stated for sets, and the backoff it is needed for. *)

\* Every set of natural numbers that is not empty has a least element.
LEMMA LeastElement ==
    ASSUME NEW T, T \subseteq Nat, T # {}
    PROVE  \E x \in T : \A y \in T : ~(y < x)
<1> DEFINE Smaller == {ss \in Nat \X Nat : ss[1] < ss[2]}
<1>1. Smaller = OpToRel(<, Nat)
  BY Zenon DEF OpToRel
<1>2. IsWellFoundedOn(Smaller, Nat)
  BY <1>1, NatLessThanWellFounded, Zenon
<1> HIDE DEF Smaller
<1>3. \E x \in T : \A y \in T : <<y, x>> \notin Smaller
  BY <1>2, WFMin
<1> QED
  BY <1>3 DEF Smaller

\* Induction: a set with 0 that is closed under successor holds every natural number.
LEMMA Induction ==
    ASSUME NEW S, 0 \in S, \A n \in Nat : n \in S => n + 1 \in S
    PROVE  \A n \in Nat : n \in S
<1> DEFINE T == Nat \ S
<1>1. SUFFICES ASSUME T # {} PROVE FALSE
  OBVIOUS
<1>2. PICK x \in T : \A y \in T : ~(y < x)
  BY <1>1, LeastElement
<1>3. x - 1 \in Nat /\ x - 1 < x
  BY <1>2
<1>4. x - 1 \in S
  BY <1>2, <1>3
<1>5. (x - 1) + 1 \in S
  BY <1>3, <1>4
<1> QED
  BY <1>5

\* The doublings up to n: approximations of Doubled.
Doublings(n) ==
    {h \in [0..n -> Nat] :
        h[0] = BackoffUnit /\ \A i \in 1..n : h[i] = 2 * h[i - 1]}

LEMMA DoublingsExist == \A n \in Nat : Doublings(n) # {}
<1> DEFINE S == {n \in Nat : Doublings(n) # {}}
<1>1. 0 \in S
  <2>1. [i \in 0..0 |-> BackoffUnit] \in Doublings(0)
    BY OutboxConstants DEF Doublings
  <2> QED BY <2>1
<1>2. ASSUME NEW n \in Nat, n \in S PROVE n + 1 \in S
  <2>1. PICK h : h \in Doublings(n)
    BY <1>2
  <2> DEFINE g == [i \in 0..(n + 1) |-> IF i <= n THEN h[i] ELSE 2 * h[n]]
  <2>2. g \in [0..(n + 1) -> Nat]
    BY <2>1 DEF Doublings
  <2>3. g[0] = BackoffUnit
    BY <2>1 DEF Doublings
  <2>4. ASSUME NEW i \in 1..(n + 1) PROVE g[i] = 2 * g[i - 1]
    BY <2>1 DEF Doublings
  <2>5. g \in Doublings(n + 1)
    BY <2>2, <2>3, <2>4 DEF Doublings
  <2> QED BY <2>5
<1>3. \A n \in Nat : n \in S
  <2> HIDE DEF S
  <2> QED BY <1>1, <1>2, Induction
<1> QED BY <1>3

LEMMA DoublingsAgree ==
    ASSUME NEW m \in Nat, NEW l \in Nat, NEW h \in Doublings(m), NEW g \in Doublings(l),
           NEW n \in Nat, n <= m, n <= l
    PROVE  h[n] = g[n]
<1> DEFINE S == {i \in Nat : i <= m /\ i <= l => h[i] = g[i]}
<1>1. 0 \in S
  BY DEF Doublings
<1>2. ASSUME NEW i \in Nat, i \in S PROVE i + 1 \in S
  <2>1. SUFFICES ASSUME i + 1 <= m, i + 1 <= l PROVE h[i + 1] = g[i + 1]
    OBVIOUS
  <2>2. h[i] = g[i]
    BY <1>2, <2>1
  <2>3. i + 1 \in 1..m /\ i + 1 \in 1..l /\ (i + 1) - 1 = i
    BY <2>1
  <2> QED BY <2>2, <2>3 DEF Doublings
<1>3. \A i \in Nat : i \in S
  <2> HIDE DEF S
  <2> QED BY <1>1, <1>2, Induction
<1> QED BY <1>3

\* Doubled is the function its recursive definition describes.
LEMMA DoubledIs ==
    Doubled = [n \in Nat |-> IF n = 0 THEN BackoffUnit ELSE 2 * Doubled[n - 1]]
<1> DEFINE Some(n) == CHOOSE h : h \in Doublings(n)
           g == [n \in Nat |-> Some(n)[n]]
           Body(f) == [n \in Nat |-> IF n = 0 THEN BackoffUnit ELSE 2 * f[n - 1]]
<1>1. \A n \in Nat : Some(n) \in Doublings(n)
  BY DoublingsExist
<1> HIDE DEF Some
<1>2. ASSUME NEW n \in Nat PROVE g[n] = IF n = 0 THEN BackoffUnit ELSE 2 * g[n - 1]
  <2>1. CASE n = 0
    BY <1>1, <2>1 DEF Doublings
  <2>2. CASE n # 0
    <3>1. n - 1 \in Nat /\ n \in 1..n
      BY <2>2
    <3>2. Some(n)[n] = 2 * Some(n)[n - 1]
      BY <1>1, <3>1 DEF Doublings
    <3>3. Some(n)[n - 1] = Some(n - 1)[n - 1]
      <4>1. Some(n) \in Doublings(n) /\ Some(n - 1) \in Doublings(n - 1)
        BY <1>1, <3>1
      <4>2. n - 1 <= n /\ n - 1 <= n - 1
        BY <3>1
      <4> QED BY <3>1, <4>1, <4>2, DoublingsAgree
    <3> QED BY <2>2, <3>1, <3>2, <3>3
  <2> QED BY <2>1, <2>2
<1>3. g = Body(g)
  BY <1>2
<1>4. Doubled = CHOOSE f : f = Body(f)
  BY DEF Doubled
<1> HIDE DEF g, Body
<1>5. Doubled = Body(Doubled)
  BY <1>3, <1>4
<1> QED BY <1>5 DEF Body

LEMMA DoubledType == \A n \in Nat : Doubled[n] \in Nat
<1> DEFINE S == {n \in Nat : Doubled[n] \in Nat}
<1>1. 0 \in S
  BY DoubledIs, OutboxConstants
<1>2. ASSUME NEW n \in Nat, n \in S PROVE n + 1 \in S
  <2>1. n + 1 # 0 /\ (n + 1) - 1 = n
    OBVIOUS
  <2>2. Doubled[n + 1] = 2 * Doubled[n]
    BY <2>1, DoubledIs
  <2> QED BY <1>2, <2>2
<1>3. \A n \in Nat : n \in S
  <2> HIDE DEF S
  <2> QED BY <1>1, <1>2, Induction
<1> QED BY <1>3

LEMMA DoubledGrows ==
    ASSUME NEW n \in Nat, NEW m \in Nat, m <= n PROVE Doubled[m] <= Doubled[n]
<1> DEFINE S == {i \in Nat : m <= i => Doubled[m] <= Doubled[i]}
<1>1. 0 \in S
  BY DoubledType
<1>2. ASSUME NEW i \in Nat, i \in S PROVE i + 1 \in S
  <2>1. i + 1 # 0 /\ (i + 1) - 1 = i
    OBVIOUS
  <2>2. Doubled[i + 1] = 2 * Doubled[i]
    BY <2>1, DoubledIs
  <2>3. Doubled[i] \in Nat /\ Doubled[m] \in Nat
    BY DoubledType
  <2>4. CASE m <= i
    BY <1>2, <2>2, <2>3, <2>4
  <2>5. CASE ~(m <= i)
    BY <2>3, <2>5, DoubledType
  <2> QED BY <2>4, <2>5
<1>3. \A i \in Nat : i \in S
  <2> HIDE DEF S
  <2> QED BY <1>1, <1>2, Induction
<1> QED BY <1>3

\* A retry never waits longer than the one after the last attempt would.
LEMMA BackoffBounded ==
    /\ LongestWait \in Nat
    /\ \A n \in 0..MaxAttempts : Backoff(n) \in 0..LongestWait
<1>1. MaxAttempts \in Nat
  BY OutboxConstants
<1>2. \A n \in Nat : (IF n > 1 THEN n - 1 ELSE 0) \in Nat
  OBVIOUS
<1>3. \A n \in Nat : Backoff(n) \in Nat
  BY <1>2, DoubledType DEF Backoff
<1>4. ASSUME NEW n \in 0..MaxAttempts PROVE Backoff(n) <= LongestWait
  <2> DEFINE e(i) == IF i > 1 THEN i - 1 ELSE 0
  <2>1. e(n) \in Nat /\ e(MaxAttempts) \in Nat /\ e(n) <= e(MaxAttempts)
    BY <1>1
  <2>2. Doubled[e(n)] <= Doubled[e(MaxAttempts)]
    BY <2>1, DoubledGrows
  <2> QED BY <2>2 DEF Backoff, LongestWait
<1> QED BY <1>1, <1>3, <1>4 DEF LongestWait

LEMMA LessBounded ==
    ASSUME NEW n \in Nat, NEW m \in Nat PROVE Less(n, m) \in 0..n
BY DEF Less

-----------------------------------------------------------------------------
(* The inductive invariant. *)

\* A row that is pending has an attempt left; one that is not recorded has had none.
RowsReady ==
    \A k \in Key :
        /\ rows[k].status = "PENDING" => rows[k].attempts < MaxAttempts
        /\ rows[k].status = "NONE" => rows[k].attempts = 0

\* What an emit() under way is about to insert.
EmitsReady ==
    \A e \in Emitter : emits[e] # NoEmit =>
        emits[e].key \in Key /\ emits[e].status \in {"PENDING", "SKIPPED"}

\* FOR UPDATE SKIP LOCKED: no row is in two batches.
LocksApart ==
    \A d, other \in Dispatcher : d # other => Claimed(d) \cap Claimed(other) = {}

\* A claimed row stays as it was read until its batch commits: the copy in the batch is
\* the row itself, or one attempt ahead of it.
BatchesFollow ==
    \A d \in Dispatcher : \A k \in Claimed(d) :
        /\ rows[k].status = "PENDING"
        /\ k \in batches[d].todo =>
              /\ batches[d].rows[k].status = "PENDING"
              /\ batches[d].rows[k].attempts = rows[k].attempts
        /\ k \notin batches[d].todo => PromisedLedger!Attempted(rows[k], batches[d].rows[k])

\* The calls for k and the messages taken, when row is how far k is.
Fits(k, row) ==
    /\ calls[k] <= row.attempts + aborts
    /\ accepted[k] <= aborts + timeouts + (IF row.status \in {"SENT", "DELETED"} THEN 1 ELSE 0)
Counts ==
    \A k \in Key :
        /\ ~Locked(k) => Fits(k, rows[k])
        /\ \A d \in Dispatcher : k \in Claimed(d) => Fits(k, batches[d].rows[k])

FaultsBounded == aborts + timeouts <= MaxFaults

IInv ==
    /\ TypeOK /\ FaultsBounded
    /\ RowsReady /\ EmitsReady
    /\ LocksApart /\ BatchesFollow /\ Counts

LEMMA NoBatchIsEmpty == NoBatch \in Batch /\ DOMAIN NoBatch.rows = {} /\ NoBatch.todo = {}
<1>1. <<>> \in [{} -> Row] /\ DOMAIN <<>> = {}
  OBVIOUS
<1>2. 0 \in 0..LongestWait
  BY BackoffBounded
<1>3. <<>> \in UNION {[S -> Row] : S \in SUBSET Key}
  BY <1>1
<1> QED BY <1>1, <1>2, <1>3 DEF NoBatch, Batch

LEMMA BatchParts ==
    ASSUME TypeOK, NEW d \in Dispatcher
    PROVE  /\ Claimed(d) \subseteq Key /\ batches[d].rows \in [Claimed(d) -> Row]
           /\ batches[d].todo \subseteq Claimed(d)
           /\ batches[d].age \in 0..LongestWait /\ batches[d].age \in Nat
           /\ batches[d] \in Batch
<1>1. batches[d] \in Batch /\ batches[d].todo \subseteq Claimed(d)
  BY DEF TypeOK
<1>2. PICK S \in SUBSET Key : batches[d].rows \in [S -> Row]
  BY <1>1 DEF Batch
<1>3. Claimed(d) = S
  BY <1>2 DEF Claimed
<1>4. batches[d].age \in 0..LongestWait
  BY <1>1 DEF Batch
<1> QED BY <1>1, <1>2, <1>3, <1>4, BackoffBounded

LEMMA BatchMade ==
    ASSUME NEW S \in SUBSET Key, NEW f \in [S -> Row], NEW todo \in SUBSET S,
           NEW age \in 0..LongestWait
    PROVE  [rows |-> f, todo |-> todo, age |-> age] \in Batch
BY DEF Batch

\* The row after an attempt: what Attempt computes.
Tried(row, age, outcome) ==
    CASE outcome = "accepted" -> Settled(row, "SENT")
      [] outcome \in {"transient", "unanswered"} -> Retry(row, age)
      [] outcome \in {"permanent", "unsendable"} -> Settled(row, "FAILED")

\* An attempt on a pending row makes an entry the ledger allows, and no more than the
\* provider's own answer makes it SENT.
LEMMA TriedIs ==
    ASSUME NEW row \in Row, row.status = "PENDING", row.attempts < MaxAttempts,
           NEW age \in Nat, NEW outcome \in Outcome
    PROVE  /\ Tried(row, age, outcome) \in Row
           /\ PromisedLedger!Attempted(row, Tried(row, age, outcome))
           /\ Tried(row, age, outcome).attempts = row.attempts + 1
           /\ outcome = "accepted" => Tried(row, age, outcome).status = "SENT"
<1>1. MaxAttempts \in Nat /\ LongestWait \in Nat /\ 0 \in 0..LongestWait
  BY OutboxConstants, BackoffBounded
<1>2. row.attempts \in Nat /\ row.attempts + 1 \in 0..MaxAttempts
  BY <1>1 DEF Row
<1>3. CASE outcome = "accepted"
  <2>1. Tried(row, age, outcome) = Settled(row, "SENT")
    BY <1>3 DEF Tried
  <2> QED BY <1>1, <1>2, <2>1
      DEF Settled, Row, DeliveryStatus, PromisedLedger!Attempted
<1>4. CASE outcome \in {"permanent", "unsendable"}
  <2>1. Tried(row, age, outcome) = Settled(row, "FAILED")
    BY <1>4 DEF Tried
  <2> QED BY <1>1, <1>2, <1>4, <2>1
      DEF Settled, Row, DeliveryStatus, PromisedLedger!Attempted
<1>5. CASE outcome \in {"transient", "unanswered"}
  <2>1. Tried(row, age, outcome) = Retry(row, age)
    BY <1>5 DEF Tried
  <2> DEFINE wait == Less(Backoff(row.attempts + 1), age)
  <2>2. Backoff(row.attempts + 1) \in 0..LongestWait
    BY <1>2, BackoffBounded
  <2>3. wait \in 0..LongestWait
    <3>1. PICK longest \in 0..LongestWait : longest = Backoff(row.attempts + 1)
      BY <2>2
    <3>2. Less(longest, age) \in 0..longest
      BY <1>1, LessBounded
    <3> QED BY <1>1, <3>1, <3>2
  <2>4. Retry(row, age) =
          IF row.attempts + 1 >= MaxAttempts
            THEN [status |-> "FAILED", attempts |-> row.attempts + 1, wait |-> 0]
            ELSE [status |-> "PENDING", attempts |-> row.attempts + 1, wait |-> wait]
    BY DEF Retry
  <2> HIDE DEF wait
  <2> QED BY <1>1, <1>2, <1>5, <2>1, <2>3, <2>4
      DEF Row, DeliveryStatus, PromisedLedger!Attempted
<1> QED BY <1>3, <1>4, <1>5 DEF Outcome

LEMMA InitIInv == Init => IInv
<1> SUFFICES ASSUME Init PROVE IInv
  OBVIOUS
<1> USE DEF Init
<1>1. Absent \in Row
  BY OutboxConstants, BackoffBounded DEF Absent, Row
<1>2. \A d \in Dispatcher : Claimed(d) = {} /\ batches[d].todo = {} /\ batches[d] \in Batch
  BY NoBatchIsEmpty DEF Claimed
<1>3. NoEmit \in [key : Key \cup {NoKey}, status : {"NONE", "PENDING", "SKIPPED"}]
  BY DEF NoEmit
<1>4. TypeOK
  <2>1. batches \in [Dispatcher -> Batch]
    BY NoBatchIsEmpty
  <2>2. emits \in [Emitter -> [key : Key \cup {NoKey}, status : {"NONE", "PENDING", "SKIPPED"}]]
    BY <1>3
  <2>3. rows \in [Key -> Row]
    BY <1>1
  <2>4. aborts \in 0..MaxFaults /\ timeouts \in 0..MaxFaults
    BY OutboxConstants
  <2> QED BY <1>2, <2>1, <2>2, <2>3, <2>4 DEF TypeOK
<1>5. FaultsBounded /\ RowsReady /\ EmitsReady /\ LocksApart /\ BatchesFollow
  BY <1>2, OutboxConstants
     DEF FaultsBounded, RowsReady, EmitsReady, LocksApart, BatchesFollow, Absent
<1>6. Counts
  BY <1>2 DEF Counts, Fits, Absent
<1> QED BY <1>4, <1>5, <1>6 DEF IInv

-----------------------------------------------------------------------------
(* The actions that leave batches alone. *)

\* Nothing that the invariant says of deliveries moves.
LEMMA QuietStep ==
    ASSUME IInv, UNCHANGED <<rows, batches, calls, accepted, aborts, timeouts>>
    PROVE  FaultsBounded' /\ RowsReady' /\ LocksApart' /\ BatchesFollow' /\ Counts'
<1>1. FaultsBounded' /\ RowsReady'
  BY DEF IInv, FaultsBounded, RowsReady
<1>2. \A d \in Dispatcher : Claimed(d)' = Claimed(d)
  BY DEF Claimed
<1>3. LocksApart'
  BY <1>2 DEF IInv, LocksApart
<1>4. BatchesFollow'
  BY <1>2 DEF IInv, BatchesFollow
<1>5. Counts'
  BY <1>2 DEF IInv, Counts, Fits, Locked
<1> QED BY <1>1, <1>3, <1>4, <1>5

\* Rows that no batch has locked move, and keep their count.
LEMMA RowsStep ==
    ASSUME IInv, UNCHANGED <<batches, calls, accepted, aborts, timeouts>>,
           \A k \in Key :
              \/ rows'[k] = rows[k]
              \/ /\ ~Locked(k)
                 /\ rows'[k].attempts = rows[k].attempts
                 /\ rows[k].status = "NONE" \/ rows'[k].status = "DELETED"
    PROVE  FaultsBounded' /\ LocksApart' /\ BatchesFollow' /\ Counts'
<1>1. FaultsBounded'
  BY DEF IInv, FaultsBounded
<1>2. \A d \in Dispatcher : Claimed(d)' = Claimed(d)
  BY DEF Claimed
<1>3. LocksApart'
  BY <1>2 DEF IInv, LocksApart
<1>4. \A d \in Dispatcher : \A k \in Claimed(d) : k \in Key /\ rows'[k] = rows[k]
  BY BatchParts DEF IInv, Locked
<1>5. BatchesFollow'
  BY <1>2, <1>4 DEF IInv, BatchesFollow
<1>6. ASSUME NEW k \in Key, ~Locked(k), Fits(k, rows[k]) PROVE Fits(k, rows[k])'
  <2>1. accepted[k] \in Nat /\ aborts \in Nat /\ timeouts \in Nat
    BY OutboxConstants DEF IInv, TypeOK
  <2>2. CASE rows'[k] = rows[k]
    BY <1>6, <2>2 DEF Fits
  <2>3. CASE /\ rows'[k].attempts = rows[k].attempts
             /\ rows[k].status = "NONE" \/ rows'[k].status = "DELETED"
    BY <1>6, <2>1, <2>3 DEF Fits
  <2> QED BY <2>2, <2>3
<1>7. ASSUME NEW d \in Dispatcher, NEW k \in Claimed(d), Fits(k, batches[d].rows[k])
      PROVE  Fits(k, batches[d].rows[k])'
  BY <1>7 DEF Fits
<1>8. Counts'
  BY <1>2, <1>6, <1>7 DEF IInv, Counts, Locked
<1> QED BY <1>1, <1>3, <1>5, <1>8

LEMMA EmitLookupKeeps ==
    ASSUME IInv, NEW e \in Emitter, NEW k \in Key, EmitLookup(e, k) PROVE IInv'
<1> DEFINE new == [key |-> k, status |-> Resolved(k)]
<1>1. new.key \in Key /\ new.status \in {"PENDING", "SKIPPED"}
  BY DEF Resolved
<1>2. new \in [key : Key \cup {NoKey}, status : {"NONE", "PENDING", "SKIPPED"}]
  BY DEF Resolved
<1>3. emits' = [emits EXCEPT ![e] = new]
  BY DEF EmitLookup
<1> HIDE DEF new
<1>4. TypeOK'
  <2>1. emits' \in [Emitter -> [key : Key \cup {NoKey}, status : {"NONE", "PENDING", "SKIPPED"}]]
    BY <1>2, <1>3 DEF IInv, TypeOK
  <2> QED BY <2>1 DEF IInv, TypeOK, EmitLookup, Claimed
<1>5. EmitsReady'
  BY <1>1, <1>3 DEF IInv, TypeOK, EmitsReady
<1>6. FaultsBounded' /\ RowsReady' /\ LocksApart' /\ BatchesFollow' /\ Counts'
  BY QuietStep DEF EmitLookup
<1> QED BY <1>4, <1>5, <1>6 DEF IInv

LEMMA EmitFailsKeeps ==
    ASSUME IInv, NEW e \in Emitter, EmitFails(e) PROVE IInv'
<1>1. emits' = [emits EXCEPT ![e] = NoEmit]
  BY DEF EmitFails
<1>2. TypeOK'
  <2>1. NoEmit \in [key : Key \cup {NoKey}, status : {"NONE", "PENDING", "SKIPPED"}]
    BY DEF NoEmit
  <2>2. emits' \in [Emitter -> [key : Key \cup {NoKey}, status : {"NONE", "PENDING", "SKIPPED"}]]
    BY <1>1, <2>1 DEF IInv, TypeOK
  <2> QED BY <2>2 DEF IInv, TypeOK, EmitFails, Claimed
<1>3. EmitsReady'
  BY <1>1 DEF IInv, TypeOK, EmitsReady
<1>4. FaultsBounded' /\ RowsReady' /\ LocksApart' /\ BatchesFollow' /\ Counts'
  BY QuietStep DEF EmitFails
<1> QED BY <1>2, <1>3, <1>4 DEF IInv

LEMMA UpdatePreferenceKeeps ==
    ASSUME IInv, NEW u \in User, NEW category \in Category, NEW enabled \in BOOLEAN,
           UpdatePreference(u, category, enabled)
    PROVE  IInv'
<1> USE DEF UpdatePreference
<1>1. optOut' \subseteq User \X Category
  BY DEF IInv, TypeOK
<1>2. TypeOK'
  BY <1>1 DEF IInv, TypeOK, Claimed
<1>3. EmitsReady'
  BY DEF IInv, EmitsReady
<1> QED BY <1>2, <1>3, QuietStep DEF IInv

LEMMA EmitCommitKeeps ==
    ASSUME IInv, NEW e \in Emitter, EmitCommit(e) PROVE IInv'
<1> DEFINE k == emits[e].key
           new == [status |-> emits[e].status, attempts |-> 0, wait |-> 0]
<1>1. k \in Key /\ emits[e].status \in {"PENDING", "SKIPPED"}
  BY DEF IInv, EmitsReady, EmitCommit
<1>2. rows[k].status = "NONE" /\ rows[k].attempts = 0
  BY <1>1 DEF IInv, RowsReady, EmitCommit, Insertable
<1>3. /\ rows' = [rows EXCEPT ![k] = new] /\ emits' = [emits EXCEPT ![e] = NoEmit]
      /\ UNCHANGED <<users, optOut, batches, calls, accepted, aborts, timeouts>>
  BY DEF EmitCommit
<1>4. new \in Row /\ new.attempts = 0 /\ new.status \in {"PENDING", "SKIPPED"}
  BY <1>1, OutboxConstants, BackoffBounded DEF Row, DeliveryStatus
<1> HIDE DEF k, new
<1>5. TypeOK'
  <2>1. NoEmit \in [key : Key \cup {NoKey}, status : {"NONE", "PENDING", "SKIPPED"}]
    BY DEF NoEmit
  <2>2. emits' \in [Emitter -> [key : Key \cup {NoKey}, status : {"NONE", "PENDING", "SKIPPED"}]]
    BY <1>3, <2>1 DEF IInv, TypeOK
  <2>3. rows' \in [Key -> Row]
    BY <1>1, <1>3, <1>4 DEF IInv, TypeOK
  <2> QED BY <1>3, <2>2, <2>3 DEF IInv, TypeOK, Claimed
<1>6. EmitsReady'
  BY <1>3 DEF IInv, TypeOK, EmitsReady
<1>7. RowsReady'
  BY <1>1, <1>3, <1>4, OutboxConstants DEF IInv, TypeOK, RowsReady
<1>8. ~Locked(k)
  BY <1>2 DEF IInv, BatchesFollow, Locked
<1>9. \A j \in Key : j # k => rows'[j] = rows[j]
  BY <1>3 DEF IInv, TypeOK
<1>10. rows'[k] = new
  BY <1>1, <1>3 DEF IInv, TypeOK
<1>11. FaultsBounded' /\ LocksApart' /\ BatchesFollow' /\ Counts'
  BY <1>2, <1>3, <1>4, <1>8, <1>9, <1>10, RowsStep
<1> QED BY <1>5, <1>6, <1>7, <1>11 DEF IInv

LEMMA DeleteUserKeeps ==
    ASSUME IInv, NEW u \in User, DeleteUser(u) PROVE IInv'
<1>1. /\ users' \subseteq User /\ optOut' \subseteq User \X Category
      /\ UNCHANGED <<emits, batches, calls, accepted, aborts, timeouts>>
  BY DEF DeleteUser, IInv, TypeOK
<1>2. ASSUME NEW k \in Key
      PROVE  \/ rows'[k] = rows[k]
             \/ /\ ~Locked(k) /\ rows[k].status # "NONE"
                /\ rows'[k] = [rows[k] EXCEPT !.status = "DELETED", !.wait = 0]
  BY DEF DeleteUser
<1>3. ASSUME NEW k \in Key
      PROVE  /\ rows'[k] \in Row
             /\ \/ rows'[k] = rows[k]
                \/ /\ ~Locked(k) /\ rows'[k].status = "DELETED"
                   /\ rows'[k].attempts = rows[k].attempts
  <2>1. PICK row \in Row : row = rows[k]
    BY DEF IInv, TypeOK
  <2> DEFINE gone == [row EXCEPT !.status = "DELETED", !.wait = 0]
  <2>2. gone \in Row
    <3>1. 0 \in 0..LongestWait
      BY BackoffBounded
    <3> QED BY <3>1 DEF Row
  <2>3. gone.status = "DELETED" /\ gone.attempts = row.attempts
    BY DEF Row
  <2>4. rows'[k] = row \/ (~Locked(k) /\ rows'[k] = gone)
    BY <1>2, <2>1
  <2> HIDE DEF gone
  <2> QED BY <2>1, <2>2, <2>3, <2>4
<1>5. TypeOK'
  <2>1. rows' \in [Key -> Row]
    BY <1>3 DEF DeleteUser
  <2> QED BY <1>1, <2>1 DEF IInv, TypeOK, Claimed
<1>6. EmitsReady'
  BY <1>1 DEF IInv, EmitsReady
<1>7. RowsReady'
  BY <1>3 DEF IInv, RowsReady
<1>8. FaultsBounded' /\ LocksApart' /\ BatchesFollow' /\ Counts'
  BY <1>1, <1>3, RowsStep
<1> QED BY <1>5, <1>6, <1>7, <1>8 DEF IInv

-----------------------------------------------------------------------------
(* A dispatcher's steps. *)

\* Only the batch of d changes.
LEMMA OneBatch ==
    ASSUME IInv, NEW d \in Dispatcher, NEW new \in Batch,
           batches' = [batches EXCEPT ![d] = new]
    PROVE  /\ batches' \in [Dispatcher -> Batch]
           /\ batches'[d] = new /\ Claimed(d)' = DOMAIN new.rows
           /\ \A other \in Dispatcher : other # d =>
                 batches'[other] = batches[other] /\ Claimed(other)' = Claimed(other)
BY DEF IInv, TypeOK, Claimed

LEMMA ClaimKeeps ==
    ASSUME IInv, NEW d \in Dispatcher, Claim(d) PROVE IInv'
<1>1. PICK S \in SUBSET Due :
          batches' = [batches EXCEPT ![d] =
                        [rows |-> [k \in S |-> rows[k]], todo |-> S, age |-> 0]]
  BY DEF Claim
<1>2. UNCHANGED <<users, optOut, rows, emits, calls, accepted, aborts, timeouts>>
  BY DEF Claim
<1> DEFINE f == [k \in S |-> rows[k]]
           new == [rows |-> f, todo |-> S, age |-> 0]
<1>3. \A k \in S : k \in Key /\ rows[k].status = "PENDING" /\ ~Locked(k)
  BY DEF Due
<1>4. f \in [S -> Row] /\ DOMAIN f = S /\ \A k \in S : f[k] = rows[k]
  BY <1>3 DEF IInv, TypeOK
<1>5. new.rows = f /\ new.todo = S /\ new.age = 0
  OBVIOUS
<1> HIDE DEF f
<1>6. new \in Batch
  <2>1. S \in SUBSET Key /\ S \in SUBSET S /\ 0 \in 0..LongestWait
    BY <1>3, BackoffBounded
  <2> QED BY <1>4, <2>1, BatchMade
<1>7. batches' = [batches EXCEPT ![d] = new]
  BY <1>1 DEF f
<1> HIDE DEF new
<1>8. /\ batches' \in [Dispatcher -> Batch]
      /\ batches'[d] = new /\ Claimed(d)' = S
      /\ \A other \in Dispatcher : other # d =>
            batches'[other] = batches[other] /\ Claimed(other)' = Claimed(other)
  BY <1>4, <1>5, <1>6, <1>7, OneBatch
<1>9. TypeOK'
  BY <1>2, <1>5, <1>8 DEF IInv, TypeOK
<1>10. FaultsBounded' /\ RowsReady' /\ EmitsReady'
  BY <1>2 DEF IInv, FaultsBounded, RowsReady, EmitsReady
<1>11. LocksApart'
  BY <1>3, <1>8 DEF IInv, LocksApart, Locked
<1>12. BatchesFollow'
  BY <1>2, <1>3, <1>4, <1>5, <1>8 DEF IInv, BatchesFollow
<1>13. Counts'
  <2>1. \A k \in Key : ~Locked(k)' => ~Locked(k)
    <3>1. Idle(d)
      BY DEF Claim
    <3> QED BY <1>8, <3>1 DEF Locked, Idle
  <2>2. \A k \in Key, row \in Row : Fits(k, row)' <=> Fits(k, row)
    BY <1>2 DEF Fits
  <2>3. \A k \in S : Fits(k, rows[k])
    BY <1>3 DEF IInv, Counts
  <2>4. ASSUME NEW k \in Key, ~Locked(k)' PROVE Fits(k, rows[k])'
    BY <1>2, <2>1, <2>4 DEF IInv, Counts, Fits
  <2>5. ASSUME NEW k \in Key, NEW other \in Dispatcher, k \in Claimed(other)'
        PROVE  Fits(k, batches[other].rows[k])'
    BY <1>2, <1>4, <1>5, <1>8, <2>3, <2>5 DEF IInv, Counts, Fits
  <2> QED BY <2>4, <2>5 DEF Counts
<1> QED BY <1>9, <1>10, <1>11, <1>12, <1>13 DEF IInv

LEMMA AttemptKeeps ==
    ASSUME IInv, NEW d \in Dispatcher, NEW k \in Key, NEW outcome \in Outcome,
           Attempt(d, k, outcome)
    PROVE  IInv'
<1> DEFINE row == batches[d].rows[k]
<1>1. /\ Claimed(d) \subseteq Key /\ batches[d].rows \in [Claimed(d) -> Row]
      /\ batches[d].todo \subseteq Claimed(d)
      /\ batches[d].age \in 0..LongestWait /\ batches[d].age \in Nat
      /\ batches[d] \in Batch
  BY BatchParts DEF IInv
<1>2. k \in batches[d].todo /\ k \in Claimed(d)
  BY <1>1 DEF Attempt
<1>3. /\ row \in Row /\ row.status = "PENDING" /\ row.attempts = rows[k].attempts
      /\ rows[k].status = "PENDING" /\ row.attempts < MaxAttempts
  BY <1>1, <1>2 DEF IInv, BatchesFollow, RowsReady
<1>4. PICK after \in Row :
          /\ after = Tried(row, batches[d].age, outcome)
          /\ PromisedLedger!Attempted(row, after)
          /\ after.attempts = row.attempts + 1
          /\ outcome = "accepted" => after.status = "SENT"
  <2> HIDE DEF row
  <2> QED BY <1>1, <1>3, TriedIs
<1> DEFINE f == [batches[d].rows EXCEPT ![k] = after]
           todo == batches[d].todo \ {k}
           new == [rows |-> f, todo |-> todo, age |-> batches[d].age]
<1>5. batches' = [batches EXCEPT ![d].rows[k] = after, ![d].todo = todo]
  BY <1>4 DEF Attempt, Tried
<1>6. /\ calls' = [calls EXCEPT ![k] = @ + IF outcome = "unsendable" THEN 0 ELSE 1]
      /\ accepted' = [accepted EXCEPT ![k] = @ + IF outcome \in Taken THEN 1 ELSE 0]
      /\ outcome = "unanswered" => aborts + timeouts < MaxFaults
      /\ timeouts' = IF outcome = "unanswered" THEN timeouts + 1 ELSE timeouts
      /\ UNCHANGED <<users, optOut, rows, emits, aborts>>
  BY DEF Attempt
<1>7. /\ f \in [Claimed(d) -> Row] /\ DOMAIN f = Claimed(d) /\ f[k] = after
      /\ \A j \in Claimed(d) : j # k => f[j] = batches[d].rows[j]
  BY <1>1, <1>2
<1>8. todo \in SUBSET Claimed(d) /\ todo \in SUBSET Key
  BY <1>1
<1>9. new \in Batch
  <2> HIDE DEF f, todo
  <2> QED BY <1>1, <1>7, <1>8, BatchMade
<1>10. batches' = [batches EXCEPT ![d] = new]
  <2> HIDE DEF todo
  <2>1. PICK b \in Batch : b = batches[d]
    BY <1>1
  <2> DEFINE changed == [b EXCEPT !.rows = [b.rows EXCEPT ![k] = after], !.todo = todo]
  <2>2. changed.rows = f /\ changed.todo = todo /\ changed.age = b.age
    BY <2>1 DEF Batch
  <2>3. changed \in Batch
    <3>1. new.rows = f /\ f \in UNION {[S -> Row] : S \in SUBSET Key}
      BY <1>9 DEF Batch
    <3>2. PICK g \in UNION {[S -> Row] : S \in SUBSET Key} : g = f
      BY <3>1
    <3>3. [b EXCEPT !.rows = g, !.todo = todo] \in Batch
      <4> HIDE DEF f
      <4> QED BY <1>8, <2>1 DEF Batch
    <3> QED BY <2>1, <3>2, <3>3
  <2>4. batches' = [batches EXCEPT ![d] = changed]
    BY <1>5, <2>1 DEF IInv, TypeOK
  <2> HIDE DEF changed, f
  <2>5. changed = new
    BY <2>1, <2>2, <2>3 DEF Batch
  <2> QED BY <2>4, <2>5
<1>11. new.rows = f /\ new.todo = todo
  OBVIOUS
<1> HIDE DEF new, f, row
<1>12. /\ batches' \in [Dispatcher -> Batch]
       /\ batches'[d] = new /\ Claimed(d)' = Claimed(d)
       /\ \A other \in Dispatcher : other # d =>
             batches'[other] = batches[other] /\ Claimed(other)' = Claimed(other)
  BY <1>7, <1>9, <1>10, <1>11, OneBatch
<1>13. TypeOK'
  <2>1. calls' \in [Key -> Nat] /\ accepted' \in [Key -> Nat]
    BY <1>6 DEF IInv, TypeOK
  <2>2. timeouts' \in 0..MaxFaults
    BY <1>6, OutboxConstants DEF IInv, TypeOK
  <2> QED BY <1>6, <1>8, <1>11, <1>12, <2>1, <2>2 DEF IInv, TypeOK
<1>14. FaultsBounded' /\ RowsReady' /\ EmitsReady'
  BY <1>6, OutboxConstants DEF IInv, TypeOK, FaultsBounded, RowsReady, EmitsReady
<1>15. LocksApart'
  BY <1>12 DEF IInv, LocksApart
<1>16. BatchesFollow'
  <2>1. PromisedLedger!Attempted(rows[k], after)
    BY <1>3, <1>4 DEF PromisedLedger!Attempted
  <2>2. ASSUME NEW j \in Claimed(d)
        PROVE  /\ rows[j].status = "PENDING"
               /\ j \in todo => /\ f[j].status = "PENDING"
                               /\ f[j].attempts = rows[j].attempts
               /\ j \notin todo => PromisedLedger!Attempted(rows[j], f[j])
    BY <1>7, <2>1 DEF IInv, BatchesFollow
  <2> HIDE DEF todo
  <2> QED BY <1>6, <1>11, <1>12, <2>2 DEF IInv, BatchesFollow
<1>17. Counts'
  <2>1. aborts \in Nat /\ timeouts \in Nat /\ calls[k] \in Nat /\ accepted[k] \in Nat
    BY OutboxConstants DEF IInv, TypeOK
  <2>2. Fits(k, row)
    BY <1>2 DEF IInv, Counts, row
  <2>3. Fits(k, after)'
    <3>1. calls'[k] <= calls[k] + 1
      BY <1>6, <2>1 DEF IInv, TypeOK
    <3>2. row.attempts \in Nat
      BY <1>3, OutboxConstants DEF Row
    <3>3. calls'[k] <= after.attempts + aborts'
      BY <1>4, <1>6, <2>1, <2>2, <3>1, <3>2 DEF Fits, IInv, TypeOK
    <3>4. accepted'[k] = accepted[k] + IF outcome \in Taken THEN 1 ELSE 0
      BY <1>6 DEF IInv, TypeOK
    <3>5. accepted[k] <= aborts + timeouts
      BY <1>3, <2>1, <2>2 DEF Fits
    <3>6. CASE outcome = "accepted"
      BY <1>4, <1>6, <2>1, <3>3, <3>4, <3>5, <3>6 DEF Fits, Taken
    <3>7. CASE outcome = "unanswered"
      BY <1>6, <2>1, <3>3, <3>4, <3>5, <3>7 DEF Fits, Taken
    <3>8. CASE outcome \notin Taken
      BY <1>6, <2>1, <3>3, <3>4, <3>5, <3>8 DEF Fits, Taken
    <3> QED BY <3>6, <3>7, <3>8 DEF Taken
  <2>4. \A j \in Key : j # k => calls'[j] = calls[j] /\ accepted'[j] = accepted[j]
    BY <1>6 DEF IInv, TypeOK
  <2>5. aborts' = aborts /\ timeouts' >= timeouts /\ timeouts' \in Nat
    BY <1>6, <2>1
  <2>6. ASSUME NEW j \in Key, j # k, NEW s, Fits(j, s) PROVE Fits(j, s)'
    BY <2>1, <2>4, <2>5, <2>6 DEF Fits, IInv, TypeOK
  <2>7. ASSUME NEW j \in Key, ~Locked(j)' PROVE Fits(j, rows[j])'
    <3>1. ~Locked(j) /\ j # k
      BY <1>2, <1>12, <2>7 DEF Locked
    <3> QED BY <1>6, <2>6, <3>1 DEF IInv, Counts
  <2>8. ASSUME NEW j \in Key, NEW other \in Dispatcher, j \in Claimed(other)'
        PROVE  Fits(j, batches[other].rows[j])'
    <3>1. CASE j = k
      <4>1. other = d
        BY <1>2, <1>12, <2>8, <3>1 DEF IInv, LocksApart
      <4> QED BY <1>7, <1>11, <1>12, <2>3, <3>1, <4>1
    <3>2. CASE j # k
      <4>1. j \in Claimed(other) /\ batches'[other].rows[j] = batches[other].rows[j]
        BY <1>7, <1>11, <1>12, <2>8, <3>2
      <4> QED BY <2>6, <3>2, <4>1 DEF IInv, Counts
    <3> QED BY <3>1, <3>2
  <2> QED BY <2>7, <2>8 DEF Counts
<1> QED BY <1>13, <1>14, <1>15, <1>16, <1>17 DEF IInv

\* The batch of d ends: its locks are released, the other batches stay.
LEMMA BatchEnds ==
    ASSUME IInv, NEW d \in Dispatcher, batches' = [batches EXCEPT ![d] = NoBatch]
    PROVE  /\ batches' \in [Dispatcher -> Batch]
           /\ \A other \in Dispatcher : (batches[other].todo \subseteq Claimed(other))'
           /\ LocksApart'
           /\ Claimed(d)' = {}
           /\ \A other \in Dispatcher : other # d =>
                 batches'[other] = batches[other] /\ Claimed(other)' = Claimed(other)
           /\ \A k \in Claimed(d) : ~Locked(k)'
           /\ \A k \in Key : ~Locked(k)' => k \in Claimed(d) \/ ~Locked(k)
<1>1. /\ batches' \in [Dispatcher -> Batch]
      /\ batches'[d] = NoBatch /\ Claimed(d)' = {}
      /\ \A other \in Dispatcher : other # d =>
            batches'[other] = batches[other] /\ Claimed(other)' = Claimed(other)
  BY OneBatch, NoBatchIsEmpty
<1>2. \A other \in Dispatcher : (batches[other].todo \subseteq Claimed(other))'
  BY <1>1, NoBatchIsEmpty DEF IInv, TypeOK
<1>3. LocksApart'
  BY <1>1 DEF IInv, LocksApart
<1>4. \A k \in Claimed(d) : ~Locked(k)'
  BY <1>1 DEF IInv, LocksApart, Locked
<1>5. \A k \in Key : ~Locked(k)' => k \in Claimed(d) \/ ~Locked(k)
  BY <1>1 DEF Locked
<1> QED BY <1>1, <1>2, <1>3, <1>4, <1>5

LEMMA CommitKeeps ==
    ASSUME IInv, NEW d \in Dispatcher, Commit(d) PROVE IInv'
<1>1. /\ batches' = [batches EXCEPT ![d] = NoBatch]
      /\ UNCHANGED <<users, optOut, emits, calls, accepted, aborts, timeouts>>
      /\ batches[d].todo = {}
  BY DEF Commit
<1>2. /\ Claimed(d) \subseteq Key /\ batches[d].rows \in [Claimed(d) -> Row]
  BY BatchParts DEF IInv
<1>3. /\ rows' \in [Key -> Row]
      /\ \A k \in Claimed(d) : rows'[k] = batches[d].rows[k]
      /\ \A k \in Key : k \notin Claimed(d) => rows'[k] = rows[k]
  BY <1>2 DEF Commit, IInv, TypeOK
<1>4. TypeOK'
  BY <1>1, <1>3, BatchEnds DEF IInv, TypeOK
<1>5. FaultsBounded' /\ EmitsReady'
  BY <1>1 DEF IInv, FaultsBounded, EmitsReady
<1>6. \A k \in Claimed(d) : PromisedLedger!Attempted(rows[k], rows'[k])
  BY <1>1, <1>3 DEF IInv, BatchesFollow
<1>7. RowsReady'
  BY <1>3, <1>6 DEF IInv, RowsReady, PromisedLedger!Attempted
<1>8. \A other \in Dispatcher : other # d => Claimed(other) \cap Claimed(d) = {}
  BY DEF IInv, LocksApart
<1>9. BatchesFollow'
  <2>1. ASSUME NEW other \in Dispatcher, NEW k \in Claimed(other)'
        PROVE  /\ other # d /\ k \in Claimed(other)
               /\ batches'[other] = batches[other] /\ rows'[k] = rows[k]
    <3>1. other # d
      BY <1>1, <2>1, BatchEnds
    <3>2. k \in Claimed(other) /\ batches'[other] = batches[other]
      BY <1>1, <2>1, <3>1, BatchEnds
    <3>3. k \in Key
      BY <3>2, BatchParts DEF IInv
    <3> QED BY <1>3, <1>8, <3>1, <3>2, <3>3
  <2> QED BY <2>1 DEF IInv, BatchesFollow
<1>10. Counts'
  <2>2. ASSUME NEW k \in Key, ~Locked(k)' PROVE Fits(k, rows[k])'
    <3>1. CASE k \in Claimed(d)
      <4>1. Fits(k, batches[d].rows[k])
        BY <3>1 DEF IInv, Counts
      <4> QED BY <1>1, <1>3, <3>1, <4>1 DEF Fits
    <3>2. CASE k \notin Claimed(d)
      <4>1. ~Locked(k)
        BY <1>1, <2>2, <3>2, BatchEnds
      <4>2. Fits(k, rows[k]) /\ rows'[k] = rows[k]
        BY <1>3, <3>2, <4>1 DEF IInv, Counts
      <4> QED BY <1>1, <4>2 DEF Fits
    <3> QED BY <3>1, <3>2
  <2>3. ASSUME NEW k \in Key, NEW other \in Dispatcher, k \in Claimed(other)'
        PROVE  Fits(k, batches[other].rows[k])'
    <3>1. k \in Claimed(other) /\ batches'[other] = batches[other]
      BY <1>1, <2>3, BatchEnds
    <3> QED BY <1>1, <3>1 DEF IInv, Counts, Fits
  <2> QED BY <2>2, <2>3 DEF Counts
<1> QED BY <1>1, <1>4, <1>5, <1>7, <1>9, <1>10, BatchEnds DEF IInv

LEMMA AbortKeeps ==
    ASSUME IInv, NEW d \in Dispatcher, Abort(d) PROVE IInv'
<1>1. /\ batches' = [batches EXCEPT ![d] = NoBatch]
      /\ UNCHANGED <<users, optOut, rows, emits, calls, accepted, timeouts>>
      /\ aborts + timeouts < MaxFaults /\ aborts' = aborts + 1
  BY DEF Abort
<1>2. aborts \in Nat /\ timeouts \in Nat
  BY OutboxConstants DEF IInv, TypeOK
<1>3. TypeOK'
  <2>1. aborts' \in 0..MaxFaults
    BY <1>1, <1>2, OutboxConstants
  <2> QED BY <1>1, <2>1, BatchEnds DEF IInv, TypeOK
<1>4. FaultsBounded' /\ RowsReady' /\ EmitsReady'
  BY <1>1, <1>2, OutboxConstants DEF IInv, FaultsBounded, RowsReady, EmitsReady
<1>5. BatchesFollow'
  <2>1. ASSUME NEW other \in Dispatcher, NEW k \in Claimed(other)'
        PROVE  k \in Claimed(other) /\ batches'[other] = batches[other]
    BY <1>1, <2>1, BatchEnds
  <2> QED BY <1>1, <2>1 DEF IInv, BatchesFollow
<1>6. Counts'
  <2>1. ASSUME NEW k \in Key, NEW row \in Row, Fits(k, row) PROVE Fits(k, row)'
    <3>1. row.attempts \in Nat /\ calls[k] \in Nat /\ accepted[k] \in Nat
      BY OutboxConstants DEF Row, IInv, TypeOK
    <3> QED BY <1>1, <1>2, <2>1, <3>1 DEF Fits
  <2>2. ASSUME NEW k \in Key, ~Locked(k)' PROVE Fits(k, rows[k])'
    <3>1. rows[k] \in Row /\ rows'[k] = rows[k]
      BY <1>1 DEF IInv, TypeOK
    <3>2. rows[k].attempts \in Nat /\ calls[k] \in Nat /\ accepted[k] \in Nat
      BY <3>1, OutboxConstants DEF Row, IInv, TypeOK
    <3>3. CASE k \in Claimed(d)
      <4>1. Fits(k, batches[d].rows[k])
        BY <3>3 DEF IInv, Counts
      <4>2. batches[d].rows[k].attempts \in {rows[k].attempts, rows[k].attempts + 1}
        BY <3>3 DEF IInv, BatchesFollow, PromisedLedger!Attempted
      <4> QED BY <1>1, <1>2, <3>1, <3>2, <4>1, <4>2 DEF Fits
    <3>4. CASE k \notin Claimed(d)
      <4>1. ~Locked(k)
        BY <1>1, <2>2, <3>4, BatchEnds
      <4>2. Fits(k, rows[k])
        BY <4>1 DEF IInv, Counts
      <4> QED BY <1>1, <1>2, <3>1, <3>2, <4>2 DEF Fits
    <3> QED BY <3>3, <3>4
  <2>3. ASSUME NEW k \in Key, NEW other \in Dispatcher, k \in Claimed(other)'
        PROVE  Fits(k, batches[other].rows[k])'
    <3>1. k \in Claimed(other) /\ batches'[other] = batches[other]
      BY <1>1, <2>3, BatchEnds
    <3>2. PICK row \in Row : row = batches[other].rows[k]
      BY <3>1, BatchParts DEF IInv
    <3>3. Fits(k, row)
      BY <3>1, <3>2 DEF IInv, Counts
    <3>4. Fits(k, row)'
      BY <2>1, <3>3
    <3> QED BY <3>1, <3>2, <3>4
  <2> QED BY <2>2, <2>3 DEF Counts
<1> QED BY <1>1, <1>3, <1>4, <1>5, <1>6, BatchEnds DEF IInv

-----------------------------------------------------------------------------
(* Time. *)

\* A row that waits a little less is the same row to everything but the clock.
LEMMA WaitLess ==
    ASSUME NEW row \in Row
    PROVE  LET later == [row EXCEPT !.wait = Less(@, 1)]
           IN  later \in Row /\ later.status = row.status /\ later.attempts = row.attempts
<1>1. row.wait \in 0..LongestWait /\ LongestWait \in Nat
  BY BackoffBounded DEF Row
<1>2. PICK wait \in 0..LongestWait : wait = Less(row.wait, 1)
  BY <1>1 DEF Less
<1>3. [row EXCEPT !.wait = wait] \in Row
  BY DEF Row
<1>4. [row EXCEPT !.wait = wait].status = row.status
  BY DEF Row
<1>5. [row EXCEPT !.wait = wait].attempts = row.attempts
  BY DEF Row
<1> QED BY <1>2, <1>3, <1>4, <1>5

LEMMA TickKeeps == ASSUME IInv, Tick PROVE IInv'
<1> DEFINE later(row) == [row EXCEPT !.wait = Less(@, 1)]
           Same(new, old) == new.status = old.status /\ new.attempts = old.attempts
<1>1. /\ rows' = [k \in Key |-> later(rows[k])]
      /\ UNCHANGED <<users, optOut, emits, calls, accepted, aborts, timeouts>>
  BY DEF Tick
<1>2. \A row \in Row : later(row) \in Row /\ Same(later(row), row)
  BY WaitLess
<1> HIDE DEF later
<1>3. rows' \in [Key -> Row] /\ \A k \in Key : Same(rows'[k], rows[k])
  BY <1>1, <1>2 DEF IInv, TypeOK
<1>4. ASSUME NEW d \in Dispatcher
      PROVE  /\ batches'[d] \in Batch /\ Claimed(d)' = Claimed(d)
             /\ batches'[d].todo = batches[d].todo
             /\ \A k \in Claimed(d) : Same(batches'[d].rows[k], batches[d].rows[k])
  <2>1. /\ Claimed(d) \subseteq Key /\ batches[d].rows \in [Claimed(d) -> Row]
        /\ batches[d].todo \subseteq Claimed(d)
        /\ batches[d].age \in 0..LongestWait
        /\ batches[d] \in Batch
    BY BatchParts DEF IInv
  <2>2. CASE Idle(d)
    <3>1. batches'[d] = batches[d]
      BY <2>2 DEF Tick
    <3> QED BY <2>1, <3>1 DEF Claimed
  <2>3. CASE ~Idle(d)
    <3> DEFINE f == [k \in Claimed(d) |-> later(batches[d].rows[k])]
               age == IF batches[d].age < LongestWait THEN batches[d].age + 1
                      ELSE LongestWait
               new == [rows |-> f, todo |-> batches[d].todo, age |-> age]
    <3>1. batches'[d] = new
      BY <2>3 DEF Tick, later
    <3>2. /\ f \in [Claimed(d) -> Row] /\ DOMAIN f = Claimed(d)
          /\ \A k \in Claimed(d) : Same(f[k], batches[d].rows[k])
      BY <1>2, <2>1
    <3>3. age \in 0..LongestWait
      BY <2>1, BackoffBounded
    <3> HIDE DEF f, age
    <3>4. new \in Batch /\ new.rows = f /\ new.todo = batches[d].todo
      BY <2>1, <3>2, <3>3, BatchMade
    <3> HIDE DEF new
    <3> QED BY <3>1, <3>2, <3>4 DEF Claimed
  <2> QED BY <2>2, <2>3
<1>5. TypeOK'
  <2>1. batches' \in [Dispatcher -> Batch]
    BY <1>4 DEF Tick
  <2> QED BY <1>1, <1>3, <1>4, <2>1 DEF IInv, TypeOK
<1>6. FaultsBounded' /\ EmitsReady'
  BY <1>1 DEF IInv, FaultsBounded, EmitsReady
<1>7. RowsReady'
  BY <1>3 DEF IInv, RowsReady
<1>8. LocksApart'
  BY <1>4 DEF IInv, LocksApart
<1>9. BatchesFollow'
  <2>1. \A d \in Dispatcher : Claimed(d) \subseteq Key
    BY BatchParts DEF IInv
  <2> QED BY <1>3, <1>4, <2>1 DEF IInv, BatchesFollow, PromisedLedger!Attempted
<1>10. Counts'
  <2>1. \A k \in Key : Locked(k)' <=> Locked(k)
    BY <1>4 DEF Locked
  <2>2. ASSUME NEW k \in Key, NEW new, NEW old, Same(new, old), Fits(k, old)
        PROVE  Fits(k, new)'
    BY <1>1, <2>2 DEF Fits
  <2>3. ASSUME NEW k \in Key, ~Locked(k)' PROVE Fits(k, rows[k])'
    <3>1. Fits(k, rows[k])
      BY <2>1, <2>3 DEF IInv, Counts
    <3> QED BY <1>1, <1>3, <3>1 DEF Fits
  <2>4. ASSUME NEW k \in Key, NEW d \in Dispatcher, k \in Claimed(d)'
        PROVE  Fits(k, batches[d].rows[k])'
    <3>1. k \in Claimed(d) /\ Fits(k, batches[d].rows[k])
      BY <1>4, <2>4 DEF IInv, Counts
    <3> QED BY <1>1, <1>4, <3>1 DEF Fits
  <2> QED BY <2>3, <2>4 DEF Counts
<1> QED BY <1>5, <1>6, <1>7, <1>8, <1>9, <1>10 DEF IInv

-----------------------------------------------------------------------------
(* The theorems. *)

LEMMA NextIInv == IInv /\ [Next]_vars => IInv'
<1> SUFFICES ASSUME IInv, [Next]_vars PROVE IInv'
  OBVIOUS
<1>1. CASE UNCHANGED vars
  <2>1. TypeOK' /\ EmitsReady'
    BY <1>1 DEF IInv, TypeOK, EmitsReady, Claimed, vars
  <2> QED BY <1>1, <2>1, QuietStep DEF IInv, vars
<1>2. ASSUME NEW e \in Emitter,
             (\E k \in Key : EmitLookup(e, k)) \/ EmitCommit(e) \/ EmitFails(e)
      PROVE  IInv'
  BY <1>2, EmitLookupKeeps, EmitCommitKeeps, EmitFailsKeeps
<1>3. ASSUME NEW d \in Dispatcher, Claim(d) \/ Work(d) \/ Abort(d) PROVE IInv'
  BY <1>3, ClaimKeeps, CommitKeeps, AttemptKeeps, AbortKeeps DEF Work
<1>4. ASSUME NEW u \in User, DeleteUser(u) PROVE IInv'
  BY <1>4, DeleteUserKeeps
<1>5. ASSUME NEW u \in User, NEW category \in Category, NEW enabled \in BOOLEAN,
             UpdatePreference(u, category, enabled)
      PROVE  IInv'
  BY <1>5, UpdatePreferenceKeeps
<1>6. CASE Tick
  BY <1>6, TickKeeps
<1> QED BY <1>1, <1>2, <1>3, <1>4, <1>5, <1>6 DEF Next

LEMMA Invariance == Spec => []IInv
BY InitIInv, NextIInv, PTL DEF Spec

\* Every variable keeps its type: no count of attempts passes MaxAttempts, no wait the
\* longest backoff, and a batch tries only rows it has claimed.
THEOREM TypeCorrect == Spec => []TypeOK
<1>1. IInv => TypeOK
  BY DEF IInv
<1> QED BY <1>1, Invariance, PTL

\* However many dispatchers, emitters and rows there are, every call of the provider is
\* in attempt_count, or belongs to a batch that died before it could write it down.
THEOREM CallsCounted == Spec => []CallsAreCounted
<1>1. IInv => CallsAreCounted
  <2> SUFFICES ASSUME IInv, NEW k \in Key PROVE calls[k] <= Current(k).attempts + aborts
    BY DEF CallsAreCounted
  <2>1. CASE Locked(k)
    <3>1. PICK d \in Dispatcher :
              k \in Claimed(d) /\ Current(k) = batches[d].rows[k]
      BY <2>1 DEF Locked, Current
    <3> QED BY <3>1 DEF IInv, Counts, Fits
  <2>2. CASE ~Locked(k)
    BY <2>2 DEF IInv, Counts, Fits, Current
  <2> QED BY <2>1, <2>2
<1> QED BY <1>1, Invariance, PTL

\* The provider takes a message once, and once more at most for every batch that died
\* and every answer that was lost.
THEOREM TakenOnce == Spec => []SentOnce
<1>1. IInv => SentOnce
  <2> SUFFICES ASSUME IInv, NEW k \in Key PROVE accepted[k] <= 1 + aborts + timeouts
    BY DEF SentOnce
  <2>1. aborts \in Nat /\ timeouts \in Nat /\ accepted[k] \in Nat
    BY OutboxConstants DEF IInv, TypeOK
  <2>2. PICK row : Fits(k, row)
    BY DEF IInv, Counts, Locked
  <2> QED BY <2>1, <2>2 DEF Fits
<1> QED BY <1>1, Invariance, PTL

-----------------------------------------------------------------------------
(* Outbox implements Ledger. *)

\* What may become of a row, as the ledger sees it.
Moved(old, new) ==
    \/ new.status = old.status /\ new.attempts = old.attempts
    \/ PromisedLedger!Recorded(old, new)
    \/ PromisedLedger!Attempted(old, new)
    \/ PromisedLedger!Forgotten(old, new)

LEMMA RowsMoved ==
    ASSUME IInv, [Next]_vars, NEW k \in Key PROVE Moved(rows[k], rows'[k])
<1>1. CASE UNCHANGED rows
  BY <1>1 DEF Moved
<1>2. ASSUME NEW e \in Emitter, EmitCommit(e) PROVE Moved(rows[k], rows'[k])
  <2>1. /\ emits[e].key \in Key /\ emits[e].status \in {"PENDING", "SKIPPED"}
        /\ rows[emits[e].key].status = "NONE"
    BY <1>2 DEF IInv, EmitsReady, EmitCommit, Insertable
  <2>2. rows' = [rows EXCEPT ![emits[e].key] =
                   [status |-> emits[e].status, attempts |-> 0, wait |-> 0]]
    BY <1>2 DEF EmitCommit
  <2>3. CASE k = emits[e].key
    BY <2>1, <2>2, <2>3 DEF Moved, PromisedLedger!Recorded, IInv, TypeOK
  <2>4. CASE k # emits[e].key
    BY <2>2, <2>4 DEF Moved, IInv, TypeOK
  <2> QED BY <2>3, <2>4
<1>3. ASSUME NEW d \in Dispatcher, Commit(d) PROVE Moved(rows[k], rows'[k])
  BY <1>3 DEF Commit, Moved, IInv, BatchesFollow
<1>4. ASSUME NEW u \in User, DeleteUser(u) PROVE Moved(rows[k], rows'[k])
  <2>1. PICK row \in Row : row = rows[k]
    BY DEF IInv, TypeOK
  <2> DEFINE gone == [row EXCEPT !.status = "DELETED", !.wait = 0]
  <2>2. gone.status = "DELETED" /\ gone.attempts = row.attempts
    BY DEF Row
  <2>3. rows'[k] = row \/ (row.status # "NONE" /\ rows'[k] = gone)
    BY <1>4, <2>1 DEF DeleteUser
  <2> HIDE DEF gone
  <2> QED BY <2>1, <2>2, <2>3 DEF Moved, PromisedLedger!Forgotten
<1>5. CASE Tick
  <2>1. PICK row \in Row : row = rows[k]
    BY DEF IInv, TypeOK
  <2>2. rows'[k] = [row EXCEPT !.wait = Less(@, 1)]
    BY <1>5, <2>1 DEF Tick
  <2> QED BY <2>1, <2>2, WaitLess DEF Moved
<1>6. \/ UNCHANGED rows \/ Tick
      \/ \E e \in Emitter : EmitCommit(e)
      \/ \E d \in Dispatcher : Commit(d)
      \/ \E u \in User : DeleteUser(u)
  BY DEF Next, vars, Work, EmitLookup, EmitFails, Claim, Attempt, Abort, UpdatePreference
<1> QED BY <1>1, <1>2, <1>3, <1>4, <1>5, <1>6

\* Whatever the schedule, the table of deliveries behaves as the ledger promises: a
\* notification is recorded once, attempted at most MaxAttempts times on record, one
\* attempt at a time, and settled for good.
THEOREM ImplementsLedger == Spec => KeepsLedger
<1> DEFINE entry(k) == [status |-> rows[k].status, attempts |-> rows[k].attempts]
           bar == [k \in Key |-> entry(k)]
<1>1. Init => PromisedLedger!LedgerInit
  BY DEF Init, Absent, PromisedLedger!LedgerInit
<1>2. IInv /\ IInv' /\ [Next]_vars => [PromisedLedger!LedgerNext]_bar
  <2> SUFFICES ASSUME IInv, IInv', [Next]_vars PROVE PromisedLedger!LedgerNext
    OBVIOUS
  <2>1. \A k \in Key : bar[k] = entry(k) /\ bar'[k] = entry(k)'
    OBVIOUS
  <2>2. bar' \in [Key -> PromisedLedger!Entry]
    <3>1. \A k \in Key : rows'[k] \in Row
      BY DEF IInv, TypeOK
    <3>2. \A k \in Key : entry(k)' \in PromisedLedger!Entry
      BY <3>1 DEF Row, DeliveryStatus, PromisedLedger!Entry, PromisedLedger!DeliveryStatus,
                  PromisedLedger!Gone
    <3> QED BY <3>2
  <2>3. ASSUME NEW k \in Key
        PROVE  \/ bar'[k] = bar[k]
               \/ PromisedLedger!Recorded(bar[k], bar'[k])
               \/ PromisedLedger!Attempted(bar[k], bar'[k])
               \/ PromisedLedger!Forgotten(bar[k], bar'[k])
    BY <2>1, RowsMoved DEF Moved, PromisedLedger!Recorded, PromisedLedger!Attempted,
                           PromisedLedger!Forgotten
  <2> QED BY <2>2, <2>3 DEF PromisedLedger!LedgerNext
<1>3. QED
  BY <1>1, <1>2, Invariance, PTL DEF Spec, KeepsLedger, PromisedLedger!LedgerSpec
-----------------------------------------------------------------------------
(* Preferences: who must not be written to, and who must. *)

\* A notification that was skipped, or never recorded, is not sent; and one that cannot be
\* opted out of is not skipped.
OptOutHolds ==
    \A k \in Key :
        /\ rows[k].status \in {"NONE", "SKIPPED"} => calls[k] = 0
        /\ rows[k].status = "SKIPPED" => CategoryOf[k] \notin Mandatory

\* Nor does an emit() under way skip it.
EmitsHold ==
    \A e \in Emitter : emits[e].status = "SKIPPED" => CategoryOf[emits[e].key] \notin Mandatory

LEMMA OptOutNext ==
    ASSUME IInv, OptOutHolds, EmitsHold, [Next]_vars PROVE OptOutHolds' /\ EmitsHold'
<1>1. ASSUME UNCHANGED <<rows, calls>> PROVE OptOutHolds'
  BY <1>1 DEF OptOutHolds
<1>2. ASSUME UNCHANGED emits PROVE EmitsHold'
  BY <1>2 DEF EmitsHold
<1>3. ASSUME NEW e \in Emitter, NEW k \in Key, EmitLookup(e, k) PROVE OptOutHolds' /\ EmitsHold'
  <2>1. emits' = [emits EXCEPT ![e] = [key |-> k, status |-> Resolved(k)]]
    BY <1>3 DEF EmitLookup
  <2>2. Resolved(k) = "SKIPPED" => CategoryOf[k] \notin Mandatory
    BY DEF Resolved
  <2>3. EmitsHold'
    BY <2>1, <2>2 DEF EmitsHold, IInv, TypeOK
  <2> QED BY <1>1, <1>3, <2>3 DEF EmitLookup
<1>4. ASSUME NEW e \in Emitter, EmitCommit(e) \/ EmitFails(e) PROVE EmitsHold'
  <2>1. emits' = [emits EXCEPT ![e] = NoEmit]
    BY <1>4 DEF EmitCommit, EmitFails
  <2> QED BY <2>1 DEF EmitsHold, IInv, TypeOK, NoEmit
\* The row that is inserted was not there: nobody has called the provider for it.
<1>5. ASSUME NEW e \in Emitter, EmitCommit(e) PROVE OptOutHolds'
  <2>1. /\ emits[e].key \in Key /\ rows[emits[e].key].status = "NONE"
        /\ rows' = [rows EXCEPT ![emits[e].key] =
                      [status |-> emits[e].status, attempts |-> 0, wait |-> 0]]
        /\ UNCHANGED calls
    BY <1>5 DEF IInv, EmitsReady, EmitCommit, Insertable
  <2>2. ASSUME NEW k \in Key, k = emits[e].key
        PROVE  /\ calls'[k] = 0
               /\ rows'[k].status = "SKIPPED" => CategoryOf[k] \notin Mandatory
    BY <2>1, <2>2 DEF OptOutHolds, EmitsHold, IInv, TypeOK
  <2>3. ASSUME NEW k \in Key, k # emits[e].key PROVE rows'[k] = rows[k]
    BY <2>1, <2>3 DEF IInv, TypeOK
  <2> QED BY <2>1, <2>2, <2>3 DEF OptOutHolds
\* An attempt is made on a pending row only.
<1>6. ASSUME NEW d \in Dispatcher, NEW k \in Key, NEW outcome \in Outcome,
             Attempt(d, k, outcome)
      PROVE  OptOutHolds'
  <2>1. rows[k].status = "PENDING"
    BY <1>6, BatchParts DEF IInv, BatchesFollow, Attempt
  <2>2. UNCHANGED rows /\ \A j \in Key : j # k => calls'[j] = calls[j]
    BY <1>6 DEF Attempt, IInv, TypeOK
  <2> QED BY <2>1, <2>2 DEF OptOutHolds
\* What else changes a row neither skips it nor takes it back.
<1>7. ASSUME UNCHANGED calls,
             \A k \in Key : rows'[k].status \in {"NONE", "SKIPPED"} => rows'[k].status = rows[k].status
      PROVE  OptOutHolds'
  BY <1>7 DEF OptOutHolds
<1>8. ASSUME NEW d \in Dispatcher, Commit(d) PROVE OptOutHolds'
  <2>1. \A k \in Claimed(d) : batches[d].rows[k].status \in {"PENDING", "SENT", "FAILED"}
    BY <1>8 DEF IInv, BatchesFollow, Commit, PromisedLedger!Attempted
  <2> QED BY <1>7, <1>8, <2>1 DEF Commit
<1>9. ASSUME NEW u \in User, DeleteUser(u) PROVE OptOutHolds'
  <2>1. ASSUME NEW k \in Key, rows'[k].status \in {"NONE", "SKIPPED"}
        PROVE  rows'[k].status = rows[k].status
    BY <1>9, <2>1 DEF DeleteUser, IInv, TypeOK, Row
  <2> QED BY <1>7, <1>9, <2>1 DEF DeleteUser
<1>10. ASSUME Tick PROVE OptOutHolds'
  <2>1. \A k \in Key : rows'[k].status = rows[k].status
    <3> SUFFICES ASSUME NEW k \in Key PROVE rows'[k].status = rows[k].status
      OBVIOUS
    <3>1. rows'[k] = [rows[k] EXCEPT !.wait = Less(@, 1)] /\ rows[k] \in Row
      BY <1>10 DEF Tick, IInv, TypeOK
    <3> QED BY <3>1 DEF Row
  <2> QED BY <1>7, <1>10, <2>1 DEF Tick
<1>11. OptOutHolds'
  <2>1. \/ UNCHANGED <<rows, calls>> \/ Tick
        \/ \E e \in Emitter : EmitCommit(e)
        \/ \E d \in Dispatcher : Commit(d)
        \/ \E d \in Dispatcher, k \in Key, outcome \in Outcome : Attempt(d, k, outcome)
        \/ \E u \in User : DeleteUser(u)
    BY DEF Next, vars, Work, EmitLookup, EmitFails, Claim, Abort, UpdatePreference
  <2> QED BY <1>1, <1>5, <1>6, <1>8, <1>9, <1>10, <2>1
<1>12. EmitsHold'
  <2>1. \/ UNCHANGED emits
        \/ \E e \in Emitter : (\E k \in Key : EmitLookup(e, k)) \/ EmitCommit(e) \/ EmitFails(e)
    BY DEF Next, vars, Work, Claim, Commit, Attempt, Abort, UpdatePreference, DeleteUser, Tick
  <2> QED BY <1>2, <1>3, <1>4, <2>1
<1> QED BY <1>11, <1>12

\* The preference is read when the event is recorded, and holds whatever is delivered
\* around it: no provider is called for a notification that was skipped, and a mandatory
\* one is never skipped.
THEOREM OptOutIsKept == Spec => []OptOutHolds
<1>1. Init => OptOutHolds /\ EmitsHold
  BY DEF Init, OptOutHolds, EmitsHold, Absent, NoEmit
<1>2. IInv /\ OptOutHolds /\ EmitsHold /\ [Next]_vars => OptOutHolds' /\ EmitsHold'
  BY OptOutNext
<1> QED BY <1>1, <1>2, Invariance, PTL DEF Spec
=============================================================================
