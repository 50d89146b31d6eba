------------------------ MODULE BookingsLedgerProofs ------------------------
(***************************************************************************)
(* Why what is recorded of a booking agrees with what happened to it: its  *)
(* acceptance, its certificate and its payment, the aggregates of its      *)
(* master's row, and its expiry.                                           *)
(*                                                                         *)
(* Each of them is written by a transaction from what it read, so the      *)
(* invariant says what a transaction knows: a lock on the booking keeps    *)
(* its row, and a snapshot not yet outdated keeps the master's.            *)
(***************************************************************************)
EXTENDS BookingsProofs

AfterAcceptance == {"ACCEPTED", "IN_PROGRESS", "COMPLETED"}

RowsRecorded ==
  \A b \in Bookings :
    /\ row[b].status = "NONE" => row[b].acceptance = "no"
    /\ row[b].status \in AfterAcceptance => row[b].acceptance # "no"
    /\ row[b].status = "COMPLETED" => b \in certs
    /\ row[b].paid > 0 => b \in certs

\* What a transaction may write, and what it has read that no other takes back.
Recording(t) ==
  /\ t.phase # "idle" /\ t.op = "Create" =>
       /\ t.new.paid = 0 /\ t.new.acceptance # "master"
       /\ t.new.status = "ACCEPTED" => t.new.acceptance = "instant"
  /\ t.phase # "idle" /\ t.op = "Pay" => t.bk \in certs
  /\ t.phase \in InTx /\ t.op \in {"Start", "Complete"} => row[t.bk].acceptance # "no"
  /\ t.phase \in Locking =>
       /\ t.new.status \in AfterAcceptance => t.new.acceptance # "no"
       /\ row[t.bk].acceptance # "no" => t.new.acceptance # "no"
       /\ t.new.acceptance = "master" => t.op = "Accept" \/ row[t.bk].acceptance = "master"
       /\ t.new.status = "COMPLETED" => t.op = "Complete" \/ t.bk \in certs
       /\ t.new.paid > 0 => t.bk \in certs

\* What accept's aggregate query returned stays true until another commit of the
\* master's row outdates it, and that cannot happen once the master's row is locked.
Averaging(t) ==
  t.op = "Accept" /\ t.phase \in InTx =>
    /\ t.bk \in t.agg.timed
    /\ t.phase = "ready" => "master" \notin t.stale
    /\ "master" \notin t.stale =>
         \A c \in SameMaster(t.bk) : row[c].acceptance = "master" => c \in t.agg.timed

MastersExclusive ==
  \A r \in Requests, q \in Requests, m \in Masters :
    HoldsMaster(r, m) /\ HoldsMaster(q, m) => r = q

LedgerInv ==
  /\ RowsRecorded /\ MastersExclusive /\ AggregatesAgree
  /\ \A r \in Requests : Recording(tx[r]) /\ Averaging(tx[r])

\* A booking's expiry is recorded, owed by one job, or has not happened.
Unexpired(b) == \A i \in DOMAIN hist[b] : hist[b][i] # "EXPIRED"
ExpiryInv ==
  \A b \in Bookings :
    /\ row[b].status \in {"NONE", "PENDING"} => Unexpired(b) /\ \A j \in Jobs : b \notin job[j]
    /\ \A j \in Jobs : b \in job[j] =>
         Unexpired(b) /\ \A k \in Jobs : b \in job[k] => k = j
    /\ \A i \in DOMAIN hist[b], k \in DOMAIN hist[b] :
         hist[b][i] = "EXPIRED" /\ hist[b][k] = "EXPIRED" => i = k

-----------------------------------------------------------------------------
(* Expiry *)

\* Most of a request's steps touch nothing but its transaction.
LEMMA RequestsKeepRows ==
  ASSUME TypeOK, NEW r \in Requests,
         \/ Arrive(r) \/ DatabaseAbort(r) \/ Crash(r)
         \/ Advance(r) /\ ~Commit(r) /\ ~ApplyPayment(r)
  PROVE  UNCHANGED <<row, hist, certs, stat, job>>
<1>1. CASE Arrive(r)
  BY <1>1 DEF Arrive, BeginTransition, ValidateCreate, ValidateReschedule, ValidatePayment,
    Load, Validated
<1>2. CASE DatabaseAbort(r) \/ Crash(r)
  BY <1>2 DEF DatabaseAbort, Crash, Fail, RunAgain
<1>3. CASE RetryTransition(r) \/ OpenTransaction(r) \/ WriteBooking(r)
  BY <1>3 DEF RetryTransition, OpenTransaction, WriteBooking, Load
<1>4. CASE ReadAggregates(r) \/ WriteMaster(r)
  BY <1>4 DEF ReadAggregates, WriteMaster
<1>5. CASE Refused(r) \/ Excluded(r) \/ AlreadyCertified(r) \/ WriteConflict(r)
  BY <1>5 DEF Refused, Excluded, AlreadyCertified, WriteConflict, Fail, RunAgain
<1>. QED BY <1>1, <1>2, <1>3, <1>4, <1>5 DEF Advance

\* A commit inserts no empty row, revives no expired one, and expires none.
LEMMA CommitStatus ==
  ASSUME TypeOK, AcceptInv, NEW r \in Requests, Commit(r)
  PROVE  /\ tx[r].new.status # "NONE"
         /\ tx[r].new.status = "PENDING" => row[tx[r].bk].status \in {"NONE", "PENDING"}
         /\ tx[r].op # "Reschedule" => tx[r].new.status # "EXPIRED"
<1>. DEFINE b == tx[r].bk  o == tx[r].op
<1>1. tx[r].phase \in Locking
  BY CommitEffect
<1>2. tx[r].phase # "idle" /\ o \in OpNames /\ o # "Pay" /\ SoundTx(tx[r])
  BY <1>1 DEF TypeOK, AcceptInv, InTx, Locking
<1>3. CASE o = "Create"
  BY <1>2, <1>3 DEF SoundTx, Open
<1>4. CASE o = "Reschedule"
  BY <1>1, <1>2, <1>4 DEF SoundTx
<1>5. CASE o \in TransitionOps
  <2>1. tx[r].new.status = Target[o]
    BY <1>1, <1>2, <1>5 DEF SoundTx
  <2>2. Target[o] \notin {"NONE", "PENDING", "EXPIRED"}
    BY <1>5, TransitionOpsNames DEF Target
  <2>. QED BY <2>1, <2>2
<1>. QED BY <1>2, <1>3, <1>4, <1>5 DEF OpNames

LEMMA AppendExpired ==
  ASSUME NEW T, NEW s \in Seq(T), NEW e \in T
  PROVE  /\ DOMAIN Append(s, e) = DOMAIN s \cup {Len(s) + 1}
         /\ Append(s, e)[Len(s) + 1] = e
         /\ \A i \in DOMAIN s : Append(s, e)[i] = s[i]
         /\ Len(s) + 1 \notin DOMAIN s
OBVIOUS

LEMMA CommitExpiry ==
  ASSUME TypeOK, AcceptInv, ExpiryInv, NEW r \in Requests, Commit(r)
  PROVE  ExpiryInv'
<1>. DEFINE b == tx[r].bk  new == tx[r].new
<1>1. /\ b \in Bookings /\ new \in Row /\ row' = [row EXCEPT ![b] = new]
  BY CommitEffect
<1>2. row'[b] = new /\ \A c \in Bookings \ {b} : row'[c] = row[c]
  BY <1>1 DEF TypeOK
<1>3. /\ job' = job
      /\ \A c \in Bookings \ {b} : hist'[c] = hist[c]
      /\ hist'[b] = hist[b] \/ (tx[r].op # "Reschedule" /\ hist'[b] = Append(hist[b], new.status))
  BY <1>1 DEF Commit, TypeOK
<1>4. /\ new.status \in {"NONE", "PENDING"} => row[b].status \in {"NONE", "PENDING"}
      /\ tx[r].op # "Reschedule" => new.status # "EXPIRED"
  BY CommitStatus
<1>5. \A c \in Bookings :
        row'[c].status \in {"NONE", "PENDING"} => row[c].status \in {"NONE", "PENDING"}
  BY <1>2, <1>4
<1>6. \A c \in Bookings : \A i \in DOMAIN hist'[c] :
        hist'[c][i] = "EXPIRED" => i \in DOMAIN hist[c] /\ hist[c][i] = "EXPIRED"
  <2>1. CASE tx[r].op # "Reschedule" /\ hist'[b] = Append(hist[b], new.status)
    <3>1. hist[b] \in Seq(RowStatuses) /\ new.status \in RowStatuses
      BY <1>1 DEF TypeOK, Row
    <3>2. \A i \in DOMAIN hist'[b] :
            hist'[b][i] = "EXPIRED" => i \in DOMAIN hist[b] /\ hist[b][i] = "EXPIRED"
      BY <1>4, <2>1, <3>1, AppendExpired
    <3>. QED BY <1>3, <3>2
  <2>2. CASE hist'[b] = hist[b]
    BY <1>3, <2>2
  <2>. QED BY <1>3, <2>1, <2>2
<1>7. \A c \in Bookings : Unexpired(c) => Unexpired(c)'
  BY <1>6 DEF Unexpired
<1>. HIDE DEF b, new
<1>. QED BY <1>3, <1>5, <1>6, <1>7 DEF ExpiryInv

LEMMA ExpireDueExpiry ==
  ASSUME TypeOK, ExpiryInv, NEW j \in Jobs, ExpireDue(j)
  PROVE  ExpiryInv'
<1>1. PICK batch \in SUBSET Due :
        /\ row' = [b \in Bookings |->
                     IF b \in batch THEN [row[b] EXCEPT !.status = "EXPIRED"] ELSE row[b]]
        /\ job' = [job EXCEPT ![j] = batch]
  BY DEF ExpireDue
<1>2. \A b \in Bookings :
        /\ b \in batch => row[b].status = "PENDING" /\ row'[b].status = "EXPIRED"
        /\ b \notin batch => row'[b] = row[b]
  BY <1>1 DEF Due, TypeOK, Row
<1>3. job[j] = {} /\ hist' = hist /\ job'[j] = batch /\ \A k \in Jobs \ {j} : job'[k] = job[k]
  BY <1>1 DEF ExpireDue, TypeOK
<1>4. \A b \in Bookings : Unexpired(b)' <=> Unexpired(b)
  BY <1>3 DEF Unexpired
<1>5. \A b \in batch : Unexpired(b) /\ \A k \in Jobs : b \notin job[k]
  BY <1>1, <1>2 DEF ExpiryInv, Due
<1>. QED BY <1>2, <1>3, <1>4, <1>5 DEF ExpiryInv

LEMMA AppendExpiry ==
  ASSUME TypeOK, ExpiryInv, NEW j \in Jobs, AppendExpiryHistory(j)
  PROVE  ExpiryInv'
<1>1. /\ row' = row
      /\ \A b \in Bookings : b \in job[j] => hist'[b] = Append(hist[b], "EXPIRED")
      /\ \A b \in Bookings : b \notin job[j] => hist'[b] = hist[b]
      /\ job'[j] = {} /\ \A k \in Jobs \ {j} : job'[k] = job[k]
  BY DEF AppendExpiryHistory, TypeOK
<1>2. \A b \in Bookings : b \notin job[j] => (Unexpired(b)' <=> Unexpired(b))
  BY <1>1 DEF Unexpired
<1>3. ASSUME NEW b \in Bookings, b \in job[j],
             NEW i \in DOMAIN hist'[b], NEW k \in DOMAIN hist'[b],
             hist'[b][i] = "EXPIRED", hist'[b][k] = "EXPIRED"
      PROVE  i = k
  <2>1. hist[b] \in Seq(RowStatuses) /\ "EXPIRED" \in RowStatuses
    BY DEF TypeOK, RowStatuses, Statuses
  <2>2. \A n \in DOMAIN hist[b] : hist[b][n] # "EXPIRED"
    BY <1>3 DEF ExpiryInv, Unexpired
  <2>. QED BY <1>1, <1>3, <2>1, <2>2, AppendExpired
<1>. QED BY <1>1, <1>2, <1>3 DEF ExpiryInv

LEMMA StepExpiry ==
  TypeOK /\ AcceptInv /\ ExpiryInv /\ [Next]_vars => ExpiryInv'
<1>. SUFFICES ASSUME TypeOK, AcceptInv, ExpiryInv, [Next]_vars PROVE ExpiryInv'
  OBVIOUS
<1>1. CASE UNCHANGED <<row, hist, job>>
  BY <1>1 DEF ExpiryInv, Unexpired
<1>2. ASSUME NEW r \in Requests, ApplyPayment(r) PROVE ExpiryInv'
  <2>1. \A b \in Bookings : row'[b].status = row[b].status
    BY <1>2 DEF ApplyPayment, TypeOK, Row
  <2>. QED BY <1>2, <2>1 DEF ApplyPayment, ExpiryInv, Unexpired
<1>3. ASSUME NEW j \in Jobs, JobCrash(j) PROVE ExpiryInv'
  <2>1. \A k \in Jobs : job'[k] \subseteq job[k]
    BY <1>3 DEF JobCrash, TypeOK
  <2>. QED BY <1>3, <2>1 DEF JobCrash, ExpiryInv, Unexpired
<1>4. ASSUME NEW r \in Requests, Arrive(r) \/ Advance(r) \/ DatabaseAbort(r) \/ Crash(r)
      PROVE  ExpiryInv'
  BY <1>1, <1>2, <1>4, RequestsKeepRows, CommitExpiry
<1>5. ASSUME NEW j \in Jobs, RunJob(j) PROVE ExpiryInv'
  BY <1>5, ExpireDueExpiry, AppendExpiry DEF RunJob
<1>6. CASE Tick \/ UNCHANGED vars
  BY <1>1, <1>6 DEF Tick, vars
<1>. QED BY <1>3, <1>4, <1>5, <1>6 DEF Next

LEMMA InitExpiry == Init => ExpiryInv
<1>. SUFFICES ASSUME Init PROVE ExpiryInv
  OBVIOUS
<1>1. PICK st \in [Bookings -> InitialStatuses] : hist = [b \in Bookings |-> Path(st[b])]
  BY DEF Init
<1>2. ASSUME NEW b \in Bookings PROVE Unexpired(b)
  <2>1. st[b] \in {"NONE", "PENDING", "ACCEPTED", "IN_PROGRESS"} /\ hist[b] = Path(st[b])
    BY <1>1, ConstantsAssumption DEF ConstantsAssumption
  <2>. QED BY <2>1 DEF Unexpired, Path
<1>3. \A j \in Jobs : job[j] = {}
  BY DEF Init
<1>. QED BY <1>2, <1>3 DEF ExpiryInv, Unexpired

\* At most one position of a booking's history is an expiry.
LEMMA OneExpiry == ExpiryInv => ExpiryRecordedOnce
<1>. SUFFICES ASSUME ExpiryInv, NEW b \in Bookings
              PROVE  Cardinality({i \in DOMAIN hist[b] : hist[b][i] = "EXPIRED"}) <= 1
  BY DEF ExpiryRecordedOnce
<1>. DEFINE E == {i \in DOMAIN hist[b] : hist[b][i] = "EXPIRED"}
<1>1. CASE E = {}
  BY <1>1, FS_EmptySet
<1>2. CASE E # {}
  <2>1. PICK i \in E : TRUE
    BY <1>2
  <2>2. E = {i}
    BY <2>1 DEF ExpiryInv
  <2>3. Cardinality(E) = 1
    BY <2>2, FS_Singleton
  <2>. QED BY <2>3
<1>. QED BY <1>1, <1>2

\* expireDueBookings: however many instances of the job and requests race, a booking's
\* history holds at most one expiry.
THEOREM ExpiredOnce == Spec => []ExpiryRecordedOnce
<1>2. TypeOK /\ SlotInv /\ AcceptInv /\ ExpiryInv /\ [Next]_vars => ExpiryInv'
  BY StepExpiry
<1>3. Init => ExpiryInv
  BY InitExpiry
<1>4. ExpiryInv => ExpiryRecordedOnce
  BY OneExpiry
<1>. QED BY <1>2, <1>3, <1>4, AcceptsKept, PTL DEF Spec

-----------------------------------------------------------------------------
(* Acceptance, certificates, payments and aggregates: one request's steps *)

\* t holds the row of master m.
HoldsIts(t, m) ==
  t.op \in MasterOps /\ t.phase \in {"counted", "ready"} /\ MasterOf[t.bk] = m

\* Rows as they were, and one transaction replaced by one that knows what it should.
LEMMA OneTxLedger ==
  ASSUME TypeOK, LedgerInv, NEW r \in Requests, NEW t, UNCHANGED <<row, certs, stat>>,
         tx' = [tx EXCEPT ![r] = t], Recording(t), Averaging(t),
         \A m \in Masters : HoldsIts(t, m) => HoldsMaster(r, m) \/ ~MasterLocked(m)
  PROVE  LedgerInv'
<1>1. tx'[r] = t /\ \A q \in Requests \ {r} : tx'[q] = tx[q]
  BY DEF TypeOK
<1>2. RowsRecorded' /\ AggregatesAgree'
  BY DEF LedgerInv, RowsRecorded, AggregatesAgree
<1>3. \A q \in Requests : Recording(tx'[q]) /\ Averaging(tx'[q])
  BY <1>1 DEF LedgerInv
<1>4. \A q \in Requests : Recording(tx[q])' /\ Averaging(tx[q])'
  BY <1>3 DEF Recording, Averaging
<1>5. MastersExclusive'
  <2>1. \A q \in Requests \ {r}, m \in Masters : HoldsMaster(q, m)' <=> HoldsMaster(q, m)
    BY <1>1 DEF HoldsMaster
  <2>2. \A m \in Masters : HoldsMaster(r, m)' => HoldsMaster(r, m) \/ ~MasterLocked(m)
    BY <1>1 DEF HoldsMaster, HoldsIts
  <2>. QED BY <2>1, <2>2 DEF LedgerInv, MastersExclusive, MasterLocked
<1>. QED BY <1>2, <1>4, <1>5 DEF LedgerInv

\* Nor need it say anything of the master's row, in a phase that has not locked it.
LEMMA UnlockedLedger ==
  ASSUME TypeOK, LedgerInv, NEW r \in Requests, NEW t, UNCHANGED <<row, certs, stat>>,
         tx' = [tx EXCEPT ![r] = t], Recording(t), Averaging(t),
         t.phase \notin {"counted", "ready"}
  PROVE  LedgerInv'
<1>1. \A m \in Masters : ~HoldsIts(t, m)
  BY DEF HoldsIts
<1>. QED BY <1>1, OneTxLedger

LEMMA NoTxLedger == Recording(NoTx) /\ Averaging(NoTx) /\ NoTx.phase = "idle"
BY DEF Recording, Averaging, NoTx, Begun, InTx, Locking

LEMMA LoadLedger ==
  ASSUME TypeOK, LedgerInv, NEW r \in Requests, NEW o \in TransitionOps,
         NEW b \in Bookings, NEW attempt, NEW arrival, Load(r, o, b, attempt, arrival)
  PROVE  LedgerInv'
<1>. DEFINE agg == IF o = "Accept" THEN AcceptAggregates(b) ELSE NoAggregates
            t == Begun("loaded", o, b, attempt, NoRow, agg, arrival)
<1>1. tx' = [tx EXCEPT ![r] = t] /\ UNCHANGED <<row, certs, stat>>
  BY DEF Load
<1>2. o \in {"Start", "Complete"} => row[b].status \in {"ACCEPTED", "IN_PROGRESS"}
  BY DEF Load, Legal, CanTransition, Transitions, Target, Actor
<1>3. o \in {"Start", "Complete"} => row[b].acceptance # "no"
  BY <1>2 DEF LedgerInv, RowsRecorded, AfterAcceptance
<1>4. o = "Accept" => /\ b \in agg.timed
                      /\ \A c \in SameMaster(b) : row[c].acceptance = "master" => c \in agg.timed
  BY DEF AcceptAggregates
<1>. HIDE DEF agg
<1>5. t.phase = "loaded" /\ t.op = o /\ t.bk = b /\ t.agg = agg
  BY DEF Begun
<1>. HIDE DEF t
<1>6. o # "Create" /\ o # "Pay"
  BY TransitionOpsNames
<1>7. Recording(t)
  BY <1>3, <1>5, <1>6 DEF Recording, Locking
<1>8. Averaging(t)
  BY <1>4, <1>5 DEF Averaging
<1>. QED BY <1>1, <1>5, <1>7, <1>8, UnlockedLedger

LEMMA ValidatedLedger ==
  ASSUME TypeOK, LedgerInv, NEW r \in Requests, NEW o, NEW b \in Bookings, NEW new,
         Validated(r, o, b, new),
         o = "Create" => /\ new.paid = 0 /\ new.acceptance # "master"
                         /\ new.status = "ACCEPTED" => new.acceptance = "instant",
         o = "Pay" => b \in certs
  PROVE  LedgerInv'
<1>. DEFINE t == Begun("again", o, b, 1, new, NoAggregates, now)
<1>1. tx' = [tx EXCEPT ![r] = t] /\ UNCHANGED <<row, certs, stat>>
  BY DEF Validated
<1>2. t.phase = "again" /\ t.op = o /\ t.bk = b /\ t.new = new
  BY DEF Begun
<1>. HIDE DEF t
<1>3. Recording(t) /\ Averaging(t)
  BY <1>2 DEF Recording, Averaging, InTx, Locking
<1>. QED BY <1>1, <1>2, <1>3, UnlockedLedger

LEMMA FailLedger ==
  ASSUME TypeOK, LedgerInv, NEW r \in Requests, Fail(r)
  PROVE  LedgerInv'
BY NoTxLedger, UnlockedLedger DEF Fail

LEMMA RunAgainLedger ==
  ASSUME TypeOK, LedgerInv, NEW r \in Requests, RunAgain(r), tx[r].phase # "idle"
  PROVE  LedgerInv'
<1>. DEFINE new == IF tx[r].op \in TransitionOps THEN NoRow ELSE tx[r].new
            again == Begun("again", tx[r].op, tx[r].bk, tx[r].att + 1, new,
                           NoAggregates, tx[r].born)
            t == IF tx[r].att = MAX_ATTEMPTS THEN NoTx ELSE again
<1>1. tx' = [tx EXCEPT ![r] = t] /\ UNCHANGED <<row, certs, stat>>
  BY DEF RunAgain, TypeOK
<1>2. Recording(tx[r]) /\ (tx[r].op = "Create" => new = tx[r].new)
  BY TransitionOpsNames DEF LedgerInv
<1>. HIDE DEF new
<1>3. /\ again.phase = "again" /\ again.op = tx[r].op /\ again.bk = tx[r].bk
      /\ again.new = new
  BY DEF Begun
<1>. HIDE DEF again
<1>4. Recording(again) /\ Averaging(again)
  BY <1>2, <1>3 DEF Recording, Averaging, InTx, Locking
<1>5. Recording(t) /\ Averaging(t) /\ t.phase \in {"idle", "again"}
  BY <1>3, <1>4, NoTxLedger
<1>. HIDE DEF t
<1>. QED BY <1>1, <1>5, UnlockedLedger

LEMMA ArriveLedger ==
  ASSUME TypeOK, LedgerInv, NEW r \in Requests, Arrive(r)
  PROVE  LedgerInv'
<1>1. CASE BeginTransition(r)
  BY <1>1, LoadLedger DEF BeginTransition
<1>2. CASE ValidateCreate(r)
  <2>1. PICK b \in Bookings, s \in Starts :
          Validated(r, "Create", b,
            IF InstantBook(MasterOf[b])
            THEN [ NoRow EXCEPT !.status = "ACCEPTED", !.start = s, !.acceptance = "instant" ]
            ELSE [ NoRow EXCEPT !.status = "PENDING", !.start = s ])
    BY <1>2 DEF ValidateCreate
  <2>. DEFINE new == IF InstantBook(MasterOf[b])
               THEN [ NoRow EXCEPT !.status = "ACCEPTED", !.start = s, !.acceptance = "instant" ]
               ELSE [ NoRow EXCEPT !.status = "PENDING", !.start = s ]
  <2>2. /\ new.paid = 0 /\ new.acceptance # "master"
        /\ new.status = "ACCEPTED" => new.acceptance = "instant"
    BY DEF NoRow
  <2>3. Validated(r, "Create", b, new)
    BY <2>1
  <2>. HIDE DEF new
  <2>. QED BY <2>2, <2>3, ValidatedLedger
<1>3. CASE ValidateReschedule(r)
  <2>1. PICK b \in Bookings, s \in Starts :
          Validated(r, "Reschedule", b, [ NoRow EXCEPT !.start = s ])
    BY <1>3 DEF ValidateReschedule
  <2>. QED BY <2>1, ValidatedLedger
<1>4. CASE ValidatePayment(r)
  <2>1. PICK b \in Bookings : Payable(b) /\ Validated(r, "Pay", b, NoRow)
    BY <1>4 DEF ValidatePayment
  <2>2. b \in certs
    BY <2>1 DEF Payable, LedgerInv, RowsRecorded
  <2>. QED BY <2>1, <2>2, ValidatedLedger
<1>. QED BY <1>1, <1>2, <1>3, <1>4 DEF Arrive

\* What the row written says, when the transaction and the committed row say it.
LEMMA WrittenRecords ==
  ASSUME TypeOK, LedgerInv, AcceptInv, NEW r \in Requests, tx[r].phase = "loaded"
  PROVE  LET b == tx[r].bk  new == Written(r) IN
         /\ new.status \in AfterAcceptance => new.acceptance # "no"
         /\ row[b].acceptance # "no" => new.acceptance # "no"
         /\ new.acceptance = "master" => tx[r].op = "Accept" \/ row[b].acceptance = "master"
         /\ new.status = "COMPLETED" => tx[r].op = "Complete" \/ b \in certs
         /\ new.paid > 0 => b \in certs
<1>. DEFINE b == tx[r].bk  o == tx[r].op  new == Written(r)
<1>1. /\ b \in Bookings /\ row[b] \in Row /\ o \in OpNames /\ o # "Pay"
      /\ Recording(tx[r]) /\ SoundTx(tx[r])
  BY DEF TypeOK, LedgerInv, AcceptInv, InTx
<1>2. /\ row[b].status = "NONE" => row[b].acceptance = "no"
      /\ row[b].status \in AfterAcceptance => row[b].acceptance # "no"
      /\ row[b].status = "COMPLETED" => b \in certs
      /\ row[b].paid > 0 => b \in certs
  BY <1>1 DEF LedgerInv, RowsRecorded
<1>3. CASE o = "Create"
  <2>1. /\ new = tx[r].new /\ row[b].acceptance = "no" /\ new.paid = 0
        /\ new.acceptance # "master" /\ new.status \in Open
        /\ new.status = "ACCEPTED" => new.acceptance = "instant"
    BY <1>1, <1>2, <1>3 DEF Written, Recording, SoundTx
  <2>. QED BY <2>1 DEF AfterAcceptance, Open
<1>4. CASE o = "Reschedule"
  <2>1. /\ new.status = row[b].status /\ new.acceptance = row[b].acceptance
        /\ new.paid = row[b].paid
    BY <1>1, <1>4 DEF Written, Row
  <2>. QED BY <1>2, <2>1
<1>5. CASE o = "Accept"
  <2>1. new.status = "ACCEPTED" /\ new.acceptance = "master" /\ new.paid = row[b].paid
    BY <1>1, <1>5 DEF Written, Row
  <2>. QED BY <1>2, <1>5, <2>1
<1>6. CASE o \in TransitionOps \ {"Accept"}
  <2>1. o # "Create" /\ o # "Reschedule" /\ o # "Accept"
    BY <1>6, TransitionOpsNames
  <2>2. /\ new.status = Target[o] /\ new.acceptance = row[b].acceptance
        /\ new.paid = row[b].paid
    BY <1>1, <2>1 DEF Written, Row
  <2>3. /\ Target[o] \in AfterAcceptance => o \in {"Start", "Complete"}
        /\ Target[o] = "COMPLETED" => o = "Complete"
    BY <1>6, TransitionOpsNames DEF Target, AfterAcceptance
  <2>4. o \in {"Start", "Complete"} => row[b].acceptance # "no"
    BY <1>1 DEF Recording, InTx
  <2>. QED BY <1>2, <2>2, <2>3, <2>4
<1>. QED BY <1>1, <1>3, <1>4, <1>5, <1>6 DEF OpNames

LEMMA WriteLedger ==
  ASSUME TypeOK, LedgerInv, AcceptInv, NEW r \in Requests, WriteBooking(r)
  PROVE  LedgerInv'
<1>. DEFINE new == Written(r)
            phase == IF tx[r].op \in MasterOps THEN "written" ELSE "ready"
            t == [ tx[r] EXCEPT !.new = new, !.phase = phase ]
<1>1. /\ tx' = [tx EXCEPT ![r] = t] /\ UNCHANGED <<row, certs, stat>>
      /\ tx[r] \in Tx /\ tx[r].phase = "loaded"
  BY DEF WriteBooking, TypeOK
<1>2. /\ new.status \in AfterAcceptance => new.acceptance # "no"
      /\ row[tx[r].bk].acceptance # "no" => new.acceptance # "no"
      /\ new.acceptance = "master" => tx[r].op = "Accept" \/ row[tx[r].bk].acceptance = "master"
      /\ new.status = "COMPLETED" => tx[r].op = "Complete" \/ tx[r].bk \in certs
      /\ new.paid > 0 => tx[r].bk \in certs
  BY <1>1, WrittenRecords
<1>3. tx[r].op = "Create" => new = tx[r].new
  BY DEF Written
<1>. HIDE DEF new
<1>4. /\ t.phase = phase /\ t.op = tx[r].op /\ t.bk = tx[r].bk /\ t.new = new
      /\ t.agg = tx[r].agg /\ t.stale = tx[r].stale
  BY <1>1 DEF Tx
<1>. HIDE DEF t
<1>5. Recording(tx[r]) /\ Averaging(tx[r])
  BY DEF LedgerInv
<1>6. Recording(t)
  BY <1>1, <1>2, <1>3, <1>4, <1>5 DEF Recording, InTx, Locking
<1>7. Averaging(t)
  BY <1>1, <1>4, <1>5 DEF Averaging, InTx, Locking, MasterOps
<1>8. \A m : ~HoldsIts(t, m)
  BY <1>4 DEF HoldsIts
<1>. QED BY <1>1, <1>6, <1>7, <1>8, OneTxLedger

\* A transaction that goes on with its locks, its row and its latencies.
LEMMA GoesOnLedger ==
  ASSUME TypeOK, LedgerInv, NEW r \in Requests, NEW t, UNCHANGED <<row, certs, stat>>,
         tx' = [tx EXCEPT ![r] = t], tx[r].phase \in Locking, t.phase \in Locking,
         t.op = tx[r].op, t.bk = tx[r].bk, t.new = tx[r].new,
         t.agg.timed = tx[r].agg.timed, t.stale = tx[r].stale,
         t.op = "Accept" /\ t.phase = "ready" => "master" \notin t.stale,
         \A m \in Masters : HoldsIts(t, m) => HoldsMaster(r, m) \/ ~MasterLocked(m)
  PROVE  LedgerInv'
<1>1. Recording(tx[r]) /\ Averaging(tx[r])
  BY DEF LedgerInv
<1>2. Recording(t)
  BY <1>1 DEF Recording, InTx, Locking
<1>3. Averaging(t)
  BY <1>1 DEF Averaging, InTx, Locking
<1>. QED BY <1>2, <1>3, OneTxLedger

LEMMA ReadAggregatesLedger ==
  ASSUME TypeOK, LedgerInv, NEW r \in Requests, ReadAggregates(r)
  PROVE  LedgerInv'
<1>. DEFINE t == tx'[r]
<1>1. tx[r] \in Tx /\ UNCHANGED <<row, certs, stat>>
  BY DEF ReadAggregates, TypeOK
<1>2. PICK agg :
        /\ agg.timed = tx[r].agg.timed
        /\ tx' = [tx EXCEPT ![r].agg = agg,
                            ![r].phase = IF tx[r].op = "Complete" THEN "ready" ELSE "selected"]
  <2>1. tx[r].agg \in Aggregates
    BY <1>1 DEF Tx
  <2>2. \A d, a : [ tx[r].agg EXCEPT !.done = d, !.axed = a ].timed = tx[r].agg.timed
    BY <2>1 DEF Aggregates
  <2>3. PICK d, a :
          tx' = [tx EXCEPT ![r].agg = [ @ EXCEPT !.done = d, !.axed = a ],
                           ![r].phase = IF tx[r].op = "Complete" THEN "ready" ELSE "selected"]
    BY Zenon DEF ReadAggregates
  <2>. DEFINE read == [ tx[r].agg EXCEPT !.done = d, !.axed = a ]
  <2>4. tx' = [tx EXCEPT ![r].agg = read,
                         ![r].phase = IF tx[r].op = "Complete" THEN "ready" ELSE "selected"]
    BY <2>3, <1>1 DEF TypeOK
  <2>5. read.timed = tx[r].agg.timed
    BY <2>2
  <2>. HIDE DEF read
  <2>. QED BY <2>4, <2>5
<1>3. /\ tx' = [tx EXCEPT ![r] = t]
      /\ t.phase = (IF tx[r].op = "Complete" THEN "ready" ELSE "selected")
      /\ t.op = tx[r].op /\ t.bk = tx[r].bk /\ t.new = tx[r].new
      /\ t.agg.timed = tx[r].agg.timed /\ t.stale = tx[r].stale
  BY <1>1, <1>2 DEF TypeOK, Tx
<1>4. tx[r].phase = "counted" \/ (tx[r].phase = "written" /\ tx[r].op = "MasterCancel")
  BY DEF ReadAggregates
<1>. HIDE DEF t
<1>5. \A m \in Masters : HoldsIts(t, m) => HoldsMaster(r, m)
  BY <1>3, <1>4 DEF HoldsIts, HoldsMaster
<1>6. tx[r].phase \in Locking /\ t.phase \in Locking
  BY <1>3, <1>4 DEF Locking
<1>. QED BY <1>1, <1>3, <1>5, <1>6, GoesOnLedger

LEMMA WriteMasterLedger ==
  ASSUME TypeOK, LedgerInv, NEW r \in Requests, WriteMaster(r)
  PROVE  LedgerInv'
<1>. DEFINE t == tx'[r]
<1>1. /\ tx[r] \in Tx /\ UNCHANGED <<row, certs, stat>>
      /\ tx[r].phase \in {"written", "selected"} /\ "master" \notin tx[r].stale
      /\ ~MasterLocked(MasterOf[tx[r].bk])
  BY DEF WriteMaster, TypeOK
<1>2. /\ tx' = [tx EXCEPT ![r] = t]
      /\ t.phase \in {"counted", "ready"}
      /\ t.op = tx[r].op /\ t.bk = tx[r].bk /\ t.new = tx[r].new
      /\ t.agg = tx[r].agg /\ t.stale = tx[r].stale
  BY <1>1 DEF WriteMaster, TypeOK, Tx
<1>. HIDE DEF t
<1>3. \A m \in Masters : HoldsIts(t, m) => ~MasterLocked(m)
  BY <1>1, <1>2 DEF HoldsIts
<1>4. tx[r].phase \in Locking /\ t.phase \in Locking
  BY <1>1, <1>2 DEF Locking
<1>. QED BY <1>1, <1>2, <1>3, <1>4, GoesOnLedger

LEMMA OpenLedger ==
  ASSUME TypeOK, LedgerInv, NEW r \in Requests, OpenTransaction(r)
  PROVE  LedgerInv'
<1>. DEFINE t == [ tx[r] EXCEPT !.phase = "loaded" ]
<1>1. tx[r] \in Tx /\ tx[r].phase = "again" /\ tx[r].op \in {"Create", "Reschedule"}
  BY DEF TypeOK, OpenTransaction
<1>2. /\ tx' = [tx EXCEPT ![r] = t] /\ UNCHANGED <<row, certs, stat>>
      /\ t.phase = "loaded" /\ t.op = tx[r].op
      /\ t.bk = tx[r].bk /\ t.new = tx[r].new
  BY <1>1 DEF OpenTransaction, TypeOK, Tx
<1>. HIDE DEF t
<1>3. Recording(tx[r])
  BY DEF LedgerInv
<1>4. Recording(t) /\ Averaging(t)
  BY <1>1, <1>2, <1>3 DEF Recording, Averaging, Locking
<1>. QED BY <1>2, <1>4, UnlockedLedger

-----------------------------------------------------------------------------
(* Steps that publish rows *)

\* What a commit by others tells a transaction of its snapshot.
LEMMA OutdatedSnapshot ==
  ASSUME TypeOK, NEW bs, NEW ms, NEW q \in Requests
  PROVE  /\ Outdated(bs, ms)[q].agg = tx[q].agg
         /\ tx[q].op = "Accept" /\ tx[q].phase \in InTx =>
              ("master" \in Outdated(bs, ms)[q].stale
                 <=> "master" \in tx[q].stale \/ MasterOf[tx[q].bk] \in ms)
<1>. DEFINE S == tx[q].stale \cup (IF tx[q].bk \in bs THEN {"booking"} ELSE {})
                            \cup (IF MasterOf[tx[q].bk] \in ms THEN {"master"} ELSE {})
<1>1. tx[q] \in Tx
  BY DEF TypeOK
<1>2. Outdated(bs, ms)[q] = IF tx[q].phase \in InTx /\ tx[q].op \in Serializable
                            THEN [tx[q] EXCEPT !.stale = S] ELSE tx[q]
  BY DEF Outdated
<1>3. "master" \in S <=> "master" \in tx[q].stale \/ MasterOf[tx[q].bk] \in ms
  OBVIOUS
<1>. HIDE DEF S
<1>. QED BY <1>1, <1>2, <1>3 DEF Tx, Serializable

\* Rows are published by someone who holds the masters ms, or by no one's leave where
\* no booking is newly accepted; the rows that others hold locked keep their acceptance.
LEMMA PublishedLedger ==
  ASSUME TypeOK, LedgerInv, NEW bs, NEW ms, certs \subseteq certs',
         \A b \in Bookings :
           /\ row[b].acceptance # "no" => row'[b].acceptance # "no"
           /\ row'[b].acceptance = "master" => row[b].acceptance = "master" \/ MasterOf[b] \in ms,
         \A q \in Requests :
           \/ tx'[q] = NoTx
           \/ /\ tx'[q] = Outdated(bs, ms)[q]
              /\ tx[q].phase \in Locking => row'[tx[q].bk].acceptance = row[tx[q].bk].acceptance
              /\ \A m \in ms : ~HoldsMaster(q, m)
  PROVE  MastersExclusive' /\ \A q \in Requests : Recording(tx[q])' /\ Averaging(tx[q])'
<1>1. ASSUME NEW q \in Requests, tx'[q] # NoTx
      PROVE  /\ tx'[q].phase = tx[q].phase /\ tx'[q].op = tx[q].op
             /\ tx'[q].bk = tx[q].bk /\ tx'[q].new = tx[q].new /\ tx'[q].agg = tx[q].agg
             /\ tx[q].phase \in Locking => row'[tx[q].bk].acceptance = row[tx[q].bk].acceptance
             /\ \A m \in ms : ~HoldsMaster(q, m)
             /\ tx[q].op = "Accept" /\ tx[q].phase \in InTx =>
                  ("master" \in tx'[q].stale
                     <=> "master" \in tx[q].stale \/ MasterOf[tx[q].bk] \in ms)
             /\ tx[q].phase # "idle" => tx[q].bk \in Bookings
  BY <1>1, OutdatedTyped, OutdatedSnapshot DEF TypeOK
<1>2. ASSUME NEW q \in Requests, tx'[q] = NoTx
      PROVE  Recording(tx[q])' /\ Averaging(tx[q])' /\ \A m : ~HoldsMaster(q, m)'
  BY <1>2 DEF Recording, Averaging, HoldsMaster, NoTx, Begun, InTx, Locking
<1>3. ASSUME NEW q \in Requests, tx'[q] # NoTx PROVE Recording(tx[q])'
  <2>1. Recording(tx[q]) /\ (tx[q].phase # "idle" => tx[q].bk \in Bookings)
    BY <1>1, <1>3 DEF LedgerInv
  <2>2. "idle" \notin InTx /\ "idle" \notin Locking
    BY DEF InTx, Locking
  <2>3. tx[q].phase \in InTx /\ tx[q].op \in {"Start", "Complete"}
          => row'[tx[q].bk].acceptance # "no"
    BY <2>1, <2>2 DEF Recording
  <2>. QED BY <1>1, <1>3, <2>1, <2>2, <2>3 DEF Recording
<1>4. ASSUME NEW q \in Requests, tx'[q] # NoTx PROVE Averaging(tx[q])'
  <2>. SUFFICES ASSUME tx[q].op = "Accept", tx[q].phase \in InTx
                PROVE  /\ tx[q].bk \in tx[q].agg.timed
                       /\ tx[q].phase = "ready" => "master" \notin tx'[q].stale
                       /\ "master" \notin tx'[q].stale =>
                            \A c \in SameMaster(tx[q].bk) :
                              row'[c].acceptance = "master" => c \in tx[q].agg.timed
    BY <1>1, <1>4 DEF Averaging, SameMaster
  <2>1. /\ Averaging(tx[q]) /\ tx[q].bk \in Bookings
        /\ "master" \in tx'[q].stale <=> "master" \in tx[q].stale \/ MasterOf[tx[q].bk] \in ms
    BY <1>1, <1>4 DEF LedgerInv, InTx, Locking
  <2>2. ASSUME tx[q].phase = "ready" PROVE "master" \notin tx'[q].stale
    <3>1. MasterOf[tx[q].bk] \in ms => HoldsMaster(q, MasterOf[tx[q].bk])
      BY <2>2 DEF HoldsMaster, MasterOps
    <3>. QED BY <1>1, <1>4, <2>1, <2>2, <3>1 DEF Averaging
  <2>3. ASSUME "master" \notin tx'[q].stale, NEW c \in SameMaster(tx[q].bk),
               row'[c].acceptance = "master"
        PROVE  c \in tx[q].agg.timed
    <3>1. c \in Bookings /\ MasterOf[c] \notin ms /\ "master" \notin tx[q].stale
      BY <2>1, <2>3 DEF SameMaster
    <3>. QED BY <2>1, <2>3, <3>1 DEF Averaging
  <2>. QED BY <2>1, <2>2, <2>3 DEF Averaging
<1>5. \A q \in Requests, m \in Masters : HoldsMaster(q, m)' => HoldsMaster(q, m)
  BY <1>1, <1>2 DEF HoldsMaster
<1>6. MastersExclusive'
  BY <1>5 DEF LedgerInv, MastersExclusive
<1>. QED BY <1>2, <1>3, <1>4, <1>6

LEMMA ApplyPaymentLedger ==
  ASSUME TypeOK, LedgerInv, NEW r \in Requests, ApplyPayment(r)
  PROVE  LedgerInv'
<1>. DEFINE b == tx[r].bk
<1>1. /\ row' = [row EXCEPT ![b] = [ row[b] EXCEPT !.paid = row[b].paid + 1 ]]
      /\ UNCHANGED <<certs, stat>>
      /\ tx[r].phase = "again" /\ tx[r].op = "Pay" /\ b \in Bookings
  BY DEF ApplyPayment, TypeOK
<1>2. \A c \in Bookings : /\ row'[c].status = row[c].status
                          /\ row'[c].acceptance = row[c].acceptance
                          /\ c # b => row'[c] = row[c]
  BY <1>1 DEF TypeOK, Row
<1>3. b \in certs
  BY <1>1 DEF LedgerInv, Recording
<1>4. /\ tx'[r] = NoTx
      /\ \A q \in Requests \ {r} : tx'[q] = Outdated({b}, {})[q]
  BY OutdatedTyped DEF ApplyPayment
<1>5. \A q \in Requests : tx[q].phase \in Locking => tx[q].bk \in Bookings
  BY DEF TypeOK, Locking
<1>6. RowsRecorded'
  BY <1>1, <1>2, <1>3 DEF LedgerInv, RowsRecorded
<1>7. AggregatesAgree'
  BY <1>1, <1>2 DEF LedgerInv, AggregatesAgree
<1>8. MastersExclusive' /\ \A q \in Requests : Recording(tx[q])' /\ Averaging(tx[q])'
  BY <1>1, <1>2, <1>4, <1>5, PublishedLedger
<1>. QED BY <1>6, <1>7, <1>8 DEF LedgerInv

LEMMA ExpireLedger ==
  ASSUME TypeOK, LedgerInv, NEW j \in Jobs, ExpireDue(j)
  PROVE  LedgerInv'
<1>1. PICK batch \in SUBSET Due :
        /\ row' = [b \in Bookings |->
                     IF b \in batch THEN [row[b] EXCEPT !.status = "EXPIRED"] ELSE row[b]]
        /\ tx' = Outdated(batch, {})
  BY DEF ExpireDue
<1>2. \A c \in Bookings : /\ row'[c].status = row[c].status \/ row'[c].status = "EXPIRED"
                          /\ row'[c].acceptance = row[c].acceptance
                          /\ row'[c].paid = row[c].paid
  BY <1>1 DEF TypeOK, Row
<1>3. UNCHANGED <<certs, stat>>
  BY DEF ExpireDue
<1>4. \A q \in Requests : tx[q].phase \in Locking => tx[q].bk \in Bookings
  BY DEF TypeOK, Locking
<1>5. RowsRecorded'
  BY <1>2, <1>3 DEF LedgerInv, RowsRecorded, AfterAcceptance
<1>6. AggregatesAgree'
  BY <1>2, <1>3 DEF LedgerInv, AggregatesAgree
<1>7. MastersExclusive' /\ \A q \in Requests : Recording(tx[q])' /\ Averaging(tx[q])'
  BY <1>1, <1>2, <1>3, <1>4, PublishedLedger
<1>. QED BY <1>5, <1>6, <1>7 DEF LedgerInv

\* The certificates of a master's bookings, counted: one more when one is added.
Certified(m, C) == {b \in C : MasterOf[b] = m}
LEMMA OneMoreCertificate ==
  ASSUME NEW C \in SUBSET Bookings, NEW b \in Bookings \ C, NEW m
  PROVE  Cardinality(Certified(m, C \cup {b}))
           = Cardinality(Certified(m, C)) + (IF MasterOf[b] = m THEN 1 ELSE 0)
<1>1. IsFiniteSet(Certified(m, C)) /\ b \notin Certified(m, C)
  BY FS_Subset, ConstantsAssumption DEF ConstantsAssumption, Certified
<1>2. CASE MasterOf[b] = m
  <2>1. Certified(m, C \cup {b}) = Certified(m, C) \cup {b}
    BY <1>2 DEF Certified
  <2>. QED BY <1>1, <1>2, <2>1, FS_AddElement
<1>3. CASE MasterOf[b] # m
  <2>1. Certified(m, C \cup {b}) = Certified(m, C)
    BY <1>3 DEF Certified
  <2>2. Cardinality(Certified(m, C)) \in Nat
    BY <1>1, FS_CardinalityType
  <2>. QED BY <1>3, <2>1, <2>2
<1>. QED BY <1>2, <1>3

\* What a commit does to the master's row and to the certificates.
LEMMA CommitAggregates ==
  ASSUME TypeOK, NEW r \in Requests, Commit(r)
  PROVE  LET b == tx[r].bk  o == tx[r].op  m == MasterOf[b] IN
         /\ b \in Bookings /\ m \in Masters /\ o \in OpNames
         /\ o \notin MasterOps => stat' = stat
         /\ o \in MasterOps =>
              /\ \A n \in Masters \ {m} : stat'[n] = stat[n]
              /\ stat'[m].timed = IF o = "Accept" THEN tx[r].agg.timed ELSE stat[m].timed
              /\ stat'[m].completed = stat[m].completed + (IF o = "Complete" THEN 1 ELSE 0)
         /\ o = "Complete" => b \notin certs /\ certs' = certs \cup {b}
         /\ o # "Complete" => certs' = certs
<1>. DEFINE b == tx[r].bk  o == tx[r].op  m == MasterOf[b]
<1>1. /\ b \in Bookings /\ o \in OpNames
  BY CommitEffect DEF TypeOK, Locking
<1>2. m \in Masters /\ stat \in [Masters -> MasterStat]
  BY <1>1, ConstantsAssumption DEF ConstantsAssumption, TypeOK
<1>3. stat' = IF o \in MasterOps THEN [stat EXCEPT ![m] = StatAfter(r)] ELSE stat
  BY DEF Commit
<1>4. ASSUME o \in MasterOps
      PROVE  /\ StatAfter(r).timed = IF o = "Accept" THEN tx[r].agg.timed ELSE stat[m].timed
             /\ StatAfter(r).completed
                  = stat[m].completed + (IF o = "Complete" THEN 1 ELSE 0)
  <2>1. stat[m] \in MasterStat
    BY <1>2
  <2>2. CASE o = "Accept"
    <3>1. StatAfter(r) = [ stat[m] EXCEPT !.timed = tx[r].agg.timed ]
      BY <2>2 DEF StatAfter
    <3>. QED BY <2>1, <2>2, <3>1 DEF MasterStat
  <2>3. CASE o = "MasterCancel"
    <3>1. StatAfter(r) = [ stat[m] EXCEPT !.done = tx[r].agg.done, !.axed = tx[r].agg.axed ]
      BY <2>3 DEF StatAfter
    <3>2. /\ StatAfter(r).timed = stat[m].timed
          /\ StatAfter(r).completed = stat[m].completed
      BY <2>1, <3>1 DEF MasterStat
    <3>3. stat[m].completed \in Nat
      BY <2>1 DEF MasterStat
    <3>. HIDE DEF m
    <3>. QED BY <2>3, <3>2, <3>3
  <2>4. CASE o = "Complete"
    <3>1. StatAfter(r) = [ stat[m] EXCEPT !.completed = stat[m].completed + 1,
                                          !.done = tx[r].agg.done, !.axed = tx[r].agg.axed ]
      BY <2>4 DEF StatAfter
    <3>. QED BY <2>1, <2>4, <3>1 DEF MasterStat
  <2>. QED BY <1>4, <2>2, <2>3, <2>4 DEF MasterOps
<1>5. o \in MasterOps => stat'[m] = StatAfter(r) /\ \A n \in Masters \ {m} : stat'[n] = stat[n]
  BY <1>2, <1>3
<1>6. /\ o = "Complete" => b \notin certs /\ certs' = certs \cup {b}
      /\ o # "Complete" => certs' = certs
  BY DEF Commit, CertificateAllowed
<1>7. o \notin MasterOps => stat' = stat
  BY <1>3
<1>. QED BY <1>1, <1>2, <1>4, <1>5, <1>6, <1>7

LEMMA CommitAgrees ==
  ASSUME TypeOK, LedgerInv, NEW r \in Requests, Commit(r)
  PROVE  AggregatesAgree'
<1>. DEFINE b == tx[r].bk  o == tx[r].op  m == MasterOf[b]
<1>1. /\ b \in Bookings /\ m \in Masters /\ certs \in SUBSET Bookings
      /\ o \notin MasterOps => stat' = stat
      /\ o \in MasterOps =>
           /\ \A n \in Masters \ {m} : stat'[n] = stat[n]
           /\ stat'[m].timed = IF o = "Accept" THEN tx[r].agg.timed ELSE stat[m].timed
           /\ stat'[m].completed = stat[m].completed + (IF o = "Complete" THEN 1 ELSE 0)
      /\ o = "Complete" => b \notin certs /\ certs' = certs \cup {b}
      /\ o # "Complete" => certs' = certs
  BY CommitAggregates DEF TypeOK
<1>2. row' = [row EXCEPT ![b] = tx[r].new] /\ tx[r].phase \in Locking
  BY CommitEffect
<1>3. row'[b] = tx[r].new /\ \A c \in Bookings \ {b} : row'[c] = row[c]
  BY <1>1, <1>2 DEF TypeOK
<1>4. /\ \A n \in Masters : stat[n].completed = Cardinality(Certified(n, certs))
                            /\ stat[n].completed \in Nat
      /\ \A c \in Bookings : row[c].acceptance = "master" => c \in stat[MasterOf[c]].timed
  BY DEF LedgerInv, AggregatesAgree, Certified, TypeOK, MasterStat
<1>5. ASSUME NEW n \in Masters PROVE stat'[n].completed = Cardinality(Certified(n, certs'))
  <2>1. CASE o = "Complete"
    <3>1. Cardinality(Certified(n, certs'))
            = Cardinality(Certified(n, certs)) + (IF m = n THEN 1 ELSE 0)
      BY <1>1, <2>1, OneMoreCertificate
    <3>2. stat'[n].completed = stat[n].completed + (IF m = n THEN 1 ELSE 0)
      BY <1>1, <1>4, <2>1 DEF MasterOps
    <3>. QED BY <1>4, <3>1, <3>2
  <2>2. CASE o # "Complete"
    <3>1. stat'[n].completed = stat[n].completed
      BY <1>1, <1>4, <2>2
    <3>. QED BY <1>1, <1>4, <2>2, <3>1
  <2>. QED BY <2>1, <2>2
<1>6. ASSUME NEW c \in Bookings, row'[c].acceptance = "master"
      PROVE  c \in stat'[MasterOf[c]].timed
  <2>0. MasterOf[c] \in Masters
    BY ConstantsAssumption DEF ConstantsAssumption
  <2>1. Recording(tx[r]) /\ Averaging(tx[r]) /\ tx[r].phase = "ready"
    BY DEF LedgerInv, Commit
  <2>2. CASE o = "Accept" /\ MasterOf[c] = m
    <3>1. /\ b \in tx[r].agg.timed
          /\ \A d \in SameMaster(b) : row[d].acceptance = "master" => d \in tx[r].agg.timed
      BY <2>1, <2>2 DEF Averaging, InTx, Locking
    <3>2. c # b => c \in SameMaster(b) /\ row[c].acceptance = "master"
      BY <1>3, <1>6, <2>2 DEF SameMaster
    <3>. QED BY <1>1, <2>2, <3>1, <3>2 DEF MasterOps
  <2>3. CASE ~(o = "Accept" /\ MasterOf[c] = m)
    <3>1. stat'[MasterOf[c]].timed = stat[MasterOf[c]].timed
      BY <1>1, <2>0, <2>3
    <3>2. row[c].acceptance = "master"
      BY <1>2, <1>3, <1>6, <2>1, <2>3 DEF Recording
    <3>. QED BY <1>4, <3>1, <3>2
  <2>. QED BY <2>2, <2>3
<1>. HIDE DEF b, o, m
<1>. QED BY <1>5, <1>6 DEF AggregatesAgree, Certified

LEMMA CommitLedger ==
  ASSUME TypeOK, SlotInv, AcceptInv, LedgerInv, NEW r \in Requests, Commit(r)
  PROVE  LedgerInv'
<1>. DEFINE b == tx[r].bk  o == tx[r].op  new == tx[r].new
            ms == IF o \in MasterOps THEN {MasterOf[b]} ELSE {}
<1>1. /\ tx[r].phase \in Locking /\ b \in Bookings
      /\ row' = [row EXCEPT ![b] = new] /\ tx'[r] = NoTx
  BY CommitEffect
<1>2. row'[b] = new /\ \A c \in Bookings \ {b} : row'[c] = row[c]
  BY <1>1 DEF TypeOK
<1>3. /\ new.status \in AfterAcceptance => new.acceptance # "no"
      /\ row[b].acceptance # "no" => new.acceptance # "no"
      /\ new.acceptance = "master" => o = "Accept" \/ row[b].acceptance = "master"
      /\ new.status = "COMPLETED" => o = "Complete" \/ b \in certs
      /\ new.paid > 0 => b \in certs
      /\ new.status # "NONE"
  BY <1>1, CommitStatus DEF LedgerInv, Recording
<1>4. /\ o = "Complete" => certs' = certs \cup {b}
      /\ o # "Complete" => certs' = certs
      /\ o = "Accept" => MasterOf[b] \in ms
  BY CommitAggregates DEF MasterOps
<1>5. RowsRecorded'
  BY <1>2, <1>3, <1>4 DEF LedgerInv, RowsRecorded
<1>6. ASSUME NEW q \in Requests \ {r}
      PROVE  /\ tx'[q] = Outdated({b}, ms)[q]
             /\ tx[q].phase \in Locking => row'[tx[q].bk].acceptance = row[tx[q].bk].acceptance
             /\ \A m \in ms : ~HoldsMaster(q, m)
  <2>1. tx'[q] = Outdated({b}, ms)[q]
    BY OutdatedTyped DEF Commit
  <2>2. tx[q].phase \in Locking => tx[q].bk \in Bookings \ {b}
    BY <1>1 DEF SlotInv, LocksExclusive, TypeOK, Locking
  <2>3. ASSUME NEW m \in ms PROVE ~HoldsMaster(q, m)
    <3>1. m \in Masters /\ HoldsMaster(r, m)
      BY <1>1, <2>3, ConstantsAssumption DEF ConstantsAssumption, HoldsMaster, Commit
    <3>. QED BY <3>1 DEF LedgerInv, MastersExclusive
  <2>. QED BY <1>2, <2>1, <2>2, <2>3
<1>7. \A c \in Bookings :
        /\ row[c].acceptance # "no" => row'[c].acceptance # "no"
        /\ row'[c].acceptance = "master" => row[c].acceptance = "master" \/ MasterOf[c] \in ms
  BY <1>2, <1>3, <1>4
<1>8. certs \subseteq certs'
  BY <1>4
<1>. HIDE DEF b, ms
<1>9. MastersExclusive' /\ \A q \in Requests : Recording(tx[q])' /\ Averaging(tx[q])'
  BY <1>1, <1>6, <1>7, <1>8, PublishedLedger
<1>. QED BY <1>5, <1>9, CommitAgrees DEF LedgerInv

-----------------------------------------------------------------------------
(* The theorems *)

LEMMA AdvanceLedger ==
  ASSUME TypeOK, SlotInv, AcceptInv, LedgerInv, NEW r \in Requests, Advance(r)
  PROVE  LedgerInv'
<1>1. CASE RetryTransition(r)
  <2>1. tx[r].phase # "idle" /\ tx[r].bk \in Bookings
    BY <1>1 DEF RetryTransition, TypeOK
  <2>. QED BY <1>1, <2>1, LoadLedger DEF RetryTransition
<1>2. CASE Refused(r) \/ Excluded(r) \/ AlreadyCertified(r)
  BY <1>2, FailLedger DEF Refused, Excluded, AlreadyCertified
<1>3. CASE WriteConflict(r)
  BY <1>3, RunAgainLedger DEF WriteConflict
<1>. QED BY <1>1, <1>2, <1>3, OpenLedger, ApplyPaymentLedger, WriteLedger,
            ReadAggregatesLedger, WriteMasterLedger, CommitLedger DEF Advance

LEMMA StepLedger ==
  TypeOK /\ SlotInv /\ AcceptInv /\ LedgerInv /\ [Next]_vars => LedgerInv'
<1>. SUFFICES ASSUME TypeOK, SlotInv, AcceptInv, LedgerInv, [Next]_vars PROVE LedgerInv'
  OBVIOUS
<1>1. CASE UNCHANGED <<row, certs, stat, tx>>
  BY <1>1 DEF LedgerInv, RowsRecorded, AggregatesAgree, MastersExclusive, HoldsMaster,
    Recording, Averaging, SameMaster
<1>2. ASSUME NEW r \in Requests, Arrive(r) \/ Advance(r) PROVE LedgerInv'
  BY <1>2, ArriveLedger, AdvanceLedger
<1>3. ASSUME NEW r \in Requests, DatabaseAbort(r) \/ Crash(r) PROVE LedgerInv'
  BY <1>3, RunAgainLedger, FailLedger DEF DatabaseAbort, Crash, InTx, Locking
<1>4. ASSUME NEW j \in Jobs, RunJob(j) \/ JobCrash(j) PROVE LedgerInv'
  BY <1>1, <1>4, ExpireLedger DEF RunJob, AppendExpiryHistory, JobCrash
<1>5. CASE Tick \/ UNCHANGED vars
  BY <1>1, <1>5 DEF Tick, vars
<1>. QED BY <1>2, <1>3, <1>4, <1>5 DEF Next

LEMMA InitLedger == Init => LedgerInv
<1>. SUFFICES ASSUME Init PROVE LedgerInv
  OBVIOUS
<1>1. PICK st \in [Bookings -> InitialStatuses], at \in [Bookings -> Starts] :
        /\ row = [b \in Bookings |-> InitialRow(st[b], at[b])]
        /\ stat = [m \in Masters |->
                     [ completed |-> 0, done |-> 0, axed |-> 0,
                       timed |-> {b \in Bookings : MasterOf[b] = m /\ st[b] \in Busy} ]]
  BY DEF Init
<1>2. certs = {} /\ tx = [r \in Requests |-> NoTx]
  BY DEF Init
<1>3. ASSUME NEW b \in Bookings
      PROVE  /\ row[b].paid = 0 /\ row[b].status = st[b]
             /\ st[b] \in {"NONE", "PENDING", "ACCEPTED", "IN_PROGRESS"}
             /\ row[b].acceptance = IF st[b] \in Busy THEN "master" ELSE "no"
  <2>1. st[b] \in {"NONE", "PENDING", "ACCEPTED", "IN_PROGRESS"}
    BY ConstantsAssumption DEF ConstantsAssumption
  <2>2. row[b] = InitialRow(st[b], at[b])
    BY <1>1
  <2>. QED BY <2>1, <2>2 DEF InitialRow, NoRow, Busy
<1>4. RowsRecorded
  BY <1>3 DEF RowsRecorded, AfterAcceptance, Busy
<1>5. AggregatesAgree
  <2>1. ASSUME NEW m \in Masters
        PROVE  stat[m].completed = Cardinality({b \in certs : MasterOf[b] = m})
    <3>1. {b \in certs : MasterOf[b] = m} = {}
      BY <1>2
    <3>. QED BY <1>1, <3>1, FS_EmptySet
  <2>2. ASSUME NEW b \in Bookings, row[b].acceptance = "master"
        PROVE  b \in stat[MasterOf[b]].timed
    <3>1. st[b] \in Busy /\ MasterOf[b] \in Masters
      BY <1>3, <2>2, ConstantsAssumption DEF ConstantsAssumption
    <3>. QED BY <1>1, <3>1
  <2>. QED BY <2>1, <2>2 DEF AggregatesAgree
<1>6. MastersExclusive /\ \A r \in Requests : Recording(tx[r]) /\ Averaging(tx[r])
  BY <1>2, NoTxLedger DEF MastersExclusive, HoldsMaster
<1>. QED BY <1>4, <1>5, <1>6 DEF LedgerInv

\* The invariant behind the three theorems below: the locks and snapshots that keep what
\* each transaction knows of its booking and of its master's row.
THEOREM LedgerKept == Spec => [](TypeOK /\ LedgerInv)
<1>1. Init => LedgerInv
  BY InitLedger
<1>2. TypeOK /\ SlotInv /\ AcceptInv /\ LedgerInv /\ [Next]_vars => LedgerInv'
  BY StepLedger
<1>. QED BY <1>1, <1>2, AcceptsKept, PTL DEF Spec

\* complete() and accept(): the count a master's row carries is the number of its certified
\* bookings, and its average latency is over every booking that accept() accepted.
THEOREM AggregatesKept == Spec => []AggregatesAgree
<1>1. LedgerInv => AggregatesAgree
  BY DEF LedgerInv
<1>. QED BY <1>1, LedgerKept, PTL

\* start(), complete() and confirm(): no booking is under way or completed that was never
\* accepted, and none is paid for whose completion was not certified.
THEOREM ServedAfterAcceptance == Spec => []ServedInOrder
<1>1. TypeOK /\ LedgerInv => ServedInOrder
  BY DEF LedgerInv, RowsRecorded, ServedInOrder, AfterAcceptance
<1>. QED BY <1>1, LedgerKept, PTL

-----------------------------------------------------------------------------
(* How far past the caps requests can race *)

\* The requests about to add a booking of client c, and those about to move booking b.
Adds(t, c)  == t.phase # "idle" /\ t.op = "Create" /\ ClientOf[t.bk] = c
Moves(t, b) == t.phase # "idle" /\ t.op = "Reschedule" /\ t.bk = b
Adding(c) == {r \in Requests : Adds(tx[r], c)}
Moving(b) == {r \in Requests : Moves(tx[r], b)}

\* A row written counts one move more than the committed one it was read from.
CountsMove(t) ==
  /\ t.phase # "idle" /\ t.op = "Create" => t.new.moves = 0
  /\ t.phase \in Locking /\ t.op # "Create" =>
       t.new.moves = row[t.bk].moves + (IF t.op = "Reschedule" THEN 1 ELSE 0)

\* Whoever passed a check of the cap counts already, though it has written nothing.
OvershootInv ==
  /\ \A c \in Clients :
       OpenPending(c) + Cardinality(Adding(c)) < MAX_OPEN_PENDING + Cardinality(Requests)
  /\ \A b \in Bookings :
       row[b].moves + Cardinality(Moving(b)) < MAX_RESCHEDULE + Cardinality(Requests)
  /\ \A r \in Requests : CountsMove(tx[r])

LEMMA SomeRequests ==
  /\ Cardinality(Requests) \in Nat /\ Cardinality(Requests) > 0
  /\ \A A \in SUBSET Requests :
       /\ Cardinality(A) \in Nat /\ Cardinality(A) <= Cardinality(Requests)
       /\ \A B \in SUBSET A : Cardinality(B) <= Cardinality(A)
       /\ \A r \in A : Cardinality(A \ {r}) = Cardinality(A) - 1
<1>1. IsFiniteSet(Requests) /\ Requests # {}
  BY ConstantsAssumption DEF ConstantsAssumption
<1>2. Cardinality(Requests) \in Nat /\ Cardinality(Requests) # 0
  BY <1>1, FS_CardinalityType, FS_EmptySet
<1>3. ASSUME NEW A \in SUBSET Requests
      PROVE  /\ Cardinality(A) \in Nat /\ Cardinality(A) <= Cardinality(Requests)
             /\ \A B \in SUBSET A : Cardinality(B) <= Cardinality(A)
             /\ \A r \in A : Cardinality(A \ {r}) = Cardinality(A) - 1
  <2>1. IsFiniteSet(A) /\ Cardinality(A) <= Cardinality(Requests)
    BY <1>1, FS_Subset
  <2>. QED BY <2>1, FS_CardinalityType, FS_Subset, FS_RemoveElement
<1>. QED BY <1>2, <1>3

\* A count n bounded together with the requests A about to add to it stays so when it does
\* not grow and nobody joins them, when one that joins has seen it under the cap, and when
\* one of them adds to it.
LEMMA CapHolds ==
  ASSUME NEW cap \in Nat, NEW n \in Nat, NEW n2 \in Nat,
         NEW A \in SUBSET Requests, NEW A2 \in SUBSET Requests,
         n + Cardinality(A) < cap + Cardinality(Requests),
         \/ n2 <= n /\ A2 \subseteq A
         \/ n2 <= n /\ n < cap
         \/ n2 <= n + 1 /\ \E r \in A : A2 \subseteq A \ {r}
  PROVE  n2 + Cardinality(A2) < cap + Cardinality(Requests)
<1>1. /\ Cardinality(Requests) \in Nat /\ Cardinality(A) \in Nat /\ Cardinality(A2) \in Nat
      /\ Cardinality(A2) <= Cardinality(Requests)
  BY SomeRequests
<1>2. CASE n2 <= n /\ A2 \subseteq A
  <2>1. Cardinality(A2) <= Cardinality(A)
    BY <1>2, SomeRequests
  <2>. QED BY <1>1, <1>2, <2>1
<1>3. CASE n2 <= n /\ n < cap
  BY <1>1, <1>3
<1>4. CASE n2 <= n + 1 /\ \E r \in A : A2 \subseteq A \ {r}
  <2>1. PICK r \in A : A2 \subseteq A \ {r}
    BY <1>4
  <2>2. Cardinality(A2) <= Cardinality(A \ {r}) /\ Cardinality(A \ {r}) = Cardinality(A) - 1
    BY <2>1, SomeRequests
  <2>. QED BY <1>1, <1>4, <2>2
<1>. QED BY <1>2, <1>3, <1>4

\* The pending bookings of a client: no more when none becomes pending, one more when one does.
LEMMA PendingGrows ==
  ASSUME NEW c, NEW b
  PROVE  /\ OpenPending(c) \in Nat /\ OpenPending(c)' \in Nat
         /\ (\A d \in Bookings : row'[d].status = "PENDING" => row[d].status = "PENDING")
              => OpenPending(c)' <= OpenPending(c)
         /\ (\A d \in Bookings \ {b} : row'[d].status = "PENDING" => row[d].status = "PENDING")
              => /\ OpenPending(c)' <= OpenPending(c) + 1
                 /\ ClientOf[b] # c => OpenPending(c)' <= OpenPending(c)
<1>. DEFINE P == {d \in Bookings : ClientOf[d] = c /\ row[d].status = "PENDING"}
            Q == {d \in Bookings : ClientOf[d] = c /\ row'[d].status = "PENDING"}
<1>1. OpenPending(c) = Cardinality(P) /\ OpenPending(c)' = Cardinality(Q)
  BY DEF OpenPending
<1>2. IsFiniteSet(P) /\ IsFiniteSet(Q) /\ Cardinality(P) \in Nat /\ Cardinality(Q) \in Nat
  BY FS_Subset, FS_CardinalityType, ConstantsAssumption DEF ConstantsAssumption
<1>3. /\ Q \subseteq P => Cardinality(Q) <= Cardinality(P)
      /\ Q \subseteq P \cup {b} => Cardinality(Q) <= Cardinality(P) + 1
  <2>1. Q \subseteq P => Cardinality(Q) <= Cardinality(P)
    BY <1>2, FS_Subset
  <2>2. IsFiniteSet(P \cup {b}) /\ Cardinality(P \cup {b}) \in {Cardinality(P), Cardinality(P) + 1}
    BY <1>2, FS_AddElement
  <2>3. Q \subseteq P \cup {b} => Cardinality(Q) <= Cardinality(P \cup {b})
    BY <2>2, FS_Subset
  <2>. QED BY <1>2, <2>1, <2>2, <2>3
<1>4. (\A d \in Bookings : row'[d].status = "PENDING" => row[d].status = "PENDING")
        => Q \subseteq P
  OBVIOUS
<1>5. (\A d \in Bookings \ {b} : row'[d].status = "PENDING" => row[d].status = "PENDING")
        => Q \subseteq P \cup {b} /\ (ClientOf[b] # c => Q \subseteq P)
  OBVIOUS
<1>. HIDE DEF P, Q
<1>. QED BY <1>1, <1>2, <1>3, <1>4, <1>5

\* A step that makes no booking pending, counts no move and has nobody join the requests
\* about to do either.
LEMMA QuietOvershoot ==
  ASSUME TypeOK, OvershootInv,
         \A b \in Bookings : /\ row'[b].status = "PENDING" => row[b].status = "PENDING"
                             /\ row'[b].moves = row[b].moves,
         \A q \in Requests :
           /\ CountsMove(tx[q])'
           /\ \A c \in Clients : Adds(tx[q], c)' => Adds(tx[q], c)
           /\ \A b \in Bookings : Moves(tx[q], b)' => Moves(tx[q], b)
  PROVE  OvershootInv'
<1>1. MAX_OPEN_PENDING \in Nat /\ MAX_RESCHEDULE \in Nat
  BY ConstantsAssumption DEF ConstantsAssumption
<1>2. ASSUME NEW c \in Clients
      PROVE  OpenPending(c)' + Cardinality(Adding(c)') < MAX_OPEN_PENDING + Cardinality(Requests)
  <2>1. /\ OpenPending(c) \in Nat /\ OpenPending(c)' \in Nat
        /\ OpenPending(c)' <= OpenPending(c)
    BY PendingGrows
  <2>2. Adding(c)' \subseteq Adding(c) /\ Adding(c) \in SUBSET Requests
    BY DEF Adding
  <2>3. OpenPending(c) + Cardinality(Adding(c)) < MAX_OPEN_PENDING + Cardinality(Requests)
    BY DEF OvershootInv
  <2>4. Adding(c)' \in SUBSET Requests
    BY <2>2
  <2>. QED BY <1>1, <2>1, <2>2, <2>3, <2>4, CapHolds
<1>3. ASSUME NEW b \in Bookings
      PROVE  row'[b].moves + Cardinality(Moving(b)') < MAX_RESCHEDULE + Cardinality(Requests)
  <2>1. row[b].moves \in Nat /\ row'[b].moves = row[b].moves
    BY DEF TypeOK, Row
  <2>2. Moving(b)' \subseteq Moving(b) /\ Moving(b) \in SUBSET Requests
    BY DEF Moving
  <2>3. row[b].moves + Cardinality(Moving(b)) < MAX_RESCHEDULE + Cardinality(Requests)
    BY DEF OvershootInv
  <2>4. Moving(b)' \in SUBSET Requests
    BY <2>2
  <2>. QED BY <1>1, <2>1, <2>2, <2>3, <2>4, CapHolds
<1>. QED BY <1>2, <1>3 DEF OvershootInv

\* Rows as they were, and one transaction replaced by one that is about to do no more.
LEMMA OneTxOvershoot ==
  ASSUME TypeOK, OvershootInv, NEW r \in Requests, NEW t, UNCHANGED row,
         tx' = [tx EXCEPT ![r] = t], CountsMove(t),
         t.phase # "idle" /\ t.op \in {"Create", "Reschedule"} =>
           tx[r].phase # "idle" /\ tx[r].op = t.op /\ tx[r].bk = t.bk
  PROVE  OvershootInv'
<1>1. tx'[r] = t /\ \A q \in Requests \ {r} : tx'[q] = tx[q]
  BY DEF TypeOK
<1>2. \A q \in Requests : CountsMove(tx'[q])
  BY <1>1 DEF OvershootInv
<1>3. \A q \in Requests : CountsMove(tx[q])'
  BY <1>2 DEF CountsMove
<1>4. \A q \in Requests :
        /\ \A c \in Clients : Adds(tx[q], c)' => Adds(tx[q], c)
        /\ \A b \in Bookings : Moves(tx[q], b)' => Moves(tx[q], b)
  BY <1>1 DEF Adds, Moves
<1>. QED BY <1>3, <1>4, QuietOvershoot

LEMMA NoTxMoves == CountsMove(NoTx) /\ NoTx.phase = "idle"
BY DEF CountsMove, NoTx, Begun, Locking

LEMMA LoadOvershoot ==
  ASSUME TypeOK, OvershootInv, NEW r \in Requests, NEW o \in TransitionOps,
         NEW b, NEW attempt, NEW arrival, Load(r, o, b, attempt, arrival)
  PROVE  OvershootInv'
<1>. DEFINE agg == IF o = "Accept" THEN AcceptAggregates(b) ELSE NoAggregates
            t == Begun("loaded", o, b, attempt, NoRow, agg, arrival)
<1>1. tx' = [tx EXCEPT ![r] = t] /\ UNCHANGED row
  BY DEF Load
<1>. HIDE DEF agg
<1>2. t.phase = "loaded" /\ t.op = o /\ o \notin {"Create", "Reschedule"}
  BY TransitionOpsNames DEF Begun
<1>. HIDE DEF t
<1>3. CountsMove(t)
  BY <1>2 DEF CountsMove, Locking
<1>. QED BY <1>1, <1>2, <1>3, OneTxOvershoot

LEMMA FailOvershoot ==
  ASSUME TypeOK, OvershootInv, NEW r \in Requests, Fail(r)
  PROVE  OvershootInv'
BY NoTxMoves, OneTxOvershoot DEF Fail

LEMMA RunAgainOvershoot ==
  ASSUME TypeOK, OvershootInv, NEW r \in Requests, RunAgain(r), tx[r].phase # "idle"
  PROVE  OvershootInv'
<1>. DEFINE new == IF tx[r].op \in TransitionOps THEN NoRow ELSE tx[r].new
            again == Begun("again", tx[r].op, tx[r].bk, tx[r].att + 1, new,
                           NoAggregates, tx[r].born)
            t == IF tx[r].att = MAX_ATTEMPTS THEN NoTx ELSE again
<1>1. tx' = [tx EXCEPT ![r] = t] /\ UNCHANGED row
  BY DEF RunAgain, TypeOK
<1>2. CountsMove(tx[r]) /\ (tx[r].op = "Create" => new = tx[r].new)
  BY TransitionOpsNames DEF OvershootInv
<1>. HIDE DEF new
<1>3. /\ again.phase = "again" /\ again.op = tx[r].op /\ again.bk = tx[r].bk
      /\ again.new = new
  BY DEF Begun
<1>. HIDE DEF again
<1>4. CountsMove(again)
  BY <1>2, <1>3 DEF CountsMove, Locking
<1>5. CountsMove(t) /\ (t = again \/ t.phase = "idle")
  BY <1>4, NoTxMoves
<1>. HIDE DEF t
<1>. QED BY <1>1, <1>3, <1>5, OneTxOvershoot

\* One more request about to add a booking, whose client it has seen under the cap, or
\* about to move one it has seen under its own.
LEMMA ValidatedOvershoot ==
  ASSUME TypeOK, OvershootInv, NEW r \in Requests, NEW o, NEW b \in Bookings, NEW new,
         Validated(r, o, b, new),
         o = "Create" => new.moves = 0 /\ OpenPending(ClientOf[b]) < MAX_OPEN_PENDING,
         o = "Reschedule" => row[b].moves < MAX_RESCHEDULE
  PROVE  OvershootInv'
<1>. DEFINE t == Begun("again", o, b, 1, new, NoAggregates, now)
<1>1. /\ tx'[r] = t /\ \A q \in Requests \ {r} : tx'[q] = tx[q]
      /\ UNCHANGED row
  BY DEF Validated, TypeOK
<1>2. t.phase = "again" /\ t.op = o /\ t.bk = b /\ t.new = new
  BY DEF Begun
<1>. HIDE DEF t
<1>3. \A q \in Requests : CountsMove(tx'[q])
  BY <1>1, <1>2 DEF OvershootInv, CountsMove, Locking
<1>4. \A q \in Requests : CountsMove(tx[q])'
  BY <1>1, <1>3 DEF CountsMove
<1>5. MAX_OPEN_PENDING \in Nat /\ MAX_RESCHEDULE \in Nat
  BY ConstantsAssumption DEF ConstantsAssumption
<1>6. ASSUME NEW c \in Clients
      PROVE  OpenPending(c)' + Cardinality(Adding(c)') < MAX_OPEN_PENDING + Cardinality(Requests)
  <2>1. OpenPending(c) \in Nat /\ OpenPending(c)' = OpenPending(c)
    BY <1>1, PendingGrows DEF OpenPending
  <2>2. Adding(c) \in SUBSET Requests /\ Adding(c)' \in SUBSET Requests
    BY DEF Adding
  <2>3. OpenPending(c) < MAX_OPEN_PENDING \/ Adding(c)' \subseteq Adding(c)
    BY <1>1, <1>2 DEF Adding, Adds
  <2>4. OpenPending(c) + Cardinality(Adding(c)) < MAX_OPEN_PENDING + Cardinality(Requests)
    BY DEF OvershootInv
  <2>5. OpenPending(c)' \in Nat /\ OpenPending(c)' <= OpenPending(c)
    BY <2>1
  <2>. QED BY <1>5, <2>1, <2>2, <2>3, <2>4, <2>5, CapHolds
<1>7. ASSUME NEW c \in Bookings
      PROVE  row'[c].moves + Cardinality(Moving(c)') < MAX_RESCHEDULE + Cardinality(Requests)
  <2>1. row[c].moves \in Nat /\ row'[c].moves \in Nat /\ row'[c].moves <= row[c].moves
    BY <1>1 DEF TypeOK, Row
  <2>2. Moving(c) \in SUBSET Requests /\ Moving(c)' \in SUBSET Requests
    BY DEF Moving
  <2>3. row[c].moves < MAX_RESCHEDULE \/ Moving(c)' \subseteq Moving(c)
    BY <1>1, <1>2 DEF Moving, Moves
  <2>4. row[c].moves + Cardinality(Moving(c)) < MAX_RESCHEDULE + Cardinality(Requests)
    BY DEF OvershootInv
  <2>. QED BY <1>5, <2>1, <2>2, <2>3, <2>4, CapHolds
<1>. QED BY <1>4, <1>6, <1>7 DEF OvershootInv

LEMMA ArriveOvershoot ==
  ASSUME TypeOK, OvershootInv, NEW r \in Requests, Arrive(r)
  PROVE  OvershootInv'
<1>1. CASE BeginTransition(r)
  BY <1>1, LoadOvershoot DEF BeginTransition
<1>2. CASE ValidateCreate(r)
  <2>1. PICK b \in Bookings, s \in Starts :
          /\ OpenPending(ClientOf[b]) < MAX_OPEN_PENDING
          /\ Validated(r, "Create", b,
               IF InstantBook(MasterOf[b])
               THEN [ NoRow EXCEPT !.status = "ACCEPTED", !.start = s, !.acceptance = "instant" ]
               ELSE [ NoRow EXCEPT !.status = "PENDING", !.start = s ])
    BY <1>2, Zenon DEF ValidateCreate, UnderCap
  <2>. DEFINE new == IF InstantBook(MasterOf[b])
               THEN [ NoRow EXCEPT !.status = "ACCEPTED", !.start = s, !.acceptance = "instant" ]
               ELSE [ NoRow EXCEPT !.status = "PENDING", !.start = s ]
  <2>2. new.moves = 0 /\ OpenPending(ClientOf[b]) < MAX_OPEN_PENDING
    BY <2>1 DEF NoRow
  <2>3. Validated(r, "Create", b, new)
    BY <2>1
  <2>. HIDE DEF new
  <2>. QED BY <2>2, <2>3, ValidatedOvershoot
<1>3. CASE ValidateReschedule(r)
  <2>1. PICK b \in Bookings, s \in Starts :
          /\ row[b].moves < MAX_RESCHEDULE
          /\ Validated(r, "Reschedule", b, [ NoRow EXCEPT !.start = s ])
    BY <1>3 DEF ValidateReschedule
  <2>. QED BY <2>1, ValidatedOvershoot
<1>4. CASE ValidatePayment(r)
  <2>1. PICK b \in Bookings : Validated(r, "Pay", b, NoRow)
    BY <1>4 DEF ValidatePayment
  <2>. QED BY <2>1, ValidatedOvershoot
<1>. QED BY <1>1, <1>2, <1>3, <1>4 DEF Arrive

LEMMA WriteOvershoot ==
  ASSUME TypeOK, OvershootInv, NEW r \in Requests, WriteBooking(r)
  PROVE  OvershootInv'
<1>. DEFINE new == Written(r)
            phase == IF tx[r].op \in MasterOps THEN "written" ELSE "ready"
            t == [ tx[r] EXCEPT !.new = new, !.phase = phase ]
<1>1. /\ tx' = [tx EXCEPT ![r] = t] /\ UNCHANGED row
      /\ tx[r] \in Tx /\ tx[r].phase = "loaded"
      /\ tx[r].bk \in Bookings /\ row[tx[r].bk] \in Row
      /\ CountsMove(tx[r])
  BY DEF WriteBooking, TypeOK, OvershootInv
<1>2. /\ tx[r].op = "Create" => new = tx[r].new
      /\ tx[r].op # "Create" =>
           new.moves = row[tx[r].bk].moves + (IF tx[r].op = "Reschedule" THEN 1 ELSE 0)
  <2>1. row[tx[r].bk].moves \in Nat
    BY <1>1 DEF Row
  <2>2. CASE tx[r].op = "Create"
    BY <2>2 DEF Written
  <2>3. CASE tx[r].op = "Reschedule"
    BY <1>1, <2>3 DEF Written, Row
  <2>4. CASE tx[r].op \notin {"Create", "Reschedule"}
    <3>1. new.moves = row[tx[r].bk].moves
      BY <1>1, <2>4 DEF Written, Row
    <3>. HIDE DEF new
    <3>. QED BY <2>1, <2>4, <3>1
  <2>. QED BY <2>2, <2>3, <2>4
<1>. HIDE DEF new
<1>3. t.phase = phase /\ t.op = tx[r].op /\ t.bk = tx[r].bk /\ t.new = new
  BY <1>1 DEF Tx
<1>. HIDE DEF t
<1>4. CountsMove(t)
  BY <1>1, <1>2, <1>3 DEF CountsMove
<1>. QED BY <1>1, <1>3, <1>4, OneTxOvershoot

\* A transaction that goes on with what it has written, or has not.
LEMMA GoesOnOvershoot ==
  ASSUME TypeOK, OvershootInv, NEW r \in Requests, tx' = [tx EXCEPT ![r] = tx'[r]],
         UNCHANGED row, tx'[r].op = tx[r].op, tx'[r].bk = tx[r].bk, tx'[r].new = tx[r].new,
         tx[r].phase # "idle", tx'[r].phase \in Locking => tx[r].phase \in Locking
  PROVE  OvershootInv'
<1>. DEFINE t == tx'[r]
<1>1. CountsMove(tx[r])
  BY DEF OvershootInv
<1>2. CountsMove(t)
  BY <1>1 DEF CountsMove
<1>3. tx' = [tx EXCEPT ![r] = t] /\ t.op = tx[r].op /\ t.bk = tx[r].bk
  OBVIOUS
<1>. HIDE DEF t
<1>. QED BY <1>2, <1>3, OneTxOvershoot

LEMMA MiddleOvershoot ==
  ASSUME TypeOK, OvershootInv, NEW r \in Requests,
         OpenTransaction(r) \/ ReadAggregates(r) \/ WriteMaster(r)
  PROVE  OvershootInv'
<1>1. tx[r] \in Tx /\ tx \in [Requests -> Tx]
  BY DEF TypeOK
<1>2. CASE OpenTransaction(r)
  <2>1. tx' = [tx EXCEPT ![r].phase = "loaded"] /\ tx[r].phase = "again" /\ UNCHANGED row
    BY <1>2 DEF OpenTransaction
  <2>2. /\ tx' = [tx EXCEPT ![r] = tx'[r]] /\ tx'[r].op = tx[r].op /\ tx'[r].bk = tx[r].bk
        /\ tx'[r].new = tx[r].new /\ tx'[r].phase \notin Locking
    BY <1>1, <2>1 DEF Tx, Locking
  <2>. QED BY <1>1, <2>1, <2>2, GoesOnOvershoot
<1>3. CASE ReadAggregates(r)
  <2>1. PICK agg, phase :
          tx' = [tx EXCEPT ![r].agg = agg, ![r].phase = phase]
    BY <1>1, <1>3, Zenon DEF ReadAggregates
  <2>2. /\ tx' = [tx EXCEPT ![r] = tx'[r]] /\ tx'[r].op = tx[r].op /\ tx'[r].bk = tx[r].bk
        /\ tx'[r].new = tx[r].new
    BY <1>1, <2>1 DEF Tx
  <2>3. tx[r].phase \in {"written", "counted"} /\ UNCHANGED row
    BY <1>3, Zenon DEF ReadAggregates
  <2>4. tx[r].phase \in Locking /\ tx[r].phase # "idle"
    BY <2>3 DEF Locking
  <2>. QED BY <1>1, <2>2, <2>3, <2>4, GoesOnOvershoot
<1>4. CASE WriteMaster(r)
  <2>1. tx' = [tx EXCEPT ![r].phase = IF tx[r].op = "Complete" THEN "counted" ELSE "ready"]
    BY <1>4 DEF WriteMaster
  <2>2. /\ tx' = [tx EXCEPT ![r] = tx'[r]] /\ tx'[r].op = tx[r].op /\ tx'[r].bk = tx[r].bk
        /\ tx'[r].new = tx[r].new
    BY <1>1, <2>1 DEF Tx
  <2>3. tx[r].phase \in Locking /\ tx[r].phase # "idle" /\ UNCHANGED row
    BY <1>4 DEF WriteMaster, Locking
  <2>. QED BY <1>1, <2>2, <2>3, GoesOnOvershoot
<1>. QED BY <1>2, <1>3, <1>4

\* What a request beside a step that publishes rows still counts and is about to do.
LEMMA BesideOvershoot ==
  ASSUME TypeOK, OvershootInv, NEW bs, NEW ms, NEW q \in Requests,
         \/ tx'[q] = NoTx
         \/ /\ tx'[q] = Outdated(bs, ms)[q]
            /\ tx[q].phase \in Locking => row'[tx[q].bk].moves = row[tx[q].bk].moves
  PROVE  /\ CountsMove(tx[q])'
         /\ \A c : Adds(tx[q], c)' => Adds(tx[q], c)
         /\ \A b : Moves(tx[q], b)' => Moves(tx[q], b)
<1>1. CASE tx'[q] = NoTx
  BY <1>1 DEF CountsMove, Adds, Moves, NoTx, Begun, Locking
<1>2. CASE tx'[q] # NoTx
  <2>1. /\ tx'[q].phase = tx[q].phase /\ tx'[q].op = tx[q].op
        /\ tx'[q].bk = tx[q].bk /\ tx'[q].new = tx[q].new
        /\ tx[q].phase \in Locking => row'[tx[q].bk].moves = row[tx[q].bk].moves
    BY <1>2, OutdatedTyped
  <2>2. CountsMove(tx[q])
    BY DEF OvershootInv
  <2>. QED BY <2>1, <2>2 DEF CountsMove, Adds, Moves
<1>. QED BY <1>1, <1>2

LEMMA ApplyPaymentOvershoot ==
  ASSUME TypeOK, OvershootInv, NEW r \in Requests, ApplyPayment(r)
  PROVE  OvershootInv'
<1>. DEFINE b == tx[r].bk
<1>1. row' = [row EXCEPT ![b] = [ row[b] EXCEPT !.paid = row[b].paid + 1 ]]
  BY DEF ApplyPayment, TypeOK
<1>2. \A c \in Bookings : row'[c].status = row[c].status /\ row'[c].moves = row[c].moves
  BY <1>1 DEF TypeOK, Row
<1>3. /\ tx'[r] = NoTx
      /\ \A q \in Requests \ {r} : tx'[q] = Outdated({b}, {})[q]
  BY OutdatedTyped DEF ApplyPayment
<1>4. \A q \in Requests : tx[q].phase \in Locking => tx[q].bk \in Bookings
  BY DEF TypeOK, Locking
<1>. HIDE DEF b
<1>. QED BY <1>2, <1>3, <1>4, BesideOvershoot, QuietOvershoot

LEMMA ExpireOvershoot ==
  ASSUME TypeOK, OvershootInv, NEW j \in Jobs, ExpireDue(j)
  PROVE  OvershootInv'
<1>1. PICK batch \in SUBSET Due :
        /\ row' = [b \in Bookings |->
                     IF b \in batch THEN [row[b] EXCEPT !.status = "EXPIRED"] ELSE row[b]]
        /\ tx' = Outdated(batch, {})
  BY DEF ExpireDue
<1>2. \A c \in Bookings : /\ row'[c].status = "PENDING" => row[c].status = "PENDING"
                          /\ row'[c].moves = row[c].moves
  BY <1>1 DEF TypeOK, Row
<1>3. \A q \in Requests : tx[q].phase \in Locking => tx[q].bk \in Bookings
  BY DEF TypeOK, Locking
<1>. QED BY <1>1, <1>2, <1>3, BesideOvershoot, QuietOvershoot

\* The request that commits an insert or a move is no longer about to.
LEMMA CommitOvershoot ==
  ASSUME TypeOK, SlotInv, AcceptInv, OvershootInv, NEW r \in Requests, Commit(r)
  PROVE  OvershootInv'
<1>. DEFINE b == tx[r].bk  o == tx[r].op  new == tx[r].new
            ms == IF o \in MasterOps THEN {MasterOf[b]} ELSE {}
<1>1. /\ tx[r].phase \in Locking /\ b \in Bookings /\ new \in Row
      /\ row' = [row EXCEPT ![b] = new] /\ tx'[r] = NoTx
  BY CommitEffect
<1>2. row'[b] = new /\ \A c \in Bookings \ {b} : row'[c] = row[c]
  BY <1>1 DEF TypeOK
<1>3. tx[r].phase # "idle" /\ o \in OpNames /\ o # "Pay" /\ SoundTx(tx[r]) /\ CountsMove(tx[r])
  BY <1>1 DEF TypeOK, AcceptInv, OvershootInv, InTx, Locking
<1>4. o # "Create" /\ new.status = "PENDING" => row[b].status = "PENDING"
  <2>1. o \in TransitionOps => new.status # "PENDING"
    BY <1>1, <1>3, TransitionOpsNames DEF SoundTx, Target
  <2>2. o = "Reschedule" => new.status = row[b].status
    BY <1>1, <1>3 DEF SoundTx
  <2>. QED BY <1>3, <2>1, <2>2 DEF OpNames
<1>5. /\ row[b].moves \in Nat /\ new.moves \in Nat
      /\ new.moves <= row[b].moves + (IF o = "Reschedule" THEN 1 ELSE 0)
  BY <1>1, <1>3 DEF TypeOK, Row, CountsMove
<1>6. ASSUME NEW q \in Requests
      PROVE  /\ CountsMove(tx[q])'
             /\ \A c : Adds(tx[q], c)' => Adds(tx[q], c)
             /\ \A c : Moves(tx[q], c)' => Moves(tx[q], c)
  <2>1. q # r => tx'[q] = Outdated({b}, ms)[q]
    BY OutdatedTyped DEF Commit
  <2>2. q # r /\ tx[q].phase \in Locking => tx[q].bk \in Bookings \ {b}
    BY <1>1 DEF SlotInv, LocksExclusive, TypeOK, Locking
  <2>. HIDE DEF ms, b
  <2>. QED BY <1>1, <1>2, <2>1, <2>2, BesideOvershoot
<1>7. \A c : ~Adds(tx[r], c)' /\ ~Moves(tx[r], c)'
  BY <1>1 DEF Adds, Moves, NoTx, Begun
<1>8. MAX_OPEN_PENDING \in Nat /\ MAX_RESCHEDULE \in Nat
  BY ConstantsAssumption DEF ConstantsAssumption
<1>9. ASSUME NEW c \in Clients
      PROVE  OpenPending(c)' + Cardinality(Adding(c)') < MAX_OPEN_PENDING + Cardinality(Requests)
  <2>1. Adding(c) \in SUBSET Requests /\ Adding(c)' \in SUBSET Requests
    BY DEF Adding
  <2>2. Adding(c)' \subseteq Adding(c) \ {r}
    BY <1>6, <1>7 DEF Adding
  <2>3. OpenPending(c) + Cardinality(Adding(c)) < MAX_OPEN_PENDING + Cardinality(Requests)
    BY DEF OvershootInv
  <2>4. /\ OpenPending(c) \in Nat /\ OpenPending(c)' \in Nat
        /\ OpenPending(c)' <= OpenPending(c) + 1
        /\ o # "Create" \/ ClientOf[b] # c => OpenPending(c)' <= OpenPending(c)
    <3>1. /\ \A d \in Bookings \ {b} : row'[d].status = "PENDING" => row[d].status = "PENDING"
          /\ o # "Create" =>
               \A d \in Bookings : row'[d].status = "PENDING" => row[d].status = "PENDING"
      BY <1>2, <1>4
    <3>. HIDE DEF b, o
    <3>. QED BY <3>1, PendingGrows
  <2>5. o = "Create" /\ ClientOf[b] = c => r \in Adding(c)
    BY <1>3 DEF Adding, Adds
  <2>. HIDE DEF b, o
  <2>6. CASE o = "Create" /\ ClientOf[b] = c
    <3>1. \E q \in Adding(c) : Adding(c)' \subseteq Adding(c) \ {q}
      BY <2>2, <2>5, <2>6
    <3>. QED BY <1>8, <2>1, <2>3, <2>4, <3>1, CapHolds
  <2>7. CASE o # "Create" \/ ClientOf[b] # c
    BY <1>8, <2>1, <2>2, <2>3, <2>4, <2>7, CapHolds
  <2>. QED BY <2>6, <2>7
<1>10. ASSUME NEW c \in Bookings
       PROVE  row'[c].moves + Cardinality(Moving(c)') < MAX_RESCHEDULE + Cardinality(Requests)
  <2>1. Moving(c) \in SUBSET Requests /\ Moving(c)' \in SUBSET Requests
    BY DEF Moving
  <2>2. Moving(c)' \subseteq Moving(c) \ {r}
    BY <1>6, <1>7 DEF Moving
  <2>3. row[c].moves + Cardinality(Moving(c)) < MAX_RESCHEDULE + Cardinality(Requests)
    BY DEF OvershootInv
  <2>4. /\ row[c].moves \in Nat /\ row'[c].moves \in Nat
        /\ row'[c].moves <= row[c].moves + 1
        /\ o # "Reschedule" \/ b # c => row'[c].moves <= row[c].moves
    <3>1. row[c].moves \in Nat
      BY DEF TypeOK, Row
    <3>. QED BY <1>2, <1>5, <3>1
  <2>5. o = "Reschedule" /\ b = c => r \in Moving(c)
    BY <1>3 DEF Moving, Moves
  <2>. HIDE DEF b, o
  <2>6. CASE o = "Reschedule" /\ b = c
    <3>1. \E q \in Moving(c) : Moving(c)' \subseteq Moving(c) \ {q}
      BY <2>2, <2>5, <2>6
    <3>. QED BY <1>8, <2>1, <2>3, <2>4, <3>1, CapHolds
  <2>7. CASE o # "Reschedule" \/ b # c
    BY <1>8, <2>1, <2>2, <2>3, <2>4, <2>7, CapHolds
  <2>. QED BY <2>6, <2>7
<1>. QED BY <1>6, <1>9, <1>10 DEF OvershootInv

LEMMA AdvanceOvershoot ==
  ASSUME TypeOK, SlotInv, AcceptInv, OvershootInv, NEW r \in Requests, Advance(r)
  PROVE  OvershootInv'
<1>1. CASE RetryTransition(r)
  BY <1>1, LoadOvershoot DEF RetryTransition
<1>2. CASE Refused(r) \/ Excluded(r) \/ AlreadyCertified(r)
  BY <1>2, FailOvershoot DEF Refused, Excluded, AlreadyCertified
<1>3. CASE WriteConflict(r)
  BY <1>3, RunAgainOvershoot DEF WriteConflict
<1>. QED BY <1>1, <1>2, <1>3, MiddleOvershoot, ApplyPaymentOvershoot, WriteOvershoot,
            CommitOvershoot DEF Advance

LEMMA StepOvershoot ==
  TypeOK /\ SlotInv /\ AcceptInv /\ OvershootInv /\ [Next]_vars => OvershootInv'
<1>. SUFFICES ASSUME TypeOK, SlotInv, AcceptInv, OvershootInv, [Next]_vars PROVE OvershootInv'
  OBVIOUS
<1>1. CASE UNCHANGED <<row, tx>>
  BY <1>1, QuietOvershoot DEF OvershootInv, CountsMove, Adds, Moves
<1>2. ASSUME NEW r \in Requests, Arrive(r) \/ Advance(r) PROVE OvershootInv'
  BY <1>2, ArriveOvershoot, AdvanceOvershoot
<1>3. ASSUME NEW r \in Requests, DatabaseAbort(r) \/ Crash(r) PROVE OvershootInv'
  BY <1>3, RunAgainOvershoot, FailOvershoot DEF DatabaseAbort, Crash, InTx, Locking
<1>4. ASSUME NEW j \in Jobs, RunJob(j) \/ JobCrash(j) PROVE OvershootInv'
  BY <1>1, <1>4, ExpireOvershoot DEF RunJob, AppendExpiryHistory, JobCrash
<1>5. CASE Tick \/ UNCHANGED vars
  BY <1>1, <1>5 DEF Tick, vars
<1>. QED BY <1>2, <1>3, <1>4, <1>5 DEF Next

LEMMA InitOvershoot == Init => OvershootInv
<1>. SUFFICES ASSUME Init PROVE OvershootInv
  OBVIOUS
<1>1. PICK st \in [Bookings -> InitialStatuses], at \in [Bookings -> Starts] :
        row = [b \in Bookings |-> InitialRow(st[b], at[b])]
  BY DEF Init
<1>2. /\ \A r \in Requests : tx[r].phase = "idle" /\ CountsMove(tx[r])
      /\ \A c \in Clients : OpenPending(c) <= MAX_OPEN_PENDING
  BY NoTxMoves DEF Init
<1>3. \A b \in Bookings : row[b].moves = 0
  <2>1. ASSUME NEW b \in Bookings PROVE row[b].moves = 0
    <3>1. row[b] = InitialRow(st[b], at[b])
      BY <1>1
    <3>. QED BY <3>1 DEF InitialRow, NoRow
  <2>. QED BY <2>1
<1>4. /\ \A c \in Clients : Adding(c) = {} /\ OpenPending(c) \in Nat
      /\ \A b \in Bookings : Moving(b) = {}
  BY <1>2, PendingGrows DEF Adding, Moving, Adds, Moves
<1>5. /\ Cardinality({}) = 0 /\ Cardinality(Requests) \in Nat /\ Cardinality(Requests) > 0
      /\ MAX_OPEN_PENDING \in Nat /\ MAX_RESCHEDULE \in Nat
  BY SomeRequests, FS_EmptySet, ConstantsAssumption DEF ConstantsAssumption
<1>6. /\ \A c \in Clients : Cardinality(Adding(c)) = 0
      /\ \A b \in Bookings : Cardinality(Moving(b)) = 0
  BY <1>4, <1>5
<1>7. ASSUME NEW c \in Clients
      PROVE  OpenPending(c) + Cardinality(Adding(c)) < MAX_OPEN_PENDING + Cardinality(Requests)
  <2>1. OpenPending(c) \in Nat /\ OpenPending(c) <= MAX_OPEN_PENDING /\ Cardinality(Adding(c)) = 0
    BY <1>2, <1>4, <1>6
  <2>. QED BY <1>5, <2>1
<1>8. ASSUME NEW b \in Bookings
      PROVE  row[b].moves + Cardinality(Moving(b)) < MAX_RESCHEDULE + Cardinality(Requests)
  <2>1. row[b].moves = 0 /\ Cardinality(Moving(b)) = 0
    BY <1>3, <1>6
  <2>. QED BY <1>5, <2>1
<1>. QED BY <1>2, <1>7, <1>8 DEF OvershootInv

\* create() and reschedule() count before the transaction that writes: however they race, a
\* client's pending bookings and a booking's moves pass their caps by less than there are
\* requests under way at once.
THEOREM CapsOvershotLittle == Spec => []CapsOvershoot
<1>1. Init => OvershootInv
  BY InitOvershoot
<1>2. TypeOK /\ SlotInv /\ AcceptInv /\ OvershootInv /\ [Next]_vars => OvershootInv'
  BY StepOvershoot
<1>3. TypeOK /\ OvershootInv => CapsOvershoot
  <2>. SUFFICES ASSUME TypeOK, OvershootInv PROVE CapsOvershoot
    OBVIOUS
  <2>1. /\ MAX_OPEN_PENDING + Cardinality(Requests) \in Nat
        /\ MAX_RESCHEDULE + Cardinality(Requests) \in Nat
    BY SomeRequests, ConstantsAssumption DEF ConstantsAssumption
  <2>2. ASSUME NEW c \in Clients PROVE OpenPending(c) < MAX_OPEN_PENDING + Cardinality(Requests)
    <3>1. OpenPending(c) \in Nat /\ Cardinality(Adding(c)) \in Nat
      BY PendingGrows, SomeRequests DEF Adding
    <3>. QED BY <2>1, <3>1 DEF OvershootInv
  <2>3. ASSUME NEW b \in Bookings PROVE row[b].moves < MAX_RESCHEDULE + Cardinality(Requests)
    <3>1. row[b].moves \in Nat /\ Cardinality(Moving(b)) \in Nat
      BY SomeRequests DEF Moving, TypeOK, Row
    <3>. QED BY <2>1, <3>1 DEF OvershootInv
  <2>. QED BY <2>2, <2>3 DEF CapsOvershoot
<1>. QED BY <1>1, <1>2, <1>3, AcceptsKept, PTL DEF Spec
=============================================================================
