--------------------------- MODULE BookingsProofs ---------------------------
(***************************************************************************)
(* What holds of the booking engine for every number of bookings, masters, *)
(* requests and jobs, every choice of the windows and limits, and every    *)
(* set of operations in use: the types; why a master is never              *)
(* double-booked, why the engine implements the abstract calendar, and why *)
(* accept never revives a dead booking.                                    *)
(*                                                                         *)
(* A busy row is committed only by a transaction that has passed the       *)
(* exclusion constraint, so the first invariant says of the rows still to  *)
(* be committed what the constraint says of the committed ones.  The       *)
(* second says what a transaction still knows of the row it read: a lock,  *)
(* or a snapshot not yet outdated, is what makes the reading hold.         *)
(***************************************************************************)
EXTENDS BookingsProperties, FiniteSetTheorems, TLAPS

LEMMA TransitionOpsNames ==
  TransitionOps = {"Accept", "Reject", "ClientCancel", "MasterCancel",
                   "AdminCancel", "Start", "Complete"}
BY DEF TransitionOps, Target

LEMMA TargetsAreStatuses ==
  \A o \in TransitionOps : Target[o] \in Statuses
BY DEF TransitionOps, Target, Statuses

LEMMA StartsTyped == AnyStart \in Starts /\ NoRow \in Row
BY ConstantsAssumption DEF AnyStart, NoRow, Row, RowStatuses

LEMMA NoTxTyped == NoTx \in Tx
BY StartsTyped, ConstantsAssumption
DEF NoTx, Begun, Tx, Phases, NoAggregates, Aggregates

LEMMA CountTyped == \A S \in SUBSET Bookings : Cardinality(S) \in Nat
BY FS_Subset, FS_CardinalityType, ConstantsAssumption

\* A commit by others leaves a transaction what it was, but for its snapshot.
LEMMA OutdatedTyped ==
  ASSUME TypeOK, NEW bs, NEW ms
  PROVE  /\ Outdated(bs, ms) \in [Requests -> Tx]
         /\ \A q \in Requests :
              /\ Outdated(bs, ms)[q].phase = tx[q].phase
              /\ Outdated(bs, ms)[q].op = tx[q].op
              /\ Outdated(bs, ms)[q].bk = tx[q].bk
              /\ Outdated(bs, ms)[q].new = tx[q].new
<1>. SUFFICES ASSUME NEW q \in Requests
              PROVE  /\ Outdated(bs, ms)[q] \in Tx
                     /\ Outdated(bs, ms)[q].phase = tx[q].phase
                     /\ Outdated(bs, ms)[q].op = tx[q].op
                     /\ Outdated(bs, ms)[q].bk = tx[q].bk
                     /\ Outdated(bs, ms)[q].new = tx[q].new
  BY DEF Outdated
<1>. DEFINE S == tx[q].stale \cup (IF tx[q].bk \in bs THEN {"booking"} ELSE {})
                            \cup (IF MasterOf[tx[q].bk] \in ms THEN {"master"} ELSE {})
<1>1. tx[q] \in Tx
  BY DEF TypeOK
<1>2. S \in SUBSET {"booking", "master"}
  BY <1>1 DEF Tx
<1>3. Outdated(bs, ms)[q] = IF tx[q].phase \in InTx /\ tx[q].op \in Serializable
                            THEN [tx[q] EXCEPT !.stale = S] ELSE tx[q]
  BY DEF Outdated
<1>. HIDE DEF S
<1>. QED BY <1>1, <1>2, <1>3 DEF Tx

LEMMA WrittenTyped ==
  ASSUME TypeOK, NEW r \in Requests, tx[r].phase # "idle", tx[r].op # "Pay"
  PROVE  Written(r) \in Row
<1>. DEFINE b == tx[r].bk  o == tx[r].op
<1>1. b \in Bookings /\ o \in OpNames /\ row[b] \in Row /\ tx[r] \in Tx
  BY DEF TypeOK
<1>2. tx[r].new \in Row
  BY <1>1 DEF Tx
<1>3. CASE o = "Create"
  BY <1>2, <1>3 DEF Written
<1>4. CASE o = "Reschedule"
  <2>1. Written(r) = [ row[b] EXCEPT !.start = tx[r].new.start, !.moves = row[b].moves + 1 ]
    BY <1>4 DEF Written
  <2>2. tx[r].new.start \in Starts /\ row[b].moves + 1 \in Nat
    BY <1>1, <1>2 DEF Row
  <2>. HIDE DEF b
  <2>. QED BY <1>1, <2>1, <2>2 DEF Row
<1>5. CASE o = "Accept"
  BY <1>1, <1>5 DEF Written, Row, RowStatuses, Statuses
<1>6. CASE o \in TransitionOps \ {"Accept"}
  <2>0. o # "Create" /\ o # "Reschedule" /\ o # "Accept"
    BY <1>6, TransitionOpsNames
  <2>1. Written(r) = [ row[b] EXCEPT !.status = Target[o] ]
    BY <2>0 DEF Written
  <2>2. Target[o] \in RowStatuses
    BY <1>6, TargetsAreStatuses DEF RowStatuses
  <2>. QED BY <1>1, <2>1, <2>2 DEF Row
<1>. QED BY <1>1, <1>3, <1>4, <1>5, <1>6 DEF OpNames

-----------------------------------------------------------------------------
(* Type correctness *)

TxTypeOK ==
  /\ tx \in [Requests -> Tx]
  /\ \A r \in Requests :
       tx[r].phase # "idle" => tx[r].bk \in Bookings /\ tx[r].op \in OpNames
  /\ \A r \in Requests :
       tx[r].phase \in InTx => tx[r].op # "Pay"

\* What a step may put in place of a request's transaction.
GoodTx(t) ==
  /\ t \in Tx
  /\ t.phase # "idle" => t.bk \in Bookings /\ t.op \in OpNames
  /\ t.phase \in InTx => t.op # "Pay"

LEMMA NoTxGood == GoodTx(NoTx)
BY NoTxTyped DEF GoodTx, NoTx, Begun, InTx, Locking

LEMMA TxUpdated ==
  ASSUME TypeOK, NEW r \in Requests, NEW t, GoodTx(t), tx' = [tx EXCEPT ![r] = t]
  PROVE  TxTypeOK'
BY DEF TypeOK, TxTypeOK, GoodTx

LEMMA TxPublished ==
  ASSUME TypeOK, NEW r \in Requests, NEW bs, NEW ms,
         tx' = [Outdated(bs, ms) EXCEPT ![r] = NoTx]
  PROVE  TxTypeOK'
<1>1. Outdated(bs, ms) \in [Requests -> Tx]
  BY OutdatedTyped
<1>2. \A q \in Requests \ {r} : tx'[q] = Outdated(bs, ms)[q]
  BY <1>1
<1>3. tx'[r] = NoTx
  BY <1>1
<1>4. \A q \in Requests : /\ Outdated(bs, ms)[q].phase = tx[q].phase
                          /\ Outdated(bs, ms)[q].op = tx[q].op
                          /\ Outdated(bs, ms)[q].bk = tx[q].bk
  BY OutdatedTyped
<1>. QED BY <1>1, <1>2, <1>3, <1>4, NoTxGood DEF TypeOK, TxTypeOK, GoodTx

\* A request that has just read, validated or been sent back is well formed.
LEMMA BegunGood ==
  ASSUME NEW phase \in {"loaded", "again"}, NEW o \in OpNames, NEW b \in Bookings,
         NEW attempt \in 0 .. MAX_ATTEMPTS, NEW new \in Row, NEW agg \in Aggregates,
         NEW arrival \in Nat, phase = "loaded" => o # "Pay"
  PROVE  GoodTx(Begun(phase, o, b, attempt, new, agg, arrival))
BY DEF GoodTx, Begun, Tx, Phases, InTx, Locking

LEMMA AggregatesTyped ==
  ASSUME NEW b \in Bookings
  PROVE  /\ NoAggregates \in Aggregates
         /\ AcceptAggregates(b) \in Aggregates
<1>1. NoAggregates \in Aggregates
  BY DEF NoAggregates, Aggregates
<1>2. {b} \cup {c \in SameMaster(b) : row[c].acceptance # "no"} \in SUBSET Bookings
  BY DEF SameMaster
<1>. QED BY <1>1, <1>2 DEF AcceptAggregates, Aggregates

LEMMA LoadTyped ==
  ASSUME TypeOK, NEW r \in Requests, NEW o \in TransitionOps, NEW b \in Bookings,
         NEW attempt \in 0 .. MAX_ATTEMPTS, NEW arrival \in Nat,
         Load(r, o, b, attempt, arrival)
  PROVE  TypeOK'
<1>. DEFINE agg == IF o = "Accept" THEN AcceptAggregates(b) ELSE NoAggregates
            t == Begun("loaded", o, b, attempt, NoRow, agg, arrival)
<1>1. tx' = [tx EXCEPT ![r] = t]
  BY DEF Load
<1>2. agg \in Aggregates
  BY AggregatesTyped
<1>3. o \in OpNames /\ o # "Pay"
  BY TransitionOpsNames DEF OpNames
<1>. HIDE DEF agg
<1>4. GoodTx(t)
  BY <1>2, <1>3, StartsTyped, BegunGood
<1>. HIDE DEF t
<1>5. TxTypeOK'
  BY <1>1, <1>4, TxUpdated
<1>. QED BY <1>5 DEF Load, TypeOK, TxTypeOK

LEMMA ValidatedTyped ==
  ASSUME TypeOK, NEW r \in Requests, NEW o \in OpNames, NEW b \in Bookings,
         NEW new \in Row, Validated(r, o, b, new)
  PROVE  TypeOK'
<1>. DEFINE t == Begun("again", o, b, 1, new, NoAggregates, now)
<1>1. now \in Nat /\ 1 \in 0 .. MAX_ATTEMPTS
  BY ConstantsAssumption DEF TypeOK
<1>2. GoodTx(t)
  BY <1>1, AggregatesTyped, BegunGood
<1>. HIDE DEF t
<1>3. TxTypeOK'
  BY <1>2, TxUpdated DEF Validated, t
<1>. QED BY <1>3 DEF Validated, TypeOK, TxTypeOK

LEMMA FailTyped ==
  ASSUME TypeOK, NEW r \in Requests, Fail(r), faults' \in 0 .. MaxFaults
  PROVE  TypeOK'
<1>1. TxTypeOK'
  BY NoTxGood, TxUpdated DEF Fail
<1>. QED BY <1>1 DEF Fail, TypeOK, TxTypeOK

LEMMA RunAgainTyped ==
  ASSUME TypeOK, NEW r \in Requests, tx[r].phase # "idle", RunAgain(r),
         faults' \in 0 .. MaxFaults
  PROVE  TypeOK'
<1>. DEFINE new == IF tx[r].op \in TransitionOps THEN NoRow ELSE tx[r].new
            again == Begun("again", tx[r].op, tx[r].bk, tx[r].att + 1, new,
                           NoAggregates, tx[r].born)
            t == IF tx[r].att = MAX_ATTEMPTS THEN NoTx ELSE again
<1>1. /\ tx[r].op \in OpNames /\ tx[r].bk \in Bookings /\ tx[r].new \in Row
      /\ tx[r].att \in 0 .. MAX_ATTEMPTS /\ tx[r].born \in Nat
  BY DEF TypeOK, Tx
<1>2. new \in Row
  BY <1>1, StartsTyped
<1>3. tx' = [tx EXCEPT ![r] = t]
  BY DEF RunAgain, TypeOK
<1>. HIDE DEF new
<1>4. tx[r].att # MAX_ATTEMPTS => GoodTx(again)
  <2>1. tx[r].att # MAX_ATTEMPTS => tx[r].att + 1 \in 0 .. MAX_ATTEMPTS
    BY <1>1, ConstantsAssumption
  <2>. QED BY <1>1, <1>2, <2>1, AggregatesTyped, BegunGood
<1>. HIDE DEF again
<1>5. GoodTx(t)
  BY <1>4, NoTxGood
<1>. HIDE DEF t
<1>6. TxTypeOK'
  BY <1>3, <1>5, TxUpdated
<1>. QED BY <1>6 DEF RunAgain, TypeOK, TxTypeOK

LEMMA InitTyped == Init => TypeOK
<1>. SUFFICES ASSUME Init PROVE TypeOK
  OBVIOUS
<1>1. PICK st \in [Bookings -> InitialStatuses], at \in [Bookings -> Starts] :
        /\ row = [b \in Bookings |-> InitialRow(st[b], at[b])]
        /\ hist = [b \in Bookings |-> Path(st[b])]
        /\ stat = [m \in Masters |->
                     [ completed |-> 0, done |-> 0, axed |-> 0,
                       timed |-> {b \in Bookings : MasterOf[b] = m /\ st[b] \in Busy} ]]
  BY DEF Init
<1>2. row \in [Bookings -> Row]
  <2>. SUFFICES ASSUME NEW b \in Bookings PROVE InitialRow(st[b], at[b]) \in Row
    BY <1>1
  <2>1. st[b] \in RowStatuses /\ at[b] \in Starts
    BY ConstantsAssumption DEF RowStatuses, Statuses
  <2>. QED BY <2>1, StartsTyped DEF InitialRow, NoRow, Row
<1>3. hist \in [Bookings -> Seq(RowStatuses)]
  <2>. SUFFICES ASSUME NEW b \in Bookings PROVE Path(st[b]) \in Seq(RowStatuses)
    BY <1>1
  <2>1. st[b] \in {"NONE", "PENDING", "ACCEPTED", "IN_PROGRESS"}
    BY ConstantsAssumption
  <2>2. {"PENDING", "ACCEPTED", "IN_PROGRESS"} \subseteq RowStatuses
    BY DEF RowStatuses, Statuses
  <2>3. /\ <<>> \in Seq(RowStatuses)
        /\ <<"PENDING">> \in Seq(RowStatuses)
        /\ <<"PENDING", "ACCEPTED">> \in Seq(RowStatuses)
        /\ <<"PENDING", "ACCEPTED", "IN_PROGRESS">> \in Seq(RowStatuses)
    BY <2>2
  <2>4. /\ Path("NONE") = <<>> /\ Path("PENDING") = <<"PENDING">>
        /\ Path("ACCEPTED") = <<"PENDING", "ACCEPTED">>
        /\ Path("IN_PROGRESS") = <<"PENDING", "ACCEPTED", "IN_PROGRESS">>
    BY DEF Path
  <2>. QED BY <2>1, <2>3, <2>4
<1>4. stat \in [Masters -> MasterStat]
  BY <1>1 DEF MasterStat
<1>5. tx = [r \in Requests |-> NoTx]
  BY DEF Init
<1>6. NoTx.phase = "idle"
  BY DEF NoTx, Begun
<1>7. now = 0 /\ faults = 0 /\ certs = {} /\ job = [j \in Jobs |-> {}]
  BY DEF Init
<1>8. 0 \in 0 .. Horizon /\ 0 \in 0 .. MaxFaults
  BY ConstantsAssumption
<1>. QED BY <1>2, <1>3, <1>4, <1>5, <1>6, <1>7, <1>8, NoTxTyped DEF TypeOK, InTx, Locking

LEMMA CommitTyped ==
  ASSUME TypeOK, NEW r \in Requests, Commit(r)
  PROVE  TypeOK'
<1>. DEFINE b == tx[r].bk  m == MasterOf[b]
<1>1. /\ tx[r].phase = "ready" /\ tx[r] \in Tx
      /\ b \in Bookings /\ tx[r].new \in Row /\ tx[r].agg \in Aggregates
  BY DEF Commit, TypeOK, Tx
<1>2. TxTypeOK'
  BY TxPublished DEF Commit
<1>3. row' \in [Bookings -> Row]
  BY <1>1 DEF Commit, TypeOK
<1>4. hist' \in [Bookings -> Seq(RowStatuses)]
  <2>1. tx[r].new.status \in RowStatuses
    BY <1>1 DEF Row
  <2>. QED BY <1>1, <2>1 DEF Commit, TypeOK
<1>5. stat' \in [Masters -> MasterStat]
  <2>1. m \in Masters /\ stat[m] \in MasterStat
    BY <1>1, ConstantsAssumption DEF TypeOK
  <2>2. StatAfter(r) \in MasterStat
    <3>. DEFINE old == stat[m]  agg == tx[r].agg
    <3>1. /\ old.completed + 1 \in Nat /\ old \in MasterStat
          /\ agg.timed \in SUBSET Bookings /\ agg.done \in Nat /\ agg.axed \in Nat
      BY <1>1, <2>1 DEF MasterStat, Aggregates
    <3>2. \/ StatAfter(r) = [ old EXCEPT !.timed = agg.timed ]
          \/ StatAfter(r) = [ old EXCEPT !.done = agg.done, !.axed = agg.axed ]
          \/ StatAfter(r) = [ old EXCEPT !.completed = old.completed + 1,
                                         !.done = agg.done, !.axed = agg.axed ]
      BY DEF StatAfter
    <3>. HIDE DEF old, agg
    <3>. QED BY <3>1, <3>2 DEF MasterStat
  <2>. QED BY <2>1, <2>2 DEF Commit, TypeOK
<1>6. certs' \subseteq Bookings
  BY <1>1 DEF Commit, TypeOK
<1>. QED BY <1>2, <1>3, <1>4, <1>5, <1>6 DEF Commit, TypeOK, TxTypeOK

LEMMA ReadAggregatesTyped ==
  ASSUME TypeOK, NEW r \in Requests, ReadAggregates(r)
  PROVE  TypeOK'
<1>. DEFINE InSt(st) == {c \in SameMaster(tx[r].bk) : row[c].status = st}
                          \cup (IF tx[r].new.status = st THEN {tx[r].bk} ELSE {})
            done == Cardinality(InSt("COMPLETED"))
            axed == Cardinality(InSt("CANCELLED_BY_MASTER"))
            phase == IF tx[r].op = "Complete" THEN "ready" ELSE "selected"
            agg == [ tx[r].agg EXCEPT !.done = done, !.axed = axed ]
            t == [ tx[r] EXCEPT !.agg = agg, !.phase = phase ]
<1>1. /\ tx[r].phase \in Locking /\ tx[r] \in Tx
      /\ tx[r].bk \in Bookings /\ tx[r].agg \in Aggregates
  BY DEF ReadAggregates, TypeOK, Tx, Locking
<1>2. done \in Nat /\ axed \in Nat
  <2>1. InSt("COMPLETED") \in SUBSET Bookings /\ InSt("CANCELLED_BY_MASTER") \in SUBSET Bookings
    BY <1>1 DEF SameMaster
  <2>. HIDE DEF InSt
  <2>. QED BY <2>1, CountTyped
<1>3. tx' = [tx EXCEPT ![r] = t]
  BY DEF ReadAggregates, TypeOK
<1>. HIDE DEF done, axed, InSt
<1>4. agg \in Aggregates
  BY <1>1, <1>2 DEF Aggregates
<1>. HIDE DEF agg
<1>5. GoodTx(t)
  BY <1>1, <1>4 DEF GoodTx, TypeOK, Tx, Phases, InTx, Locking
<1>. HIDE DEF t
<1>6. TxTypeOK'
  BY <1>3, <1>5, TxUpdated
<1>. QED BY <1>6 DEF ReadAggregates, TypeOK, TxTypeOK

LEMMA ArriveTyped ==
  ASSUME TypeOK, NEW r \in Requests, Arrive(r)
  PROVE  TypeOK'
<1>0. now \in Nat /\ 1 \in 0 .. MAX_ATTEMPTS
  BY ConstantsAssumption DEF TypeOK
<1>1. CASE BeginTransition(r)
  <2>1. PICK o \in TransitionOps, b \in Bookings : Load(r, o, b, 1, now)
    BY <1>1 DEF BeginTransition
  <2>. QED BY <1>0, <2>1, LoadTyped
<1>2. CASE ValidateCreate(r)
  <2>1. PICK b \in Bookings, s \in Starts :
          Validated(r, "Create", b,
            IF InstantBook(MasterOf[b])
            THEN [ NoRow EXCEPT !.status = "ACCEPTED", !.start = s, !.acceptance = "instant" ]
            ELSE [ NoRow EXCEPT !.status = "PENDING", !.start = s ])
    BY <1>2 DEF ValidateCreate
  <2>2. /\ [ NoRow EXCEPT !.status = "ACCEPTED", !.start = s, !.acceptance = "instant" ] \in Row
        /\ [ NoRow EXCEPT !.status = "PENDING", !.start = s ] \in Row
    BY StartsTyped DEF NoRow, Row, RowStatuses, Statuses
  <2>. QED BY <2>1, <2>2, ValidatedTyped DEF OpNames
<1>3. CASE ValidateReschedule(r)
  <2>1. PICK b \in Bookings, s \in Starts :
          Validated(r, "Reschedule", b, [ NoRow EXCEPT !.start = s ])
    BY <1>3 DEF ValidateReschedule
  <2>2. [ NoRow EXCEPT !.start = s ] \in Row
    BY StartsTyped DEF NoRow, Row
  <2>. QED BY <2>1, <2>2, ValidatedTyped DEF OpNames
<1>4. CASE ValidatePayment(r)
  <2>1. PICK b \in Bookings : Validated(r, "Pay", b, NoRow)
    BY <1>4 DEF ValidatePayment
  <2>. QED BY <2>1, StartsTyped, ValidatedTyped DEF OpNames
<1>. QED BY <1>1, <1>2, <1>3, <1>4 DEF Arrive

LEMMA AdvanceTyped ==
  ASSUME TypeOK, NEW r \in Requests, Advance(r)
  PROVE  TypeOK'
<1>0. tx[r] \in Tx /\ (tx[r].phase # "idle" => tx[r].bk \in Bookings /\ tx[r].op \in OpNames)
  BY DEF TypeOK
<1>1. CASE RetryTransition(r)
  BY <1>0, <1>1, LoadTyped DEF RetryTransition, Tx
<1>2. CASE OpenTransaction(r)
  <2>1. GoodTx([ tx[r] EXCEPT !.phase = "loaded" ])
    BY <1>0, <1>2 DEF OpenTransaction, GoodTx, Tx, Phases, InTx, Locking
  <2>2. TxTypeOK'
    BY <1>2, <2>1, TxUpdated DEF OpenTransaction
  <2>. QED BY <1>2, <2>2 DEF OpenTransaction, TypeOK, TxTypeOK
<1>3. CASE ApplyPayment(r)
  <2>1. TxTypeOK'
    BY <1>3, TxPublished DEF ApplyPayment
  <2>2. tx[r].bk \in Bookings /\ row[tx[r].bk] \in Row
    BY <1>0, <1>3 DEF ApplyPayment, TypeOK
  <2>3. [ row[tx[r].bk] EXCEPT !.paid = row[tx[r].bk].paid + 1 ] \in Row
    BY <2>2 DEF Row
  <2>4. row' \in [Bookings -> Row]
    BY <1>3, <2>3 DEF ApplyPayment, TypeOK
  <2>. QED BY <1>3, <2>1, <2>4 DEF ApplyPayment, TypeOK, TxTypeOK
<1>4. CASE WriteBooking(r)
  <2>. DEFINE new == Written(r)
              phase == IF tx[r].op \in MasterOps THEN "written" ELSE "ready"
              t == [ tx[r] EXCEPT !.new = new, !.phase = phase ]
  <2>1. tx[r].phase = "loaded" /\ tx[r].op # "Pay"
    BY <1>4 DEF WriteBooking, TypeOK, InTx
  <2>2. new \in Row
    BY <2>1, WrittenTyped
  <2>3. tx' = [tx EXCEPT ![r] = t]
    BY <1>4 DEF WriteBooking, TypeOK
  <2>. HIDE DEF new
  <2>4. GoodTx(t)
    BY <1>0, <2>1, <2>2 DEF GoodTx, Tx, Phases, InTx, Locking
  <2>5. TxTypeOK'
    BY <2>3, <2>4, TxUpdated
  <2>. QED BY <1>4, <2>5 DEF WriteBooking, TypeOK, TxTypeOK
<1>5. CASE ReadAggregates(r)
  BY <1>5, ReadAggregatesTyped
<1>6. CASE WriteMaster(r)
  <2>. DEFINE phase == IF tx[r].op = "Complete" THEN "counted" ELSE "ready"
  <2>1. tx[r].phase \in Locking
    BY <1>6 DEF WriteMaster, Locking
  <2>2. GoodTx([ tx[r] EXCEPT !.phase = phase ])
    BY <1>0, <2>1 DEF GoodTx, Tx, Phases, InTx, Locking, TypeOK
  <2>3. TxTypeOK'
    BY <1>6, <2>2, TxUpdated DEF WriteMaster
  <2>. QED BY <1>6, <2>3 DEF WriteMaster, TypeOK, TxTypeOK
<1>7. CASE Commit(r)
  BY <1>7, CommitTyped
<1>8. CASE Refused(r) \/ Excluded(r) \/ AlreadyCertified(r)
  BY <1>8, FailTyped DEF Refused, Excluded, AlreadyCertified, TypeOK
<1>9. CASE WriteConflict(r)
  BY <1>9, RunAgainTyped DEF WriteConflict, TypeOK
<1>. QED
  BY <1>1, <1>2, <1>3, <1>4, <1>5, <1>6, <1>7, <1>8, <1>9 DEF Advance

LEMMA RunJobTyped ==
  ASSUME TypeOK, NEW j \in Jobs, RunJob(j)
  PROVE  TypeOK'
<1>1. CASE ExpireDue(j)
  <2>1. PICK batch \in SUBSET Due :
          /\ row' = [b \in Bookings |->
                       IF b \in batch THEN [row[b] EXCEPT !.status = "EXPIRED"] ELSE row[b]]
          /\ job' = [job EXCEPT ![j] = batch]
          /\ tx' = Outdated(batch, {})
    BY <1>1 DEF ExpireDue
  <2>2. row' \in [Bookings -> Row]
    BY <2>1 DEF TypeOK, Row, RowStatuses, Statuses
  <2>3. job' \in [Jobs -> SUBSET Bookings]
    BY <2>1 DEF TypeOK, Due
  <2>4. TxTypeOK'
    <3>1. /\ tx' \in [Requests -> Tx]
          /\ \A q \in Requests : /\ tx'[q].phase = tx[q].phase
                                 /\ tx'[q].op = tx[q].op /\ tx'[q].bk = tx[q].bk
      BY <2>1, OutdatedTyped
    <3>. QED BY <3>1 DEF TypeOK, TxTypeOK
  <2>. QED BY <1>1, <2>2, <2>3, <2>4 DEF ExpireDue, TypeOK, TxTypeOK
<1>2. CASE AppendExpiryHistory(j)
  <2>1. hist' \in [Bookings -> Seq(RowStatuses)]
    BY <1>2 DEF AppendExpiryHistory, TypeOK, RowStatuses, Statuses
  <2>. QED BY <1>2, <2>1 DEF AppendExpiryHistory, TypeOK
<1>. QED BY <1>1, <1>2 DEF RunJob

LEMMA FaultTyped ==
  ASSUME TypeOK, faults < MaxFaults
  PROVE  faults + 1 \in 0 .. MaxFaults
BY ConstantsAssumption DEF TypeOK

LEMMA StepTyped == TypeOK /\ [Next]_vars => TypeOK'
<1>. SUFFICES ASSUME TypeOK, [Next]_vars PROVE TypeOK'
  OBVIOUS
<1>1. CASE Tick
  BY <1>1, ConstantsAssumption DEF Tick, TypeOK
<1>2. ASSUME NEW r \in Requests, Arrive(r) PROVE TypeOK'
  BY <1>2, ArriveTyped
<1>3. ASSUME NEW r \in Requests, Advance(r) PROVE TypeOK'
  BY <1>3, AdvanceTyped
<1>4. ASSUME NEW r \in Requests, DatabaseAbort(r) PROVE TypeOK'
  <2>1. tx[r].phase # "idle" /\ RunAgain(r) /\ faults' \in 0 .. MaxFaults
    BY <1>4, FaultTyped DEF DatabaseAbort, InTx, Locking
  <2>. QED BY <2>1, RunAgainTyped
<1>5. ASSUME NEW r \in Requests, Crash(r) PROVE TypeOK'
  BY <1>5, FaultTyped, FailTyped DEF Crash
<1>6. ASSUME NEW j \in Jobs, RunJob(j) PROVE TypeOK'
  BY <1>6, RunJobTyped
<1>7. ASSUME NEW j \in Jobs, JobCrash(j) PROVE TypeOK'
  BY <1>7, FaultTyped DEF JobCrash, TypeOK
<1>8. CASE UNCHANGED vars
  BY <1>8 DEF vars, TypeOK
<1>. QED
  BY <1>1, <1>2, <1>3, <1>4, <1>5, <1>6, <1>7, <1>8 DEF Next

\* The variables keep their types, and no transaction is attempted more than
\* MAX_ATTEMPTS times.
THEOREM TypeCorrect == Spec => []TypeOK
BY InitTyped, StepTyped, PTL DEF Spec

-----------------------------------------------------------------------------
(* No double booking, the calendar, and accept *)

\* A booking row is locked by one transaction at most.
LocksExclusive ==
  \A r \in Requests, q \in Requests :
    r # q /\ tx[r].phase \in Locking /\ tx[q].phase \in Locking => tx[r].bk # tx[q].bk

\* The rows a transaction is about to publish as busy.
Pending(r) == tx[r].phase \in Locking /\ tx[r].new.status \in Busy

\* A pending row overlaps no committed one of its master, nor another pending one.
PendingFits ==
  \A r \in Requests : Pending(r) => BusyRivals(tx[r].bk, tx[r].new.start) = {}
PendingApart ==
  \A r \in Requests, q \in Requests :
    r # q /\ Pending(r) /\ Pending(q) /\ MasterOf[tx[r].bk] = MasterOf[tx[q].bk]
    => ~Clash(tx[r].bk, tx[r].new.start, tx[q].bk, tx[q].new.start)

SlotInv == LocksExclusive /\ PendingFits /\ PendingApart /\ MasterNoOverlap

\* The committed row keeps its time and, unless outside the calendar, its status.
Undisturbed(b) ==
  /\ row'[b].start = row[b].start
  /\ \/ row'[b].status = row[b].status
     \/ row[b].status \notin Busy /\ row'[b].status \notin Busy

\* A step that writes no booking and commits none: the calendar stays as it is,
\* and no transaction gains a lock or changes the row it holds ready.
Quiet ==
  /\ \A b \in Bookings : Undisturbed(b)
  /\ \A r \in Requests :
       tx'[r].phase \in Locking =>
         tx[r].phase \in Locking /\ tx'[r].bk = tx[r].bk /\ tx'[r].new = tx[r].new

LEMMA ClashSymmetric ==
  \A b, s, c, t : Clash(b, s, c, t) <=> Clash(c, t, b, s)
BY DEF Clash, Overlap

-----------------------------------------------------------------------------
(* Every step but WriteBooking and Commit is quiet. *)

\* Rows as they were, and one transaction replaced by one that locks nothing new.
LEMMA OneTxQuiet ==
  ASSUME TypeOK, NEW r \in Requests, NEW t, UNCHANGED row, tx' = [tx EXCEPT ![r] = t],
         t.phase \in Locking =>
           tx[r].phase \in Locking /\ t.bk = tx[r].bk /\ t.new = tx[r].new
  PROVE  Quiet
BY DEF Quiet, Undisturbed, TypeOK

\* Rows that keep status or leave it outside Busy, and snapshots outdated.
LEMMA PublishedQuiet ==
  ASSUME TypeOK, NEW bs, NEW ms, tx' = Outdated(bs, ms),
         \A b \in Bookings : Undisturbed(b)
  PROVE  Quiet
BY OutdatedTyped DEF Quiet, Undisturbed

LEMMA LoadQuiet ==
  ASSUME TypeOK, NEW r \in Requests, NEW o, NEW b, NEW attempt, NEW arrival,
         Load(r, o, b, attempt, arrival)
  PROVE  Quiet
BY OneTxQuiet DEF Load, Begun, Locking

LEMMA ValidatedQuiet ==
  ASSUME TypeOK, NEW r \in Requests, NEW o, NEW b, NEW new, Validated(r, o, b, new)
  PROVE  Quiet
BY OneTxQuiet DEF Validated, Begun, Locking

LEMMA FailQuiet ==
  ASSUME TypeOK, NEW r \in Requests, Fail(r)
  PROVE  Quiet
BY OneTxQuiet DEF Fail, NoTx, Begun, Locking

LEMMA RunAgainQuiet ==
  ASSUME TypeOK, NEW r \in Requests, RunAgain(r)
  PROVE  Quiet
<1>. DEFINE new == IF tx[r].op \in TransitionOps THEN NoRow ELSE tx[r].new
            again == Begun("again", tx[r].op, tx[r].bk, tx[r].att + 1, new,
                           NoAggregates, tx[r].born)
            t == IF tx[r].att = MAX_ATTEMPTS THEN NoTx ELSE again
<1>1. tx' = [tx EXCEPT ![r] = t] /\ UNCHANGED row
  BY DEF RunAgain, TypeOK
<1>2. t.phase \notin Locking
  BY DEF NoTx, Begun, Locking
<1>. HIDE DEF t
<1>. QED BY <1>1, <1>2, OneTxQuiet

LEMMA ArriveQuiet ==
  ASSUME TypeOK, NEW r \in Requests, Arrive(r)
  PROVE  Quiet
BY LoadQuiet, ValidatedQuiet
DEF Arrive, BeginTransition, ValidateCreate, ValidateReschedule, ValidatePayment

LEMMA ApplyPaymentQuiet ==
  ASSUME TypeOK, NEW r \in Requests, ApplyPayment(r)
  PROVE  Quiet
<1>. DEFINE b == tx[r].bk
<1>1. row' = [row EXCEPT ![b] = [ row[b] EXCEPT !.paid = row[b].paid + 1 ]]
  BY DEF ApplyPayment, TypeOK
<1>2. \A c \in Bookings : row'[c].status = row[c].status /\ row'[c].start = row[c].start
  BY <1>1 DEF TypeOK, Row
<1>3. /\ tx'[r] = NoTx
      /\ \A q \in Requests \ {r} : tx'[q] = Outdated({b}, {})[q]
  BY OutdatedTyped DEF ApplyPayment
<1>4. NoTx.phase \notin Locking
  BY DEF NoTx, Begun, Locking
<1>. QED BY <1>2, <1>3, <1>4, OutdatedTyped DEF Quiet, Undisturbed

LEMMA ExpireQuiet ==
  ASSUME TypeOK, NEW j \in Jobs, ExpireDue(j)
  PROVE  Quiet
<1>1. PICK batch \in SUBSET Due :
        /\ row' = [b \in Bookings |->
                     IF b \in batch THEN [row[b] EXCEPT !.status = "EXPIRED"] ELSE row[b]]
        /\ tx' = Outdated(batch, {})
  BY DEF ExpireDue
<1>2. ASSUME NEW b \in Bookings PROVE Undisturbed(b)
  <2>1. row[b] \in Row
    BY DEF TypeOK
  <2>2. b \in batch => row[b].status = "PENDING"
    BY DEF Due
  <2>3. row'[b] = IF b \in batch THEN [row[b] EXCEPT !.status = "EXPIRED"] ELSE row[b]
    BY <1>1
  <2>. QED BY <2>1, <2>2, <2>3 DEF Row, Busy, Undisturbed
<1>. QED BY <1>1, <1>2, PublishedQuiet

LEMMA AdvanceQuiet ==
  ASSUME TypeOK, NEW r \in Requests, Advance(r), ~WriteBooking(r), ~Commit(r)
  PROVE  Quiet
<1>0. tx[r] \in Tx
  BY DEF TypeOK
<1>1. CASE RetryTransition(r)
  BY <1>1, LoadQuiet DEF RetryTransition
<1>2. CASE OpenTransaction(r)
  BY <1>0, <1>2, OneTxQuiet DEF OpenTransaction, Locking, Tx
<1>3. CASE ApplyPayment(r)
  BY <1>3, ApplyPaymentQuiet
<1>4. CASE ReadAggregates(r)
  <2>. DEFINE t == tx'[r]
  <2>1. /\ tx' = [tx EXCEPT ![r] = t]
        /\ t.bk = tx[r].bk /\ t.new = tx[r].new /\ tx[r].phase \in Locking
    BY <1>0, <1>4 DEF ReadAggregates, TypeOK, Tx, Locking
  <2>. QED BY <1>4, <2>1, OneTxQuiet DEF ReadAggregates
<1>5. CASE WriteMaster(r)
  <2>. DEFINE t == tx'[r]
  <2>1. /\ tx' = [tx EXCEPT ![r] = t]
        /\ t.bk = tx[r].bk /\ t.new = tx[r].new /\ tx[r].phase \in Locking
    BY <1>0, <1>5 DEF WriteMaster, TypeOK, Tx, Locking
  <2>. QED BY <1>5, <2>1, OneTxQuiet DEF WriteMaster
<1>6. CASE Refused(r) \/ Excluded(r) \/ AlreadyCertified(r)
  BY <1>6, FailQuiet DEF Refused, Excluded, AlreadyCertified
<1>7. CASE WriteConflict(r)
  BY <1>7, RunAgainQuiet DEF WriteConflict
<1>. QED BY <1>1, <1>2, <1>3, <1>4, <1>5, <1>6, <1>7 DEF Advance

LEMMA StepKinds ==
  ASSUME TypeOK, [Next]_vars
  PROVE  Quiet \/ \E r \in Requests : WriteBooking(r) \/ Commit(r)
<1>1. CASE Tick \/ UNCHANGED vars
  BY <1>1 DEF Tick, vars, Quiet, Undisturbed
<1>2. ASSUME NEW r \in Requests, Arrive(r) PROVE Quiet
  BY <1>2, ArriveQuiet
<1>3. ASSUME NEW r \in Requests, Advance(r) PROVE Quiet \/ WriteBooking(r) \/ Commit(r)
  BY <1>3, AdvanceQuiet
<1>4. ASSUME NEW r \in Requests, DatabaseAbort(r) \/ Crash(r) PROVE Quiet
  BY <1>4, RunAgainQuiet, FailQuiet DEF DatabaseAbort, Crash
<1>5. ASSUME NEW j \in Jobs, RunJob(j) \/ JobCrash(j) PROVE Quiet
  <2>1. CASE AppendExpiryHistory(j) \/ JobCrash(j)
    BY <2>1 DEF AppendExpiryHistory, JobCrash, Quiet, Undisturbed
  <2>. QED BY <1>5, <2>1, ExpireQuiet DEF RunJob
<1>. QED BY <1>1, <1>2, <1>3, <1>4, <1>5 DEF Next

-----------------------------------------------------------------------------
(* The invariant *)

LEMMA QuietKeeps == SlotInv /\ Quiet => SlotInv'
<1>. SUFFICES ASSUME SlotInv, Quiet PROVE SlotInv'
  OBVIOUS
<1>1. LocksExclusive'
  BY DEF SlotInv, LocksExclusive, Quiet, Undisturbed
<1>2. \A r \in Requests : Pending(r)' => /\ Pending(r) /\ tx'[r].bk = tx[r].bk
                                          /\ tx'[r].new = tx[r].new
  BY DEF Pending, Quiet, Undisturbed
<1>3. \A b, s : BusyRivals(b, s)' = BusyRivals(b, s)
  BY DEF BusyRivals, SameMaster, Quiet, Undisturbed, Clash
<1>4. PendingFits'
  BY <1>2, <1>3 DEF SlotInv, PendingFits
<1>5. PendingApart'
  BY <1>2 DEF SlotInv, PendingApart, Clash
<1>6. MasterNoOverlap'
  BY DEF SlotInv, MasterNoOverlap, Quiet, Undisturbed, Clash
<1>. QED BY <1>1, <1>4, <1>5, <1>6 DEF SlotInv

\* The exclusion constraint is what lets PendingFits and PendingApart hold.
LEMMA WriteKeeps ==
  ASSUME TypeOK, SlotInv, NEW r \in Requests, WriteBooking(r)
  PROVE  SlotInv'
<1>. DEFINE b == tx[r].bk  new == Written(r)
<1>1. /\ tx[r] \in Tx /\ tx[r].phase = "loaded" /\ b \in Bookings
      /\ ~Locked(b) /\ Admitted(r, b, new) /\ row' = row
  BY DEF WriteBooking, TypeOK
<1>2. /\ tx'[r].bk = b /\ tx'[r].new = new
      /\ \A q \in Requests \ {r} : tx'[q] = tx[q]
  BY <1>1 DEF WriteBooking, TypeOK, Tx
<1>. HIDE DEF new
<1>3. LocksExclusive'
  <2>1. \A q \in Requests \ {r} : tx[q].phase \in Locking => tx[q].bk # b
    BY <1>1 DEF Locked, Holds
  <2>. QED BY <1>2, <2>1 DEF SlotInv, LocksExclusive
<1>4. \A c, s : BusyRivals(c, s)' = BusyRivals(c, s)
  BY <1>1 DEF BusyRivals, SameMaster, Clash
<1>5. PendingFits'
  <2>1. Pending(r)' => BusyRivals(b, new.start) = {}
    BY <1>1, <1>2 DEF Pending, Admitted
  <2>2. \A q \in Requests \ {r} : Pending(q)' => Pending(q)
    BY <1>2 DEF Pending
  <2>. QED BY <1>2, <1>4, <2>1, <2>2 DEF SlotInv, PendingFits
<1>6. PendingApart'
  <2>1. ASSUME NEW q \in Requests \ {r}, Pending(r)', Pending(q)',
               MasterOf[b] = MasterOf[tx[q].bk]
        PROVE  ~Clash(b, new.start, tx[q].bk, tx[q].new.start)
    <3>1. new.status \in Busy /\ tx[q].phase \in Locking /\ tx[q].new.status \in Busy
      BY <1>2, <2>1 DEF Pending
    <3>2. PendingRivals(r, b, new.start) = {}
      BY <1>1, <3>1 DEF Admitted
    <3>3. tx[q].bk \in Bookings /\ tx[q].bk # b
      BY <1>1, <3>1 DEF TypeOK, Locked, Holds, Locking
    <3>. QED BY <2>1, <3>1, <3>2, <3>3 DEF PendingRivals, SameMaster
  <2>2. \A q \in Requests \ {r} : Pending(q)' => Pending(q)
    BY <1>2 DEF Pending
  <2>3. ASSUME NEW p \in Requests, NEW q \in Requests, p # q, Pending(p)', Pending(q)',
               MasterOf[tx'[p].bk] = MasterOf[tx'[q].bk]
        PROVE  ~Clash(tx'[p].bk, tx'[p].new.start, tx'[q].bk, tx'[q].new.start)
    <3>1. CASE p = r
      BY <1>2, <2>1, <2>3, <3>1
    <3>2. CASE q = r
      BY <1>2, <2>1, <2>3, <3>2, ClashSymmetric
    <3>3. CASE p # r /\ q # r
      BY <1>2, <2>2, <2>3, <3>3 DEF SlotInv, PendingApart
    <3>. QED BY <3>1, <3>2, <3>3
  <2>. QED BY <2>3 DEF PendingApart, Clash
<1>7. MasterNoOverlap'
  BY <1>1 DEF SlotInv, MasterNoOverlap, Clash
<1>. QED BY <1>3, <1>5, <1>6, <1>7 DEF SlotInv

\* What a commit does to the rows, and to everyone else's locks.
LEMMA CommitEffect ==
  ASSUME TypeOK, NEW r \in Requests, Commit(r)
  PROVE  /\ tx[r].phase \in Locking /\ tx[r].bk \in Bookings /\ tx[r].new \in Row
         /\ row' = [row EXCEPT ![tx[r].bk] = tx[r].new]
         /\ tx'[r] = NoTx
         /\ \A q \in Requests \ {r} :
              /\ tx'[q].phase = tx[q].phase /\ tx'[q].op = tx[q].op
              /\ tx'[q].bk = tx[q].bk /\ tx'[q].new = tx[q].new
<1>1. tx[r] \in Tx /\ tx[r].phase = "ready"
  BY DEF TypeOK, Commit
<1>. DEFINE O == Outdated({tx[r].bk}, IF tx[r].op \in MasterOps THEN {MasterOf[tx[r].bk]} ELSE {})
<1>2. tx' = [O EXCEPT ![r] = NoTx]
  BY DEF Commit
<1>3. /\ O \in [Requests -> Tx]
      /\ \A q \in Requests : /\ O[q].phase = tx[q].phase /\ O[q].op = tx[q].op
                              /\ O[q].bk = tx[q].bk /\ O[q].new = tx[q].new
  BY OutdatedTyped
<1>. HIDE DEF O
<1>4. tx[r].phase \in Locking /\ tx[r].bk \in Bookings /\ tx[r].new \in Row
  <2>1. tx[r].phase # "idle" => tx[r].bk \in Bookings
    BY DEF TypeOK
  <2>. QED BY <1>1, <2>1 DEF Tx, Locking
<1>5. row' = [row EXCEPT ![tx[r].bk] = tx[r].new]
  BY DEF Commit
<1>6. tx'[r] = NoTx /\ \A q \in Requests \ {r} : tx'[q] = O[q]
  BY <1>2, <1>3
<1>. QED BY <1>3, <1>4, <1>5, <1>6

LEMMA CommitKeeps ==
  ASSUME TypeOK, SlotInv, NEW r \in Requests, Commit(r)
  PROVE  SlotInv'
<1>. DEFINE b == tx[r].bk  new == tx[r].new
<1>1. /\ tx[r].phase \in Locking /\ b \in Bookings /\ new \in Row
      /\ row' = [row EXCEPT ![b] = new]
      /\ tx'[r].phase \notin Locking
      /\ \A q \in Requests \ {r} :
           /\ tx'[q].phase = tx[q].phase
           /\ tx'[q].bk = tx[q].bk /\ tx'[q].new = tx[q].new
  BY CommitEffect DEF NoTx, Begun, Locking
<1>2. row'[b] = new /\ \A c \in Bookings \ {b} : row'[c] = row[c]
  BY <1>1 DEF TypeOK
<1>3. LocksExclusive'
  BY <1>1 DEF SlotInv, LocksExclusive
<1>4. \A q \in Requests : Pending(q)' => /\ q # r /\ Pending(q) /\ tx'[q].bk = tx[q].bk
                                          /\ tx'[q].new = tx[q].new
  BY <1>1 DEF Pending
<1>5. PendingFits'
  <2>. SUFFICES ASSUME NEW q \in Requests, Pending(q)',
                       NEW c \in BusyRivals(tx[q].bk, tx[q].new.start)'
                PROVE  FALSE
    BY <1>4 DEF PendingFits
  <2>0. q # r /\ Pending(q) /\ tx[q].bk # b
    BY <1>1, <1>4 DEF SlotInv, LocksExclusive, Pending
  <2>1. /\ c \in SameMaster(tx[q].bk) /\ row'[c].status \in Busy
        /\ Clash(tx[q].bk, tx[q].new.start, c, row'[c].start)
    BY <1>4 DEF BusyRivals, SameMaster, Clash
  <2>2. CASE c = b
    <3>1. Pending(r) /\ MasterOf[tx[q].bk] = MasterOf[b]
      BY <1>1, <1>2, <2>1, <2>2 DEF Pending, SameMaster
    <3>. QED BY <1>2, <2>0, <2>1, <2>2, <3>1 DEF SlotInv, PendingApart
  <2>3. CASE c # b
    BY <1>2, <2>0, <2>1, <2>3 DEF SlotInv, PendingFits, BusyRivals, SameMaster
  <2>. QED BY <2>2, <2>3
<1>6. PendingApart'
  BY <1>4 DEF SlotInv, PendingApart, Clash
<1>7. MasterNoOverlap'
  <2>1. ASSUME NEW c \in Bookings \ {b}, MasterOf[c] = MasterOf[b],
               new.status \in Busy, row[c].status \in Busy
        PROVE  ~Clash(b, new.start, c, row[c].start)
    <3>1. BusyRivals(b, new.start) = {}
      BY <1>1, <2>1 DEF SlotInv, PendingFits, Pending
    <3>. QED BY <2>1, <3>1 DEF BusyRivals, SameMaster
  <2>2. ASSUME NEW c \in Bookings, NEW d \in Bookings, c # d, MasterOf[c] = MasterOf[d],
               row'[c].status \in Busy, row'[d].status \in Busy
        PROVE  ~Clash(c, row'[c].start, d, row'[d].start)
    <3>1. CASE c = b
      BY <1>2, <2>1, <2>2, <3>1
    <3>2. CASE d = b
      BY <1>2, <2>1, <2>2, <3>2, ClashSymmetric
    <3>3. CASE c # b /\ d # b
      BY <1>2, <2>2, <3>3 DEF SlotInv, MasterNoOverlap
    <3>. QED BY <3>1, <3>2, <3>3
  <2>. QED BY <2>2 DEF MasterNoOverlap, Clash
<1>. QED BY <1>3, <1>5, <1>6, <1>7 DEF SlotInv

LEMMA InitSlots == Init => SlotInv
<1>. SUFFICES ASSUME Init PROVE SlotInv
  OBVIOUS
<1>1. \A r \in Requests : tx[r].phase \notin Locking
  BY DEF Init, NoTx, Begun, Locking
<1>2. PICK st \in [Bookings -> InitialStatuses], at \in [Bookings -> Starts] :
        /\ row = [b \in Bookings |-> InitialRow(st[b], at[b])]
        /\ \A b \in Bookings : st[b] \in Busy => BusyRivals(b, at[b]) = {}
  BY DEF Init
<1>3. \A b \in Bookings : row[b].status \in Busy => st[b] \in Busy /\ row[b].start = at[b]
  BY <1>2 DEF InitialRow, NoRow, Busy
<1>4. MasterNoOverlap
  BY <1>2, <1>3 DEF MasterNoOverlap, BusyRivals, SameMaster
<1>. QED BY <1>1, <1>4 DEF SlotInv, LocksExclusive, PendingFits, PendingApart, Pending

LEMMA StepSlots == TypeOK /\ SlotInv /\ [Next]_vars => SlotInv'
BY StepKinds, QuietKeeps, WriteKeeps, CommitKeeps

\* The strengthening of MasterNoOverlap that a step preserves.
THEOREM SlotsKept == Spec => [](TypeOK /\ SlotInv)
<1>1. Init => TypeOK /\ SlotInv
  BY InitTyped, InitSlots
<1>2. TypeOK /\ SlotInv /\ [Next]_vars => (TypeOK /\ SlotInv)'
  BY StepTyped, StepSlots
<1>. QED BY <1>1, <1>2, PTL DEF Spec

\* BR-33: whatever races, no two accepted or running bookings of one master
\* overlap.
THEOREM NoOverlap == Spec => []MasterNoOverlap
<1>1. TypeOK /\ SlotInv => MasterNoOverlap
  BY DEF SlotInv
<1>. QED BY <1>1, SlotsKept, PTL

-----------------------------------------------------------------------------
(* The engine implements MasterCalendar, with held <- Held. *)

LEMMA ClashIsNotApart ==
  ASSUME NEW b \in Bookings, NEW c \in Bookings, NEW s \in Starts, NEW t \in Starts
  PROVE  Calendar!Apart(b, s, c, t) <=> ~Clash(b, s, c, t)
<1>1. Duration[b] \in Nat /\ Duration[c] \in Nat /\ s \in Nat /\ t \in Nat
  BY ConstantsAssumption
<1>. QED BY <1>1 DEF Calendar!Apart, Clash, Overlap

LEMMA InitHeld == Init => Calendar!Init
<1>. SUFFICES ASSUME Init PROVE Calendar!Init
  OBVIOUS
<1>1. TypeOK /\ MasterNoOverlap
  BY InitTyped, InitSlots DEF SlotInv
<1>2. \A b \in Bookings : row[b].start \in Starts
  BY <1>1 DEF TypeOK, Row
<1>3. Held \in [Bookings -> {{}} \cup {{s} : s \in Starts}]
  BY <1>2 DEF Held
<1>4. \A b \in Bookings : \A s \in Held[b] : row[b].status \in Busy /\ s = row[b].start
  BY DEF Held
<1>5. Calendar!NoDoubleBooking
  BY <1>1, <1>2, <1>4, ClashIsNotApart DEF MasterNoOverlap, Calendar!NoDoubleBooking
<1>. QED BY <1>3, <1>5 DEF Calendar!Init

LEMMA QuietHolds == Quiet => Held' = Held
BY DEF Quiet, Undisturbed, Held

\* A commit books, moves or frees the time of one booking, or leaves it alone.
LEMMA CommitHolds ==
  ASSUME TypeOK, SlotInv, NEW r \in Requests, Commit(r)
  PROVE  Calendar!Next \/ Held' = Held
<1>. DEFINE b == tx[r].bk  new == tx[r].new
<1>1. /\ tx[r].phase \in Locking /\ b \in Bookings /\ new \in Row
      /\ row' = [row EXCEPT ![b] = new]
  BY CommitEffect
<1>2. Held' = [Held EXCEPT ![b] = IF new.status \in Busy THEN {new.start} ELSE {}]
  BY <1>1 DEF Held, TypeOK
<1>3. Held[b] = {} \/ Held[b] # {}
  OBVIOUS
<1>4. CASE new.status \in Busy
  <2>1. BusyRivals(b, new.start) = {}
    BY <1>1, <1>4 DEF SlotInv, PendingFits, Pending
  <2>2. Calendar!Fits(b, new.start)
    <3>. SUFFICES ASSUME NEW c \in Bookings \ {b}, MasterOf[c] = MasterOf[b],
                         NEW t \in Held[c]
                  PROVE  Calendar!Apart(b, new.start, c, t)
      BY DEF Calendar!Fits
    <3>1. row[c].status \in Busy /\ t = row[c].start
      BY DEF Held
    <3>2. ~Clash(b, new.start, c, t)
      BY <2>1, <3>1 DEF BusyRivals, SameMaster
    <3>3. new.start \in Starts /\ t \in Starts
      BY <1>1, <3>1 DEF TypeOK, Row
    <3>. QED BY <1>1, <3>2, <3>3, ClashIsNotApart
  <2>3. new.start \in Starts
    BY <1>1 DEF Row
  <2>4. Held' = [Held EXCEPT ![b] = {new.start}]
    BY <1>2, <1>4
  <2>5. Calendar!Hold(b) \/ Calendar!Move(b)
    BY <1>3, <2>2, <2>3, <2>4 DEF Calendar!Hold, Calendar!Move
  <2>. QED BY <1>1, <2>5 DEF Calendar!Next
<1>5. CASE new.status \notin Busy
  <2>1. Held' = [Held EXCEPT ![b] = {}]
    BY <1>2, <1>5
  <2>2. CASE Held[b] = {}
    BY <2>1, <2>2 DEF Held
  <2>3. CASE Held[b] # {}
    BY <1>1, <2>1, <2>3 DEF Calendar!Release, Calendar!Next
  <2>. QED BY <2>2, <2>3
<1>. QED BY <1>4, <1>5

LEMMA StepHolds ==
  ASSUME TypeOK, SlotInv, [Next]_vars
  PROVE  [Calendar!Next]_Held
<1>1. ASSUME NEW r \in Requests, WriteBooking(r) PROVE Held' = Held
  BY <1>1 DEF WriteBooking, Held
<1>. QED BY <1>1, StepKinds, QuietHolds, CommitHolds

\* The engine implements the abstract calendar: whatever accept, instant-book,
\* reschedule, start, complete, the cancellations and the jobs do, a master's
\* time is only booked when free, moved onto free time, or given back.
THEOREM Implements == Spec => ImplementsCalendar
<1>1. Init => Calendar!Init
  BY InitHeld
<1>2. TypeOK /\ SlotInv /\ [Next]_vars => [Calendar!Next]_Held
  BY StepHolds
<1>. QED BY <1>1, <1>2, SlotsKept, PTL DEF Spec, ImplementsCalendar, Calendar!Spec

-----------------------------------------------------------------------------
(* What a transaction still knows of the row it has read.                  *)

SoundTx(t) ==
  /\ t.phase # "idle" /\ t.op = "Create" =>
       row[t.bk].status = "NONE" /\ t.new.status \in Open
  /\ t.phase # "idle" /\ t.op # "Create" => row[t.bk].status # "NONE"
  /\ t.phase \in Locking /\ t.op \in TransitionOps => t.new.status = Target[t.op]
  /\ t.phase \in Locking /\ t.op = "Reschedule" => t.new.status = row[t.bk].status
  /\ /\ t.op = "Accept"
     /\ t.phase \in Locking \/ (t.phase = "loaded" /\ "booking" \notin t.stale)
     => row[t.bk].status = "PENDING"

Creating(t, b) == t.phase # "idle" /\ t.op = "Create" /\ t.bk = b

\* No two requests create one booking.
CreatesAlone ==
  \A r \in Requests, q \in Requests, b \in Bookings :
    Creating(tx[r], b) /\ Creating(tx[q], b) => r = q

AcceptInv == CreatesAlone /\ \A r \in Requests : SoundTx(tx[r])

\* Rows as they were, and one transaction replaced by a sound one.
LEMMA OneTxSound ==
  ASSUME TypeOK, AcceptInv, NEW r \in Requests, NEW t, UNCHANGED row,
         tx' = [tx EXCEPT ![r] = t], SoundTx(t),
         \A b \in Bookings : Creating(t, b) =>
           Creating(tx[r], b) \/ \A q \in Requests : tx[q].bk # b
  PROVE  AcceptInv'
<1>1. tx'[r] = t /\ \A q \in Requests \ {r} : tx'[q] = tx[q]
  BY DEF TypeOK
<1>2. \A q \in Requests : SoundTx(tx'[q])
  BY <1>1 DEF AcceptInv
<1>3. CreatesAlone'
  BY <1>1 DEF AcceptInv, CreatesAlone, Creating
<1>. QED BY <1>2, <1>3 DEF AcceptInv, SoundTx

LEMMA NoTxSound == SoundTx(NoTx) /\ \A b : ~Creating(NoTx, b)
BY TransitionOpsNames DEF SoundTx, Creating, NoTx, Begun, Locking

LEMMA LoadSound ==
  ASSUME TypeOK, AcceptInv, NEW r \in Requests, NEW o \in TransitionOps,
         NEW b \in Bookings, NEW attempt, NEW arrival, Load(r, o, b, attempt, arrival)
  PROVE  AcceptInv'
<1>. DEFINE agg == IF o = "Accept" THEN AcceptAggregates(b) ELSE NoAggregates
            t == Begun("loaded", o, b, attempt, NoRow, agg, arrival)
<1>1. tx' = [tx EXCEPT ![r] = t] /\ UNCHANGED row
  BY DEF Load
<1>2. /\ o # "Create" /\ row[b].status # "NONE"
      /\ o = "Accept" => row[b].status = "PENDING"
  BY TransitionOpsNames DEF Load, Legal, CanTransition, Transitions, Target, Actor
<1>. HIDE DEF agg
<1>3. SoundTx(t) /\ \A c : ~Creating(t, c)
  BY <1>2 DEF SoundTx, Creating, Begun, Locking
<1>. HIDE DEF t
<1>. QED BY <1>1, <1>3, OneTxSound

LEMMA ValidatedSound ==
  ASSUME TypeOK, AcceptInv, NEW r \in Requests, NEW o, NEW b \in Bookings, NEW new,
         Validated(r, o, b, new), o \notin TransitionOps,
         \/ /\ o = "Create" /\ row[b].status = "NONE" /\ new.status \in Open
            /\ \A q \in Requests : tx[q].bk # b
         \/ o # "Create" /\ row[b].status # "NONE"
  PROVE  AcceptInv'
<1>. DEFINE t == Begun("again", o, b, 1, new, NoAggregates, now)
<1>1. tx' = [tx EXCEPT ![r] = t] /\ UNCHANGED row
  BY DEF Validated
<1>2. SoundTx(t)
  BY TransitionOpsNames DEF SoundTx, Begun, Locking
<1>3. \A c \in Bookings : Creating(t, c) => \A q \in Requests : tx[q].bk # c
  BY DEF Creating, Begun
<1>. HIDE DEF t
<1>. QED BY <1>1, <1>2, <1>3, OneTxSound

LEMMA FailSound ==
  ASSUME TypeOK, AcceptInv, NEW r \in Requests, Fail(r)
  PROVE  AcceptInv'
BY NoTxSound, OneTxSound DEF Fail

LEMMA RunAgainSound ==
  ASSUME TypeOK, AcceptInv, NEW r \in Requests, RunAgain(r), tx[r].phase # "idle"
  PROVE  AcceptInv'
<1>. DEFINE new == IF tx[r].op \in TransitionOps THEN NoRow ELSE tx[r].new
            again == Begun("again", tx[r].op, tx[r].bk, tx[r].att + 1, new,
                           NoAggregates, tx[r].born)
            t == IF tx[r].att = MAX_ATTEMPTS THEN NoTx ELSE again
<1>1. tx' = [tx EXCEPT ![r] = t] /\ UNCHANGED row
  BY DEF RunAgain, TypeOK
<1>2. SoundTx(tx[r])
  BY DEF AcceptInv
<1>3. tx[r].op = "Create" => new = tx[r].new
  BY TransitionOpsNames
<1>. HIDE DEF new
<1>4. SoundTx(again) /\ \A b : Creating(again, b) => Creating(tx[r], b)
  BY <1>2, <1>3 DEF SoundTx, Creating, Begun, Locking
<1>. HIDE DEF again
<1>5. SoundTx(t) /\ \A b : Creating(t, b) => Creating(tx[r], b)
  BY <1>4, NoTxSound
<1>. HIDE DEF t
<1>. QED BY <1>1, <1>5, OneTxSound

LEMMA ArriveSound ==
  ASSUME TypeOK, AcceptInv, NEW r \in Requests, Arrive(r)
  PROVE  AcceptInv'
<1>1. CASE BeginTransition(r)
  BY <1>1, LoadSound DEF BeginTransition
<1>2. CASE ValidateCreate(r)
  <2>1. PICK b \in Bookings, s \in Starts :
          /\ row[b].status = "NONE" /\ \A q \in Requests : tx[q].bk # b
          /\ Validated(r, "Create", b,
               IF InstantBook(MasterOf[b])
               THEN [ NoRow EXCEPT !.status = "ACCEPTED", !.start = s, !.acceptance = "instant" ]
               ELSE [ NoRow EXCEPT !.status = "PENDING", !.start = s ])
    BY <1>2 DEF ValidateCreate
  <2>. DEFINE new == IF InstantBook(MasterOf[b])
               THEN [ NoRow EXCEPT !.status = "ACCEPTED", !.start = s, !.acceptance = "instant" ]
               ELSE [ NoRow EXCEPT !.status = "PENDING", !.start = s ]
  <2>2. new.status \in Open
    BY DEF NoRow, Open
  <2>3. Validated(r, "Create", b, new)
    BY <2>1
  <2>. HIDE DEF new
  <2>. QED BY <2>1, <2>2, <2>3, ValidatedSound, TransitionOpsNames
<1>3. CASE ValidateReschedule(r)
  <2>1. PICK b \in Bookings, s \in Starts :
          row[b].status \in Open /\ Validated(r, "Reschedule", b, [ NoRow EXCEPT !.start = s ])
    BY <1>3 DEF ValidateReschedule
  <2>2. row[b].status # "NONE"
    BY <2>1 DEF Open
  <2>. QED BY <2>1, <2>2, ValidatedSound, TransitionOpsNames
<1>4. CASE ValidatePayment(r)
  <2>1. PICK b \in Bookings : Payable(b) /\ Validated(r, "Pay", b, NoRow)
    BY <1>4 DEF ValidatePayment
  <2>2. row[b].status # "NONE"
    BY <2>1 DEF Payable
  <2>. QED BY <2>1, <2>2, ValidatedSound, TransitionOpsNames
<1>. QED BY <1>1, <1>2, <1>3, <1>4 DEF Arrive

\* A commit by another of the rows bs takes what an unlocked accept knows of them.
LEMMA OutdatedForgets ==
  ASSUME TypeOK, NEW bs, NEW ms, NEW q \in Requests,
         tx[q].op = "Accept", tx[q].phase = "loaded", "booking" \notin Outdated(bs, ms)[q].stale
  PROVE  "booking" \notin tx[q].stale /\ tx[q].bk \notin bs
<1>. DEFINE S == tx[q].stale \cup (IF tx[q].bk \in bs THEN {"booking"} ELSE {})
                            \cup (IF MasterOf[tx[q].bk] \in ms THEN {"master"} ELSE {})
<1>1. tx[q] \in Tx
  BY DEF TypeOK
<1>2. Outdated(bs, ms)[q] = [tx[q] EXCEPT !.stale = S]
  BY DEF Outdated, InTx, Serializable
<1>. HIDE DEF S
<1>3. Outdated(bs, ms)[q].stale = S
  BY <1>1, <1>2 DEF Tx
<1>. QED BY <1>3 DEF S

\* Only rows of bs change status, and none is deleted.
RowsPublished(bs) ==
  \A b \in Bookings : /\ row'[b].status # row[b].status => b \in bs
                      /\ row'[b].status = "NONE" => row[b].status = "NONE"

\* q goes on beside such a step: the row it holds locked or creates is not touched.
GoesOnBeside(q, bs, ms) ==
  /\ tx'[q] = Outdated(bs, ms)[q]
  /\ tx[q].phase \in Locking => row'[tx[q].bk].status = row[tx[q].bk].status
  /\ tx[q].phase # "idle" /\ tx[q].op = "Create" => row'[tx[q].bk].status = "NONE"

LEMMA PublishedSound ==
  ASSUME TypeOK, AcceptInv, NEW bs, NEW ms, RowsPublished(bs),
         \A q \in Requests : tx'[q] = NoTx \/ GoesOnBeside(q, bs, ms)
  PROVE  AcceptInv'
<1>1. ASSUME NEW q \in Requests, tx'[q] = NoTx PROVE SoundTx(tx[q])' /\ \A b : ~Creating(tx[q], b)'
  BY <1>1, TransitionOpsNames DEF SoundTx, Creating, NoTx, Begun, Locking
<1>2. ASSUME NEW q \in Requests, GoesOnBeside(q, bs, ms) PROVE SoundTx(tx[q])'
  <2>1. /\ tx'[q].phase = tx[q].phase /\ tx'[q].op = tx[q].op
        /\ tx'[q].bk = tx[q].bk /\ tx'[q].new = tx[q].new
        /\ tx'[q].stale = Outdated(bs, ms)[q].stale
    BY <1>2, OutdatedTyped DEF GoesOnBeside
  <2>2. SoundTx(tx[q]) /\ (tx[q].phase # "idle" => tx[q].bk \in Bookings)
    BY DEF AcceptInv, TypeOK
  <2>3. ASSUME tx'[q].op = "Accept", tx'[q].phase = "loaded", "booking" \notin tx'[q].stale
        PROVE  row'[tx[q].bk].status = "PENDING"
    <3>1. "booking" \notin tx[q].stale /\ tx[q].bk \notin bs
      <4>1. /\ tx[q].op = "Accept" /\ tx[q].phase = "loaded"
            /\ "booking" \notin Outdated(bs, ms)[q].stale
        BY <2>1, <2>3
      <4>. QED BY <4>1, OutdatedForgets
    <3>. QED BY <2>1, <2>2, <2>3, <3>1 DEF SoundTx, RowsPublished
  <2>4. Locking \subseteq Phases \ {"idle"}
    BY DEF Locking, Phases
  <2>. QED BY <1>2, <2>1, <2>2, <2>3, <2>4 DEF SoundTx, GoesOnBeside, RowsPublished
<1>3. \A q \in Requests : \A b : Creating(tx[q], b)' => Creating(tx[q], b)
  BY <1>1, OutdatedTyped DEF Creating, GoesOnBeside
<1>4. CreatesAlone'
  BY <1>3 DEF AcceptInv, CreatesAlone
<1>. QED BY <1>1, <1>2, <1>4 DEF AcceptInv

LEMMA CommitSound ==
  ASSUME TypeOK, SlotInv, AcceptInv, NEW r \in Requests, Commit(r)
  PROVE  AcceptInv'
<1>. DEFINE b == tx[r].bk
            ms == IF tx[r].op \in MasterOps THEN {MasterOf[b]} ELSE {}
<1>1. /\ tx[r].phase \in Locking /\ b \in Bookings /\ tx[r].new \in Row
      /\ row' = [row EXCEPT ![b] = tx[r].new] /\ tx'[r] = NoTx
  BY CommitEffect
<1>2. \A q \in Requests \ {r} : tx'[q] = Outdated({b}, ms)[q]
  BY OutdatedTyped DEF Commit
<1>3. row'[b] = tx[r].new /\ \A c \in Bookings \ {b} : row'[c] = row[c]
  BY <1>1 DEF TypeOK
<1>4. tx[r].phase # "idle" /\ tx[r].op \in OpNames /\ tx[r].op # "Pay" /\ SoundTx(tx[r])
  BY <1>1 DEF TypeOK, AcceptInv, InTx, Locking
<1>5. row'[b].status # "NONE"
  <2>1. CASE tx[r].op = "Create"
    BY <1>3, <1>4, <2>1 DEF SoundTx, Open
  <2>2. CASE tx[r].op = "Reschedule"
    BY <1>1, <1>3, <1>4, <2>2 DEF SoundTx
  <2>3. CASE tx[r].op \in TransitionOps
    <3>1. tx[r].new.status = Target[tx[r].op]
      BY <1>1, <1>4, <2>3 DEF SoundTx
    <3>. QED BY <1>3, <2>3, <3>1, TargetsAreStatuses DEF Statuses
  <2>. QED BY <1>4, <2>1, <2>2, <2>3 DEF OpNames
<1>6. ASSUME NEW q \in Requests \ {r}
      PROVE  /\ tx[q].phase \in Locking => row'[tx[q].bk].status = row[tx[q].bk].status
             /\ tx[q].phase # "idle" /\ tx[q].op = "Create" => row'[tx[q].bk].status = "NONE"
  <2>1. tx[q].phase \in Locking => tx[q].bk \in Bookings \ {b}
    BY <1>1 DEF SlotInv, LocksExclusive, TypeOK, Locking
  <2>2. ASSUME tx[q].phase # "idle", tx[q].op = "Create"
        PROVE  tx[q].bk \in Bookings \ {b} /\ row[tx[q].bk].status = "NONE"
    <3>1. tx[q].bk \in Bookings /\ row[tx[q].bk].status = "NONE"
      BY <2>2 DEF AcceptInv, SoundTx, TypeOK
    <3>2. CASE tx[r].op = "Create"
      BY <1>1, <1>4, <2>2, <3>1, <3>2 DEF AcceptInv, CreatesAlone, Creating
    <3>3. CASE tx[r].op # "Create"
      BY <1>4, <3>1, <3>3 DEF SoundTx
    <3>. QED BY <3>1, <3>2, <3>3
  <2>. QED BY <1>3, <2>1, <2>2
<1>7. RowsPublished({b})
  BY <1>3, <1>5 DEF RowsPublished
<1>8. \A q \in Requests \ {r} : GoesOnBeside(q, {b}, ms)
  BY <1>2, <1>6 DEF GoesOnBeside
<1>. HIDE DEF b, ms
<1>. QED BY <1>1, <1>7, <1>8, PublishedSound

LEMMA ApplyPaymentSound ==
  ASSUME TypeOK, AcceptInv, NEW r \in Requests, ApplyPayment(r)
  PROVE  AcceptInv'
<1>. DEFINE b == tx[r].bk
<1>1. row' = [row EXCEPT ![b] = [ row[b] EXCEPT !.paid = row[b].paid + 1 ]]
  BY DEF ApplyPayment, TypeOK
<1>2. \A c \in Bookings : row'[c].status = row[c].status
  BY <1>1 DEF TypeOK, Row
<1>3. /\ tx'[r] = NoTx
      /\ \A q \in Requests \ {r} : tx'[q] = Outdated({b}, {})[q]
  BY OutdatedTyped DEF ApplyPayment
<1>4. \A q \in Requests : tx[q].phase # "idle" => tx[q].bk \in Bookings /\ SoundTx(tx[q])
  BY DEF AcceptInv, TypeOK
<1>5. \A q \in Requests \ {r} : GoesOnBeside(q, {b}, {})
  BY <1>2, <1>3, <1>4 DEF GoesOnBeside, SoundTx, Locking
<1>6. RowsPublished({b})
  BY <1>2 DEF RowsPublished
<1>. HIDE DEF b
<1>. QED BY <1>3, <1>5, <1>6, PublishedSound

LEMMA ExpireSound ==
  ASSUME TypeOK, AcceptInv, NEW j \in Jobs, ExpireDue(j)
  PROVE  AcceptInv'
<1>1. PICK batch \in SUBSET Due :
        /\ row' = [b \in Bookings |->
                     IF b \in batch THEN [row[b] EXCEPT !.status = "EXPIRED"] ELSE row[b]]
        /\ tx' = Outdated(batch, {})
  BY DEF ExpireDue
<1>2. \A b \in Bookings :
        /\ b \in batch => /\ row[b].status = "PENDING" /\ ~Locked(b)
                          /\ row'[b].status = "EXPIRED"
        /\ b \notin batch => row'[b] = row[b]
  BY <1>1 DEF Due, TypeOK, Row
<1>3. ASSUME NEW q \in Requests PROVE GoesOnBeside(q, batch, {})
  <2>1. tx[q].phase # "idle" => tx[q].bk \in Bookings /\ SoundTx(tx[q])
    BY DEF AcceptInv, TypeOK
  <2>2. tx[q].phase \in Locking => tx[q].phase # "idle" /\ Locked(tx[q].bk)
    BY DEF Locked, Holds, Locking
  <2>. QED BY <1>1, <1>2, <2>1, <2>2 DEF GoesOnBeside, SoundTx
<1>4. RowsPublished(batch)
  BY <1>2 DEF RowsPublished
<1>. QED BY <1>3, <1>4, PublishedSound

LEMMA WriteSound ==
  ASSUME TypeOK, AcceptInv, NEW r \in Requests, WriteBooking(r)
  PROVE  AcceptInv'
<1>. DEFINE new == Written(r)
            phase == IF tx[r].op \in MasterOps THEN "written" ELSE "ready"
            t == [ tx[r] EXCEPT !.new = new, !.phase = phase ]
<1>1. /\ tx' = [tx EXCEPT ![r] = t] /\ UNCHANGED row
      /\ tx[r] \in Tx /\ tx[r].phase = "loaded" /\ "booking" \notin tx[r].stale
      /\ tx[r].bk \in Bookings /\ SoundTx(tx[r])
  BY DEF WriteBooking, TypeOK, AcceptInv
<1>2. /\ tx[r].op = "Create" => new.status \in Open
      /\ tx[r].op = "Reschedule" => new.status = row[tx[r].bk].status
      /\ tx[r].op \in TransitionOps => new.status = Target[tx[r].op]
  <2>1. row[tx[r].bk] \in Row
    BY <1>1 DEF TypeOK
  <2>2. tx[r].op = "Create" => new.status \in Open
    BY <1>1 DEF Written, SoundTx
  <2>3. tx[r].op = "Reschedule" => new.status = row[tx[r].bk].status
    BY <2>1 DEF Written, Row
  <2>4. tx[r].op \in TransitionOps => new.status = Target[tx[r].op]
    BY <2>1, TransitionOpsNames DEF Written, Row, Target
  <2>. QED BY <2>2, <2>3, <2>4
<1>. HIDE DEF new
<1>3. /\ t.phase \in Locking /\ t.op = tx[r].op /\ t.bk = tx[r].bk /\ t.new = new
  BY <1>1 DEF Tx, Locking
<1>4. tx[r].op = "Accept" => row[tx[r].bk].status = "PENDING"
  BY <1>1 DEF SoundTx
<1>. HIDE DEF t
<1>5. SoundTx(t) /\ \A b : Creating(t, b) => Creating(tx[r], b)
  BY <1>1, <1>2, <1>3, <1>4 DEF SoundTx, Creating
<1>. QED BY <1>1, <1>5, OneTxSound

\* A transaction that goes on with its locks and its row.
LEMMA GoesOnSound ==
  ASSUME TypeOK, AcceptInv, NEW r \in Requests, NEW t, UNCHANGED row,
         tx' = [tx EXCEPT ![r] = t], tx[r].phase \in Locking, t.phase \in Locking,
         t.op = tx[r].op, t.bk = tx[r].bk, t.new = tx[r].new
  PROVE  AcceptInv'
<1>1. SoundTx(tx[r]) /\ tx[r].phase # "idle"
  BY DEF AcceptInv, Locking
<1>2. SoundTx(t) /\ \A b : Creating(t, b) => Creating(tx[r], b)
  BY <1>1 DEF SoundTx, Creating
<1>. QED BY <1>2, OneTxSound

LEMMA AdvanceSound ==
  ASSUME TypeOK, SlotInv, AcceptInv, NEW r \in Requests, Advance(r)
  PROVE  AcceptInv'
<1>0. tx[r] \in Tx /\ (tx[r].phase # "idle" => tx[r].bk \in Bookings) /\ SoundTx(tx[r])
  BY DEF TypeOK, AcceptInv
<1>1. CASE RetryTransition(r)
  BY <1>0, <1>1, LoadSound DEF RetryTransition
<1>2. CASE OpenTransaction(r)
  <2>. DEFINE t == [ tx[r] EXCEPT !.phase = "loaded" ]
  <2>1. /\ tx' = [tx EXCEPT ![r] = t] /\ UNCHANGED row
        /\ t.phase = "loaded" /\ tx[r].phase = "again" /\ t.op = tx[r].op
        /\ t.bk = tx[r].bk /\ t.new = tx[r].new /\ t.op \in {"Create", "Reschedule"}
    BY <1>0, <1>2 DEF OpenTransaction, Tx
  <2>. HIDE DEF t
  <2>2. SoundTx(t) /\ \A b : Creating(t, b) => Creating(tx[r], b)
    BY <1>0, <2>1 DEF SoundTx, Creating, Locking
  <2>. QED BY <2>1, <2>2, OneTxSound
<1>3. CASE ApplyPayment(r)
  BY <1>3, ApplyPaymentSound
<1>4. CASE WriteBooking(r)
  BY <1>4, WriteSound
<1>5. CASE ReadAggregates(r)
  <2>. DEFINE t == tx'[r]
  <2>1. /\ tx' = [tx EXCEPT ![r] = t] /\ tx[r].phase \in Locking /\ t.phase \in Locking
        /\ t.op = tx[r].op /\ t.bk = tx[r].bk /\ t.new = tx[r].new
    BY <1>0, <1>5 DEF ReadAggregates, TypeOK, Tx, Locking
  <2>. QED BY <1>5, <2>1, GoesOnSound DEF ReadAggregates
<1>6. CASE WriteMaster(r)
  <2>. DEFINE t == tx'[r]
  <2>1. /\ tx' = [tx EXCEPT ![r] = t] /\ tx[r].phase \in Locking /\ t.phase \in Locking
        /\ t.op = tx[r].op /\ t.bk = tx[r].bk /\ t.new = tx[r].new
    BY <1>0, <1>6 DEF WriteMaster, TypeOK, Tx, Locking
  <2>. QED BY <1>6, <2>1, GoesOnSound DEF WriteMaster
<1>7. CASE Commit(r)
  BY <1>7, CommitSound
<1>8. CASE Refused(r) \/ Excluded(r) \/ AlreadyCertified(r)
  BY <1>8, FailSound DEF Refused, Excluded, AlreadyCertified
<1>9. CASE WriteConflict(r)
  BY <1>9, RunAgainSound DEF WriteConflict
<1>. QED
  BY <1>1, <1>2, <1>3, <1>4, <1>5, <1>6, <1>7, <1>8, <1>9 DEF Advance

LEMMA StepSound == TypeOK /\ SlotInv /\ AcceptInv /\ [Next]_vars => AcceptInv'
<1>. SUFFICES ASSUME TypeOK, SlotInv, AcceptInv, [Next]_vars PROVE AcceptInv'
  OBVIOUS
<1>1. CASE UNCHANGED <<row, tx>>
  BY <1>1 DEF AcceptInv, CreatesAlone, Creating, SoundTx
<1>2. ASSUME NEW r \in Requests, Arrive(r) PROVE AcceptInv'
  BY <1>2, ArriveSound
<1>3. ASSUME NEW r \in Requests, Advance(r) PROVE AcceptInv'
  BY <1>3, AdvanceSound
<1>4. ASSUME NEW r \in Requests, DatabaseAbort(r) \/ Crash(r) PROVE AcceptInv'
  BY <1>4, RunAgainSound, FailSound DEF DatabaseAbort, Crash, InTx, Locking
<1>5. ASSUME NEW j \in Jobs, RunJob(j) \/ JobCrash(j) PROVE AcceptInv'
  BY <1>1, <1>5, ExpireSound DEF RunJob, AppendExpiryHistory, JobCrash
<1>6. CASE Tick \/ UNCHANGED vars
  BY <1>1, <1>6 DEF Tick, vars
<1>. QED BY <1>2, <1>3, <1>4, <1>5, <1>6 DEF Next

\* The invariant behind AcceptLeavesPending: locks, snapshots and the retry of
\* accept keep what each transaction knows of its row.
THEOREM AcceptsKept == Spec => [](TypeOK /\ SlotInv /\ AcceptInv)
<1>1. Init => AcceptInv
  BY NoTxSound DEF Init, AcceptInv, CreatesAlone
<1>2. Init => TypeOK /\ SlotInv /\ AcceptInv
  BY <1>1, InitTyped, InitSlots
<1>3. TypeOK /\ SlotInv /\ AcceptInv /\ [Next]_vars => (TypeOK /\ SlotInv /\ AcceptInv)'
  BY StepTyped, StepSlots, StepSound
<1>. QED BY <1>2, <1>3, PTL DEF Spec

AcceptStep ==
  \A b \in Bookings :
    row'[b].status = "ACCEPTED" /\ row[b].status # "ACCEPTED"
    => row[b].status \in {"PENDING", "NONE"}

LEMMA CommitAccepts ==
  ASSUME TypeOK, AcceptInv, NEW r \in Requests, Commit(r)
  PROVE  AcceptStep
<1>. DEFINE b == tx[r].bk  o == tx[r].op
<1>1. /\ tx[r].phase \in Locking /\ b \in Bookings
      /\ row' = [row EXCEPT ![b] = tx[r].new]
  BY CommitEffect
<1>2. tx[r].phase # "idle" /\ o \in OpNames /\ o # "Pay" /\ SoundTx(tx[r])
  BY <1>1 DEF TypeOK, AcceptInv, InTx, Locking
<1>3. tx[r].new.status = "ACCEPTED" => row[b].status \in {"PENDING", "NONE", "ACCEPTED"}
  <2>1. CASE o = "Create"
    BY <1>2, <2>1 DEF SoundTx
  <2>2. CASE o = "Reschedule"
    BY <1>1, <1>2, <2>2 DEF SoundTx
  <2>3. CASE o = "Accept"
    BY <1>1, <1>2, <2>3 DEF SoundTx
  <2>4. CASE o \in TransitionOps \ {"Accept"}
    <3>1. tx[r].new.status = Target[o]
      BY <1>1, <1>2, <2>4 DEF SoundTx
    <3>2. Target[o] # "ACCEPTED"
      BY <2>4, TransitionOpsNames DEF Target
    <3>. QED BY <3>1, <3>2
  <2>. QED BY <1>2, <2>1, <2>2, <2>3, <2>4 DEF OpNames
<1>. QED BY <1>1, <1>3 DEF AcceptStep, TypeOK

LEMMA StepAccepts == TypeOK /\ SlotInv /\ AcceptInv /\ [Next]_vars => [AcceptStep]_vars
<1>. SUFFICES ASSUME TypeOK, SlotInv, AcceptInv, [Next]_vars PROVE AcceptStep
  OBVIOUS
<1>1. ASSUME NEW r \in Requests, WriteBooking(r) PROVE AcceptStep
  BY <1>1 DEF WriteBooking, AcceptStep
<1>2. CASE Quiet
  BY <1>2 DEF Quiet, Undisturbed, AcceptStep, Busy
<1>. QED BY <1>1, <1>2, StepKinds, CommitAccepts

\* FR-7.2: a booking becomes ACCEPTED only from PENDING or by an instant-book
\* insert; accept() never writes over a rejection, cancellation or expiry.
THEOREM AcceptOnlyPending == Spec => AcceptLeavesPending
<1>1. TypeOK /\ SlotInv /\ AcceptInv /\ [Next]_vars => [AcceptStep]_vars
  BY StepAccepts
<1>2. Spec => [][AcceptStep]_vars
  BY <1>1, AcceptsKept, PTL DEF Spec
<1>. QED BY <1>2 DEF AcceptLeavesPending, AcceptStep

=============================================================================
