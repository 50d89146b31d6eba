------------------------- MODULE BookingsProperties -------------------------
(***************************************************************************)
(* What the booking engine of Bookings must keep true, and what its        *)
(* documents say of it that it does not.                                   *)
(***************************************************************************)
EXTENDS Bookings

\* Every variable has the shape the schema and the transaction code give it,
\* and a transaction is never attempted more than MAX_ATTEMPTS times.
TypeOK ==
  /\ now \in 0 .. Horizon
  /\ row \in [Bookings -> Row]
  /\ hist \in [Bookings -> Seq(RowStatuses)]
  /\ certs \subseteq Bookings
  /\ stat \in [Masters -> MasterStat]
  /\ tx \in [Requests -> Tx]
  /\ \A r \in Requests :
       tx[r].phase # "idle" => tx[r].bk \in Bookings /\ tx[r].op \in OpNames
  /\ \A r \in Requests :
       tx[r].phase \in InTx => tx[r].op # "Pay"
  /\ job \in [Jobs -> SUBSET Bookings]
  /\ faults \in 0 .. MaxFaults

-----------------------------------------------------------------------------
(* A master's time *)

\* BR-33 and bookings_no_overlap: whatever races, no two accepted or running
\* bookings of one master overlap.
MasterNoOverlap ==
  \A b \in Bookings, c \in Bookings :
    /\ b # c /\ MasterOf[b] = MasterOf[c]
    /\ row[b].status \in Busy /\ row[c].status \in Busy
    => ~Clash(b, row[b].start, c, row[c].start)

\* The busy rows are a calendar that books, moves and frees slots and never
\* double-books: what accept, instant-book, reschedule, start and the
\* cancellations do to a master's time is an implementation of MasterCalendar.
Held == [b \in Bookings |-> IF row[b].status \in Busy THEN {row[b].start} ELSE {}]
Calendar == INSTANCE MasterCalendar WITH held <- Held
ImplementsCalendar == Calendar!Spec

-----------------------------------------------------------------------------
(* What the isolation levels and unique constraints still guarantee *)

\* FR-7.2: a booking becomes ACCEPTED only by leaving PENDING or by an
\* instant-book insert, never over a rejection, cancellation or expiry that
\* committed while accept() was between its read and its write.
AcceptLeavesPending ==
  [][\A b \in Bookings :
       row'[b].status = "ACCEPTED" /\ row[b].status # "ACCEPTED"
       => row[b].status \in {"PENDING", "NONE"}]_vars

\* The aggregates of a master's row agree with the bookings, however many
\* transactions of one master race: completedBookingsCount counts each certified
\* booking once, and avgAcceptLatencyMinutes averages over every booking that
\* accept() has accepted.
AggregatesAgree ==
  /\ \A m \in Masters :
       stat[m].completed = Cardinality({b \in certs : MasterOf[b] = m})
  /\ \A b \in Bookings :
       row[b].acceptance = "master" => b \in stat[MasterOf[b]].timed

\* FR-7: a booking under way or completed was accepted first, and a payment is
\* recorded only for one whose completion was certified, though start, complete
\* and confirm overwrite whatever status they find at the time of the write.
ServedInOrder ==
  \A b \in Bookings :
    /\ row[b].status \in {"IN_PROGRESS", "COMPLETED"} => row[b].acceptance # "no"
    /\ row[b].paid > 0 => b \in certs

\* FR-7.5: two instances of the job never expire one booking twice.
ExpiryRecordedOnce ==
  \A b \in Bookings :
    Cardinality({i \in DOMAIN hist[b] : hist[b][i] = "EXPIRED"}) <= 1

\* validateBookingRules and assertReschedulable count before the transaction that
\* writes, so the two caps can be passed; but only by requests already under way
\* together: each one that is under way beyond the first adds one at most.
CapsOvershoot ==
  /\ \A c \in Clients : OpenPending(c) < MAX_OPEN_PENDING + Cardinality(Requests)
  /\ \A b \in Bookings : row[b].moves < MAX_RESCHEDULE + Cardinality(Requests)

-----------------------------------------------------------------------------
(* Progress, under FairSpec *)

\* A request that has begun answers: no set of requests waits on one another.
RequestsFinish == \A r \in Requests : tx[r].phase # "idle" ~> tx[r].phase = "idle"

\* BR-45: a booking still PENDING after its slot began does not stay so.
OverdueLeavesPending ==
  \A b \in Bookings :
    (row[b].status = "PENDING" /\ row[b].start < now) ~> row[b].status # "PENDING"

-----------------------------------------------------------------------------
(* What the documents say, and the code does not keep *)

\* BR-47: terminal states admit no further transitions.
TerminalIsFinal ==
  [][\A b \in Bookings :
       row[b].status \in Statuses /\ IsTerminal(row[b].status)
       => row'[b].status = row[b].status]_vars

\* DATABASE.md 7: rescheduleCount is capped at 1.
RescheduleCapped == \A b \in Bookings : row[b].moves <= MAX_RESCHEDULE

\* BR-46: every transition writes a history row; here an expiry, once the job
\* that made it is no longer at work on it.
ExpiryHasHistory ==
  \A b \in Bookings :
    row[b].status = "EXPIRED" /\ (\A j \in Jobs : b \notin job[j])
    => \E i \in DOMAIN hist[b] : hist[b][i] = "EXPIRED"

\* DATABASE.md 3.3: reliabilityScore, recomputed inside each transaction that
\* changes it, agrees with the bookings whenever no transaction is open.
NullableScore(done, axed) == IF done + axed = 0 THEN {} ELSE {Score(done, axed)}
InStatus(m, status) == {b \in Bookings : MasterOf[b] = m /\ row[b].status = status}
ScoreAgrees ==
  (\A r \in Requests : tx[r].phase = "idle") =>
    \A m \in Masters :
      NullableScore(stat[m].done, stat[m].axed)
        = NullableScore(Cardinality(InStatus(m, "COMPLETED")),
                        Cardinality(InStatus(m, "CANCELLED_BY_MASTER")))
=============================================================================
