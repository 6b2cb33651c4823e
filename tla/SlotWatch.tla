----------------------------- MODULE SlotWatch ------------------------------
(***************************************************************************)
(* How a slot that has stopped is told from one that works: the evidence a *)
(* slot leaves (its jobs, which the trim removes, and the freshness rows   *)
(* that jobs bump when they end), the dashboard that asks for the evidence *)
(* of the last fire, and the doctor that measures how old the last rows    *)
(* are, and whose prescription the nightly heal forces.                    *)
(*                                                                         *)
(* The clock counts ticks of 4 hours in UTC, PerDay of them a day; New     *)
(* York is one behind.  "watched" is the slot that may fail to run; those  *)
(* it shares a freshness row with run like clockwork.                      *)
(***************************************************************************)
EXTENDS Integers, FiniteSetsExt

CONSTANTS
    Slots,  \* per slot: tick of its cron, of its jobs after it, gate, name, row, grace, limit
    PerDay,
    Open,   \* dates in New York on which the market is open
    Keep,   \* ticks a finished job stays
    Start, Horizon,
    MaxFaults

VARIABLES
    watched,
    now,
    jobs,   \* the rows of the queue
    fresh,  \* when a dimension, or a slot, was bumped last, or None
    faults,
    ran,    \* history: the last fire for which the scheduler has made jobs,
    active, \* when a job of the slot was made or ended last,
    got,    \* when one brought rows last,
    noted   \* and when one brought rows and the bumps went through

vars == <<watched, now, jobs, fresh, faults, ran, active, got, noted>>

None == -99
Names == DOMAIN Slots
TableRow(s) == <<"table", Slots[s].dim>>
OwnRow(s) == <<"slot", s>>
Tables == {TableRow(s) : s \in Names}

Ny(t) == (t - 1) \div PerDay

\* iter_cron_fires, previous_fire: the cron of a slot, read in UTC.
Fires(s, a, b) == {t \in a..b : t % PerDay = Slots[s].cron}

\* enqueue_slot on a New York date without a session, of a slot that is gated.
Owed(s, t) == Slots[s].gated => Ny(t) \in Open
Seen(s) == Fires(s, 0, now)
OwedFires(s) == {t \in Seen(s) : Owed(s, t)}

\* policed_slot_for_job: a job's shape names its slot, unless a sibling's looks the same.
SlotOf(j) == IF Slots[j.slot].named THEN j.slot ELSE "none"

-----------------------------------------------------------------------------
(* The dashboard.                                                          *)

\* Mutant of Row: the row of the table that the slot fills with others.
RowShared(s) == fresh[TableRow(s)]

Row(s) == IF Slots[s].named THEN fresh[OwnRow(s)] ELSE fresh[TableRow(s)]

\* _count_jobs_in_window: of the slot's kinds and, if its jobs have a name, of that name.
\* _trading_day_owned_grace_end: the jobs of a slot may be made by another schedule, later.
GraceEnd(s, f) == f + Slots[s].grace
Created(s, f) ==
    {j \in jobs : /\ Slots[j.slot].dim = Slots[s].dim
                  /\ Slots[s].named => SlotOf(j) = s
                  /\ j.made \in f..GraceEnd(s, f)}

Evidence(s, f) == Created(s, f) # {} \/ Row(s) >= f

Judged(s, f) ==
    IF Evidence(s, f) THEN "on_plan"
    ELSE IF now < GraceEnd(s, f) THEN "due"
    ELSE "missed"

\* _slot_adherence: a fire on a closed day hands over to the last one on an open day.
Adherence(s) ==
    LET fires == Seen(s)
        open  == OwedFires(s)
    IN  CASE fires = {}                                    -> "unknown"
          [] fires # {} /\ (Owed(s, Max(fires)) \/ Evidence(s, Max(fires))) ->
                Judged(s, Max(fires))
          [] OTHER -> IF open = {} THEN "on_plan" ELSE Judged(s, Max(open))

\* build_queue_dashboard: the word over all slots, here those that share a table.
Circle == {s \in Names : TableRow(s) = TableRow(watched)}
Verdict ==
    CASE \E s \in Circle : Adherence(s) = "missed" -> "missed"
      [] \A s \in Circle : Adherence(s) # "missed" ->
            IF \E s \in Circle : Adherence(s) = "due" THEN "due" ELSE "on_plan"

-----------------------------------------------------------------------------
(* The doctor.                                                             *)

\* _slot_job_evidence: what the queue still holds.
Delivered(s) == {j.at : j \in {k \in jobs : k.status = "done" /\ k.rows /\ SlotOf(k) = s}}

\* The slot's row; without one its jobs, and without those the shared row.
LastSeen(s, readable) ==
    CASE fresh[OwnRow(s)] # None -> fresh[OwnRow(s)]
      [] fresh[OwnRow(s)] = None /\ readable -> Max(Delivered(s) \cup {None})
      [] OTHER -> fresh[TableRow(s)]

\* _closed_days_since.
ClosedSince(s, t) ==
    IF Slots[s].gated THEN Cardinality((Ny(t) + 1 .. Ny(now)) \ Open) ELSE 0

Stale(s, readable) ==
    LET t == LastSeen(s, readable)
    IN  t = None \/ now - t - PerDay * ClosedSince(s, t) > Slots[s].limit

-----------------------------------------------------------------------------
Job(s) == [slot |-> s, made |-> now, status |-> "pending", rows |-> FALSE, at |-> None]
Touched(S) == active' = [s \in Names |-> IF s \in S THEN now' ELSE active[s]]

\* The slots for which the scheduler makes jobs at a tick, and the fire they belong to.
Due(t) ==
    {s \in Circle : \E f \in Fires(s, 0, t) : f + Slots[s].lag = t /\ Owed(s, f)}

\* Time passes and the slots run, but for the watched one if its schedule is down.
Tick(up) ==
    /\ now < Horizon
    /\ LET late == {j \in jobs : j.status = "pending"}
       IN  /\ \A j \in late : j.slot = watched
           /\ faults + Cardinality(late) <= MaxFaults
           /\ faults' = faults + Cardinality(late)
    /\ now' = now + 1
    /\ LET S == {s \in Due(now + 1) : s = watched => up}
       IN  /\ jobs' = jobs \cup {[Job(s) EXCEPT !.made = now + 1] : s \in S}
           /\ ran' = [s \in Names |-> IF s \in S THEN now + 1 - Slots[s].lag ELSE ran[s]]
           /\ Touched(S)
    /\ UNCHANGED <<watched, fresh, got, noted>>

\* execute_job bumps the dimension, and the slot if there are rows; what is left of the
\* bumps is lost when one fails.
Bumped(j, rows, bumps) ==
    {d \in DOMAIN fresh : \/ d = TableRow(j.slot) /\ bumps >= 1
                          \/ d = OwnRow(SlotOf(j)) /\ rows /\ bumps = 2}

Finish(j, rows, bumps) ==
    /\ j.status = "pending"
    /\ LET trouble == IF rows /\ bumps = 2 THEN 0 ELSE 1
       IN  /\ faults + trouble <= MaxFaults /\ (trouble = 1 => j.slot = watched)
           /\ faults' = faults + trouble
           /\ noted' = IF trouble = 0 THEN [noted EXCEPT ![j.slot] = now] ELSE noted
    /\ fresh' = [d \in DOMAIN fresh |-> IF d \in Bumped(j, rows, bumps) THEN now ELSE fresh[d]]
    /\ got' = IF rows THEN [got EXCEPT ![j.slot] = now] ELSE got
    /\ jobs' = (jobs \ {j}) \cup {[j EXCEPT !.status = "done", !.rows = rows, !.at = now]}
    /\ now' = now /\ Touched({j.slot})
    /\ UNCHANGED <<watched, ran>>

Fail(j) ==
    /\ j.status = "pending" /\ j.slot = watched /\ faults < MaxFaults
    /\ faults' = faults + 1
    /\ jobs' = (jobs \ {j}) \cup {[j EXCEPT !.status = "failed", !.at = now]}
    /\ now' = now /\ Touched({j.slot})
    /\ UNCHANGED <<watched, fresh, ran, got, noted>>

\* trim_terminal_jobs.
Trim ==
    /\ now % PerDay = 2
    /\ LET old == {j \in jobs : j.status # "pending" /\ j.at < now - Keep}
       IN  old # {} /\ jobs' = jobs \ old
    /\ UNCHANGED <<watched, now, fresh, faults, ran, active, got, noted>>

\* heal, nightly: a slot that the doctor calls stale is forced.
Heal(s, readable) ==
    /\ now % PerDay = 0 /\ s = watched /\ Slots[s].limit > 0
    /\ Stale(s, readable) /\ \A j \in jobs : j.slot = s => j.made # now
    /\ jobs' = jobs \cup {Job(s)}
    /\ now' = now /\ Touched({s})
    /\ UNCHANGED <<watched, fresh, faults, ran, got, noted>>

\* All slots have run so far; their own rows are there, or are yet to be introduced.
Init ==
    /\ watched \in Names /\ now = Start /\ faults = 0
    /\ LET last == [s \in Names |-> Max(OwedFires(s))]
           done(s) == last[s] + Slots[s].lag
       IN  \E introduced \in BOOLEAN :
           /\ ran = last /\ active = [s \in Names |-> done(s)]
           /\ got = active /\ noted = active
           /\ jobs = {[slot |-> s, made |-> done(s), status |-> "done", rows |-> TRUE,
                       at |-> done(s)] : s \in Names}
           /\ fresh = [d \in Tables \cup {OwnRow(s) : s \in Names} |->
                 IF d \in Tables THEN Max({done(s) : s \in {r \in Names : TableRow(r) = d}})
                 ELSE IF introduced
                      THEN done(CHOOSE s \in Names : OwnRow(s) = d) ELSE None]

Next ==
    \/ \E up \in BOOLEAN : Tick(up)
    \/ \E j \in jobs : \/ \E rows \in BOOLEAN, bumps \in 0..2 : Finish(j, rows, bumps)
                       \/ Fail(j)
    \/ Trim
    \/ \E s \in Names, readable \in BOOLEAN : Heal(s, readable)

Spec == Init /\ [][Next]_vars

-----------------------------------------------------------------------------
TypeOK ==
    /\ watched \in Names /\ now \in Start..Horizon /\ faults \in 0..MaxFaults
    /\ \A j \in jobs : j.slot \in Names /\ j.status \in {"pending", "done", "failed"}
    /\ \A d \in DOMAIN fresh : fresh[d] = None \/ fresh[d] <= now
    /\ \A s \in Names : ran[s] <= now /\ active[s] <= now /\ got[s] <= now /\ noted[s] <= got[s]

\* A slot that ran for the last fire whose turn has come is not said to have missed one
\* while there is anything to show for it, and one of which there has been nothing since
\* that fire is, whatever the slots that share its table have done.
MissesTold(s) ==
    LET f == Max({g \in OwedFires(s) : g + Slots[s].lag <= now})
    IN  /\ ran[s] >= f /\ (noted[s] >= f \/ now - f <= Keep) => Adherence(s) # "missed"
        /\ Slots[s].named /\ active[s] < f => Adherence(s) = "missed"

\* A slot that brought its rows after the last fire it owed, or the one before while that
\* is young, is not stale; one that brought none since the fourth last fire is.
StopsTold(s) ==
    LET fires == OwedFires(s)
        settled == {f \in fires : f + Slots[s].lag + 1 < now}
        fourth == {f \in fires : Cardinality({g \in fires : g > f}) = 3}
    IN  Slots[s].limit > 0 =>
          /\ settled # {} /\ noted[s] >= Max(settled) => ~Stale(s, TRUE)
          /\ fourth # {} /\ got[s] < Max(fourth) => Stale(s, TRUE)

\* A stopped slot is found, and one that works is not blamed and not forced.
StoppedIsFound ==
    /\ MissesTold(watched) /\ StopsTold(watched)
    /\ Verdict = "missed" => Adherence(watched) = "missed"

=============================================================================
