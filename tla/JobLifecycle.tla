---------------------------- MODULE JobLifecycle ----------------------------
(***************************************************************************)
(* What the queue promises whoever enqueues: a job is accepted unless the  *)
(* same (kind, payload) is already owed; an owed job is settled once, as   *)
(* done or as failed; a settled job is never owed again and is at last     *)
(* forgotten.  There are no workers, attempts, claims or clocks here.      *)
(***************************************************************************)
EXTENDS Sequences

CONSTANTS Kinds, Hashes

VARIABLE ticket \* ticket[id], in the order of acceptance

State  == {"owed", "done", "failed", "forgotten"}
Ticket == [kind: Kinds, hash: Hashes, state: State]

Owed(j) == ticket[j].state = "owed"
Taken(k, h) == \E j \in DOMAIN ticket : Owed(j) /\ ticket[j].kind = k /\ ticket[j].hash = h

Init == ticket = <<>>

Accept(k, h) ==
    /\ ~Taken(k, h)
    /\ ticket' = Append(ticket, [kind |-> k, hash |-> h, state |-> "owed"])

\* Each of the tickets in S moves to a state that Allowed gives for it.
Move(S, Allowed) ==
    \E to \in [S -> Allowed] :
        ticket' = [j \in DOMAIN ticket |->
                     IF j \in S THEN [ticket[j] EXCEPT !.state = to[j]] ELSE ticket[j]]

SettleSome(S) == S # {} /\ (\A j \in S : Owed(j)) /\ Move(S, {"done", "failed"})

ForgetSome(S) ==
    /\ S # {} /\ \A j \in S : ticket[j].state \in {"done", "failed"}
    /\ Move(S, {"forgotten"})

Next ==
    \/ \E k \in Kinds, h \in Hashes : Accept(k, h)
    \/ \E S \in SUBSET DOMAIN ticket : SettleSome(S) \/ ForgetSome(S)

Spec == Init /\ [][Next]_ticket

=============================================================================
