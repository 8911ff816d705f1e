-------------------------- MODULE DispatchRoundInv --------------------------
(***************************************************************************)
(* The inductive invariant of a round: what HeapsMatch, EachServedOnce,    *)
(* WithinLimit, WorkConserving and RoundRobin rest on together.            *)
(***************************************************************************)
EXTENDS DispatchRound

Seen(b) == \E i \in DOMAIN served : served[i].binding = b

\* The keys both comparators fall back to are those of the snapshot.
UidInv == \A a, b \in Bindings : rbi[a].uid = rbi[b].uid => a = b

\* What the heaps hold in each phase of the round.
PhaseInv ==
    /\ phase \in {"build", "collect"} => rounded = {} /\ served = << >>
    /\ phase = "build" => queues = {} /\ \A q \in Queues : waiting[q] = {}
    /\ phase \in {"dispatch", "done"} => todo = {}
    /\ phase = "done" => queues = {} /\ rounded = {}
    /\ phase \in {"collect", "dispatch", "done"} =>
         /\ queues \cap rounded = {}
         /\ \A q \in Queues : waiting[q] # {} <=> q \in queues \cup rounded

\* The queues of the bindings the first loop has visited have an attribute.
AttrInv ==
    phase # "crashed" =>
        \A b \in Bindings : QueueName(b) \in Queues /\ (phase = "build" => b \notin todo)
                            => QueueName(b) \in attrs

\* A heap holds Suspended bindings of its own queue that were not served.
WaitInv ==
    \A q \in Queues : \A b \in waiting[q] :
        /\ Collectable(b) /\ QueueName(b) = q
        /\ ~Seen(b)
        /\ phase = "collect" => b \notin todo

\* A Suspended binding is still to be visited, waits in its heap or was served.
CoverInv ==
    phase \in {"collect", "dispatch", "done"} =>
        \A b \in Bindings : Collectable(b) => \/ b \in todo
                                              \/ b \in waiting[QueueName(b)]
                                              \/ Seen(b)

\* What a verdict says of the binding, as long as the round lasts.
VerdictInv ==
    \A i \in DOMAIN served :
        LET b == served[i].binding
            q == served[i].queue
        IN  /\ QueueName(b) = q
            /\ rbi[b].request # NoRequest
            /\ served[i].verdict = "dispatched" => rbi[b].status # "Suspended"
            /\ served[i].verdict = "ignored" => ~Allocatable(q, b)
            /\ served[i].verdict = "failed" => ~Charges(b)

OnceInv == \A i, j \in DOMAIN served : served[i].binding = served[j].binding => i = j

\* What was served of a queue comes before what waits in it.
OrderInv ==
    \A i \in DOMAIN served : \A b \in waiting[served[i].queue] :
        BindingBefore(served[i].binding, b)

\* The queues of a lap have had the same number of turns, those of the next lap
\* one more.
Turns(q) == Cardinality(Considered(q))

LapInv ==
    /\ \A p, q \in queues : Turns(p) = Turns(q)
    /\ \A p, q \in rounded : Turns(p) = Turns(q)
    /\ \A p \in queues, q \in rounded : Turns(q) = Turns(p) + 1

RoundInv ==
    /\ UidInv /\ PhaseInv /\ AttrInv /\ WaitInv /\ CoverInv /\ VerdictInv /\ OnceInv
    /\ WithinLimit

\* RoundRobin, with its order named: a lap is won by having the earlier turn, or
\* the same turn in the queue that comes first.
Ranked(p, a, q, b) ==
    \/ Lap(p, a) < Lap(q, b)
    \/ Lap(p, a) = Lap(q, b) /\ QueueBefore(p, q)

RankInv ==
    phase \in {"dispatch", "done"} =>
        \A i \in DOMAIN served :
            /\ \A j \in DOMAIN served :
                 i < j => Ranked(served[i].queue, served[i].binding,
                                 served[j].queue, served[j].binding)
            /\ \A q \in Queues : \A b \in waiting[q] :
                 Ranked(served[i].queue, served[i].binding, q, b)

TurnInv == OrderInv /\ LapInv /\ RankInv

\* A turn of the loop that comes to a verdict: Dispatch, AllocateFails and Ignore
\* have all of this in common.
Verdicts == {"dispatched", "failed", "ignored"}

Taken(q, b, v) ==
    /\ Turn(q, b) /\ Serve(q, b, v)
    /\ rbi[b].request # NoRequest
    /\ v = "ignored" <=> ~Allocatable(q, b)
    /\ v = "failed" => ~Charges(b)
    /\ IF v = "dispatched"
       THEN /\ Charges(b)
            /\ allocated' = [allocated EXCEPT ![rbi[b].queue] = Plus(@, rbi[b].request)]
            /\ rbi' = [rbi EXCEPT ![b].status = "UnSuspending"]
       ELSE UNCHANGED <<allocated, rbi>>
    /\ UNCHANGED <<phase, todo, attrs>>
=============================================================================
