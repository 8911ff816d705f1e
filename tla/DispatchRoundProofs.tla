------------------------- MODULE DispatchRoundProofs ------------------------
(***************************************************************************)
(* Theorems of the dispatch round, for any bindings, queues, dimensions,   *)
(* capabilities, priorities and snapshots.                                 *)
(***************************************************************************)
EXTENDS DispatchRoundInv, FiniteSetTheorems, TLAPS

-----------------------------------------------------------------------------
(* The model's operators. *)

\* Adding to a session's allocated gives a vector that is nowhere smaller.
LEMMA PlusGrows ==
    ASSUME NEW u \in Vector, NEW v \in Vector
    PROVE  /\ Plus(u, v) \in Vector
           /\ \A d \in Dims : Plus(u, v)[d] = u[d] + v[d] /\ u[d] <= Plus(u, v)[d]
BY DEF Plus, Vector

\* Charging one queue shrinks the allocated of none.
LEMMA ChargeGrows ==
    ASSUME NEW f \in [Queues -> Vector], NEW q \in Queues, NEW v \in Vector
    PROVE  LET g == [f EXCEPT ![q] = Plus(@, v)]
           IN  /\ g \in [Queues -> Vector]
               /\ \A p \in Queues : \A d \in Dims : f[p][d] <= g[p][d]
<1>1. Plus(f[q], v) \in Vector /\ \A d \in Dims : f[q][d] <= Plus(f[q], v)[d]
  BY PlusGrows
<1>2. \A p \in Queues : f[p] \in Vector /\ \A d \in Dims : f[p][d] <= f[p][d]
  BY DEF Vector
<1> QED
  BY <1>1, <1>2

\* The limit of a queue is a number that is not more than the total.
LEMMA LimitType ==
    ASSUME NEW q \in Queues, NEW d \in Dims
    PROVE  Limit(q, d) \in Nat /\ Limit(q, d) <= Total[d]
BY RoundAssumption DEF Limit, Vector

Entry == [binding : Bindings, queue : Queues, verdict : Verdicts]

\* The entry a turn adds to the history follows all the earlier ones.
LEMMA ServedGrows ==
    ASSUME NEW S, NEW s \in Seq(S), NEW e \in S
    PROVE  LET t == Append(s, e)
           IN  /\ t \in Seq(S)
               /\ Len(s) \in Nat /\ DOMAIN s = 1..Len(s)
               /\ DOMAIN t = DOMAIN s \cup {Len(s) + 1}
               /\ Len(s) + 1 \notin DOMAIN s
               /\ t[Len(s) + 1] = e
               /\ \A i \in DOMAIN s : t[i] = s[i] /\ i < Len(s) + 1
OBVIOUS

-----------------------------------------------------------------------------
(* Types. *)

LEMMA RoundTypeInit == Init => TypeOK
BY RoundAssumption DEF Init, TypeOK, Vector

\* Every variable keeps its type: allocated is only charged with requests that
\* are vectors, and only under names that queues have.
LEMMA RoundTypeNext == TypeOK /\ [Next]_vars => TypeOK'
<1> SUFFICES ASSUME TypeOK, [Next]_vars
             PROVE  TypeOK'
  OBVIOUS
<1>0. \A b \in Bindings : /\ rbi[b] \in Info
                          /\ rbi[b].request # NoRequest => rbi[b].request \in Vector
  BY DEF TypeOK, Info
<1>1. CASE BuildEnd \/ CollectEnd \/ Swap \/ DispatchEnd
  BY <1>1 DEF BuildEnd, CollectEnd, Swap, DispatchEnd, TypeOK
<1>2. ASSUME NEW b \in Bindings,
             BuildSkip(b) \/ BuildPanics(b) \/ CollectSkip(b) \/ CollectPush(b)
      PROVE  TypeOK'
  <2>1. CASE BuildSkip(b) \/ BuildPanics(b) \/ CollectSkip(b)
    BY <2>1 DEF BuildSkip, BuildPanics, CollectSkip, TypeOK
  <2>2. CASE CollectPush(b)
    <3>1. waiting' \in [Queues -> SUBSET Bindings]
      BY <2>2 DEF CollectPush, Collectable, TypeOK
    <3> QED
      BY <2>2, <3>1 DEF CollectPush, Collectable, TypeOK
  <2> QED
    BY <1>2, <2>1, <2>2
<1>3. ASSUME NEW b \in Bindings, BuildAttr(b)
      PROVE  TypeOK'
  <2>1. allocated' \in [Queues -> Vector]
    <3>1. CASE rbi[b].status = "Suspended"
      BY <1>3, <3>1 DEF BuildAttr, TypeOK
    <3>2. CASE rbi[b].status # "Suspended"
      <4>1. /\ QueueName(b) \in Queues /\ rbi[b].request \in Vector
            /\ allocated' = [allocated EXCEPT ![QueueName(b)] = Plus(@, rbi[b].request)]
        BY <1>0, <1>3, <3>2 DEF BuildAttr
      <4> QED
        BY <4>1, ChargeGrows DEF TypeOK
    <3> QED
      BY <3>1, <3>2
  <2> QED
    BY <1>3, <2>1 DEF BuildAttr, TypeOK
<1>4. ASSUME NEW q \in Queues, NEW b \in Bindings, NEW v \in Verdicts, Serve(q, b, v)
      PROVE  /\ waiting' \in [Queues -> SUBSET Bindings]
             /\ queues' \in SUBSET Queues /\ rounded' \in SUBSET Queues
             /\ served' \in Seq([binding : Bindings, queue : Queues,
                                 verdict : {"dispatched", "failed", "ignored"}])
  <2>1. [binding |-> b, queue |-> q, verdict |-> v] \in Entry
    BY DEF Entry
  <2>2. served' \in Seq(Entry)
    BY <1>4, <2>1, ServedGrows DEF Serve, TypeOK, Entry, Verdicts
  <2>3. waiting' \in [Queues -> SUBSET Bindings]
    BY <1>4 DEF Serve, TypeOK
  <2>4. queues' \in SUBSET Queues /\ rounded' \in SUBSET Queues
    BY <1>4 DEF Serve, TypeOK
  <2> QED
    BY <2>2, <2>3, <2>4 DEF Entry, Verdicts
<1>5. ASSUME NEW q \in Queues, NEW b \in Bindings, Dispatch(q, b)
      PROVE  TypeOK'
  <2>1. Serve(q, b, "dispatched") /\ "dispatched" \in Verdicts
    BY <1>5 DEF Dispatch, Verdicts
  <2>2. allocated' \in [Queues -> Vector]
    BY <1>0, <1>5, ChargeGrows DEF Dispatch, Charges, TypeOK
  <2>3. rbi' \in [Bindings -> Info]
    BY <1>0, <1>5 DEF Dispatch, TypeOK, Info, Statuses
  <2> QED
    BY <1>4, <1>5, <2>1, <2>2, <2>3 DEF Dispatch, TypeOK
<1>6. ASSUME NEW q \in Queues, NEW b \in Bindings, AllocateFails(q, b)
      PROVE  TypeOK'
  <2>1. Serve(q, b, "failed") /\ "failed" \in Verdicts
    BY <1>6 DEF AllocateFails, Verdicts
  <2> QED
    BY <1>4, <1>6, <2>1 DEF AllocateFails, TypeOK
<1>7. ASSUME NEW q \in Queues, NEW b \in Bindings, Ignore(q, b)
      PROVE  TypeOK'
  <2>1. Serve(q, b, "ignored") /\ "ignored" \in Verdicts
    BY <1>7 DEF Ignore, Verdicts
  <2> QED
    BY <1>4, <1>7, <2>1 DEF Ignore, TypeOK
<1>8. ASSUME NEW q \in Queues, NEW b \in Bindings, AllocatablePanics(q, b)
      PROVE  TypeOK'
  BY <1>8 DEF AllocatablePanics, TypeOK
<1>9. CASE UNCHANGED vars
  BY <1>9 DEF vars, TypeOK
<1> QED
  BY <1>1, <1>2, <1>3, <1>5, <1>6, <1>7, <1>8, <1>9 DEF Next

\* The round works on values of the right types: it charges no name that is not
\* a queue's, and adds no missing request to a vector (runOnce).
THEOREM RoundTypeCorrect == Spec => []TypeOK
BY RoundTypeInit, RoundTypeNext, PTL DEF Spec
-----------------------------------------------------------------------------
(* Turns. *)

\* Every way out of the loop's body but the panic is a turn with a verdict.
LEMMA TurnsTaken ==
    ASSUME NEW q \in Queues, NEW b \in Bindings,
           Dispatch(q, b) \/ AllocateFails(q, b) \/ Ignore(q, b)
    PROVE  \E v \in Verdicts : Taken(q, b, v)
<1>1. CASE Dispatch(q, b)
  <2>1. Taken(q, b, "dispatched")
    BY <1>1 DEF Dispatch, Taken
  <2> QED
    BY <2>1 DEF Verdicts
<1>2. CASE AllocateFails(q, b)
  <2>1. Taken(q, b, "failed")
    BY <1>2 DEF AllocateFails, Taken
  <2> QED
    BY <2>1 DEF Verdicts
<1>3. CASE Ignore(q, b)
  <2>1. Taken(q, b, "ignored")
    BY <1>3 DEF Ignore, Taken
  <2> QED
    BY <2>1 DEF Verdicts
<1> QED
  BY <1>1, <1>2, <1>3

\* A turn changes the status of the binding it serves and nothing else of any
\* binding; it takes back nothing that was allocated.
LEMMA TurnKeeps ==
    ASSUME TypeOK, NEW q \in Queues, NEW b \in Bindings, NEW v \in Verdicts, Taken(q, b, v)
    PROVE  /\ \A a \in Bindings :
                /\ rbi'[a].queue = rbi[a].queue /\ rbi'[a].request = rbi[a].request
                /\ rbi'[a].priority = rbi[a].priority /\ rbi'[a].created = rbi[a].created
                /\ rbi'[a].uid = rbi[a].uid
                /\ a # b => rbi'[a].status = rbi[a].status
           /\ v # "dispatched" => rbi' = rbi
           /\ v = "dispatched" => rbi'[b].status = "UnSuspending"
           /\ allocated' \in [Queues -> Vector]
           /\ \A p \in Queues : \A d \in Dims : allocated[p][d] <= allocated'[p][d]
<1>1. CASE v = "dispatched"
  <2>1. rbi' = [rbi EXCEPT ![b].status = "UnSuspending"] /\ Charges(b)
    BY <1>1 DEF Taken
  <2>2. rbi[b].request \in Vector /\ rbi[b].queue \in Queues
    BY <2>1 DEF Taken, Charges, TypeOK, Info
  <2>3. /\ allocated' \in [Queues -> Vector]
        /\ \A p \in Queues : \A d \in Dims : allocated[p][d] <= allocated'[p][d]
    <3>1. allocated' = [allocated EXCEPT ![rbi[b].queue] = Plus(@, rbi[b].request)]
      BY <1>1 DEF Taken
    <3> QED
      BY <2>2, <3>1, ChargeGrows DEF TypeOK
  <2>4. ASSUME NEW a \in Bindings
        PROVE  /\ a # b => rbi'[a] = rbi[a]
               /\ rbi'[b] = [rbi[b] EXCEPT !.status = "UnSuspending"]
    BY <2>1 DEF TypeOK
  <2>5. rbi[b] \in Info
    BY DEF TypeOK
  <2>6. /\ rbi'[b].status = "UnSuspending"
        /\ rbi'[b].queue = rbi[b].queue /\ rbi'[b].request = rbi[b].request
        /\ rbi'[b].priority = rbi[b].priority /\ rbi'[b].created = rbi[b].created
        /\ rbi'[b].uid = rbi[b].uid
    BY <2>4, <2>5 DEF Info
  <2> QED
    BY <1>1, <2>3, <2>4, <2>6
<1>2. CASE v # "dispatched"
  <2>1. UNCHANGED <<allocated, rbi>>
    BY <1>2 DEF Taken
  <2> QED
    BY <1>2, <2>1 DEF TypeOK, Vector
<1> QED
  BY <1>1, <1>2

\* So the queue, the rank and the need of every binding last as long as the
\* round, and what does not fit once will not fit later.
LEMMA TurnStable ==
    ASSUME TypeOK, NEW q \in Queues, NEW b \in Bindings, NEW v \in Verdicts, Taken(q, b, v)
    PROVE  /\ \A a \in Bindings :
                /\ QueueName(a)' = QueueName(a)
                /\ Collectable(a)' => Collectable(a)
                /\ a # b => Collectable(a)' = Collectable(a)
                /\ Charges(a)' = Charges(a)
                /\ \A c \in Bindings : BindingBefore(a, c)' = BindingBefore(a, c)
           /\ \A p \in Queues, a \in Bindings :
                rbi[a].request # NoRequest /\ Allocatable(p, a)' => Allocatable(p, a)
<1>1. ASSUME NEW a \in Bindings
      PROVE  /\ QueueName(a)' = QueueName(a)
             /\ Charges(a)' = Charges(a)
             /\ \A c \in Bindings : BindingBefore(a, c)' = BindingBefore(a, c)
  BY TurnKeeps DEF QueueName, Charges, BindingBefore, Taken
<1>2. ASSUME NEW a \in Bindings
      PROVE  /\ Collectable(a)' => Collectable(a)
             /\ a # b => Collectable(a)' = Collectable(a)
  BY <1>1, TurnKeeps DEF Collectable
<1>3. ASSUME NEW p \in Queues, NEW a \in Bindings, rbi[a].request # NoRequest, Allocatable(p, a)'
      PROVE  Allocatable(p, a)
  <2>1. rbi[a].request \in [Dims -> Nat] /\ rbi'[a].request = rbi[a].request
    BY <1>3, TurnKeeps DEF TypeOK, Info, Vector
  <2>2. ASSUME NEW d \in Dims, rbi[a].request[d] > 0
        PROVE  allocated[p][d] + rbi[a].request[d] <= Limit(p, d)
    <3>1. allocated'[p][d] + rbi[a].request[d] <= Limit(p, d)
      BY <1>3, <2>1, <2>2 DEF Allocatable, Limit
    <3>2. allocated[p][d] \in Nat /\ allocated[p][d] <= allocated'[p][d]
      BY TurnKeeps DEF TypeOK, Vector
    <3>3. allocated'[p][d] \in Nat
      BY TurnKeeps DEF Vector
    <3> QED
      BY <2>1, <3>1, <3>2, <3>3, LimitType
  <2> QED
    BY <2>2 DEF Allocatable
<1> QED
  BY <1>1, <1>2, <1>3

-----------------------------------------------------------------------------
(* The inductive invariant of the round. *)

LEMMA RoundInit == Init => RoundInv
<1> SUFFICES ASSUME Init
             PROVE  RoundInv
  OBVIOUS
<1>1. UidInv
  BY RoundAssumption DEF Init, UidInv
<1>2. DOMAIN served = {}
  BY DEF Init
<1>3. PhaseInv /\ AttrInv /\ WaitInv /\ CoverInv
  BY DEF Init, PhaseInv, AttrInv, WaitInv, CoverInv
<1>4. VerdictInv /\ OnceInv /\ WithinLimit
  BY <1>2 DEF VerdictInv, OnceInv, WithinLimit
<1> QED
  BY <1>1, <1>3, <1>4 DEF RoundInv

\* The steps that serve no binding leave the bindings as they are.
LEMMA SameInfos ==
    ASSUME rbi' = rbi
    PROVE  \A a \in Bindings : /\ QueueName(a)' = QueueName(a)
                              /\ Collectable(a)' = Collectable(a)
                              /\ \A c \in Bindings : BindingBefore(a, c)' = BindingBefore(a, c)
BY DEF QueueName, Collectable, BindingBefore

\* The first loop charges what was released earlier; nothing waits yet.
LEMMA BuildRound ==
    ASSUME TypeOK, RoundInv,
           BuildEnd \/ \E b \in Bindings : BuildSkip(b) \/ BuildAttr(b) \/ BuildPanics(b)
    PROVE  RoundInv'
<1>1. /\ phase = "build" /\ rbi' = rbi
      /\ UNCHANGED <<waiting, queues, rounded, served>>
      /\ phase' \in {"build", "collect", "crashed"}
  BY DEF BuildEnd, BuildSkip, BuildAttr, BuildPanics
<1>2. /\ rounded = {} /\ served = << >> /\ queues = {}
      /\ \A q \in Queues : waiting[q] = {}
  BY <1>1 DEF RoundInv, PhaseInv
<1>3. DOMAIN served = {} /\ DOMAIN served' = {}
  BY <1>1, <1>2
<1>4. UidInv'
  BY <1>1 DEF RoundInv, UidInv
<1>5. PhaseInv'
  BY <1>1, <1>2 DEF PhaseInv
<1>6. AttrInv'
  <2>1. CASE BuildEnd
    BY <1>1, <2>1, SameInfos DEF BuildEnd, AttrInv, RoundInv
  <2>2. ASSUME NEW b \in Bindings, BuildSkip(b)
        PROVE  AttrInv'
    BY <1>1, <2>2, SameInfos DEF BuildSkip, AttrInv, RoundInv
  <2>3. ASSUME NEW b \in Bindings, BuildAttr(b)
        PROVE  AttrInv'
    BY <1>1, <2>3, SameInfos DEF BuildAttr, AttrInv, RoundInv
  <2>4. ASSUME NEW b \in Bindings, BuildPanics(b)
        PROVE  AttrInv'
    BY <2>4 DEF BuildPanics, AttrInv
  <2> QED
    BY <2>1, <2>2, <2>3, <2>4
<1>7. WaitInv'
  BY <1>1, <1>2 DEF WaitInv
<1>8. CoverInv'
  <2>1. CASE BuildEnd
    BY <2>1 DEF BuildEnd, CoverInv
  <2>2. CASE \E b \in Bindings : BuildSkip(b) \/ BuildAttr(b) \/ BuildPanics(b)
    BY <2>2 DEF BuildSkip, BuildAttr, BuildPanics, CoverInv
  <2> QED
    BY <2>1, <2>2
<1>9. VerdictInv' /\ OnceInv' /\ WithinLimit'
  BY <1>3 DEF VerdictInv, OnceInv, WithinLimit
<1> QED
  BY <1>4, <1>5, <1>6, <1>7, <1>8, <1>9 DEF RoundInv

\* The second loop puts every Suspended binding of a known queue into its heap,
\* and its queue into the heap of the first lap.
LEMMA CollectRound ==
    ASSUME TypeOK, RoundInv,
           CollectEnd \/ \E b \in Bindings : CollectSkip(b) \/ CollectPush(b)
    PROVE  RoundInv'
<1>1. /\ phase = "collect" /\ rbi' = rbi
      /\ UNCHANGED <<attrs, allocated, rounded, served>>
      /\ phase' \in {"collect", "dispatch"}
      /\ rounded = {} /\ served = << >>
  BY DEF CollectEnd, CollectSkip, CollectPush, RoundInv, PhaseInv
<1>2. DOMAIN served = {} /\ DOMAIN served' = {}
  BY <1>1
<1>3. UidInv' /\ AttrInv'
  BY <1>1, SameInfos DEF RoundInv, UidInv, AttrInv
<1>4. VerdictInv' /\ OnceInv' /\ WithinLimit'
  BY <1>2 DEF VerdictInv, OnceInv, WithinLimit
<1>5. CASE CollectEnd
  <2>1. PhaseInv'
    BY <1>1, <1>5 DEF CollectEnd, RoundInv, PhaseInv
  <2>2. WaitInv'
    BY <1>1, <1>5, SameInfos DEF CollectEnd, RoundInv, WaitInv, Seen, TypeOK
  <2>3. CoverInv'
    BY <1>1, <1>5, SameInfos DEF CollectEnd, RoundInv, CoverInv, Seen
  <2> QED
    BY <1>3, <1>4, <2>1, <2>2, <2>3 DEF RoundInv
<1>6. ASSUME NEW b \in Bindings, CollectSkip(b)
      PROVE  RoundInv'
  <2>1. PhaseInv'
    BY <1>1, <1>6 DEF CollectSkip, RoundInv, PhaseInv
  <2>2. WaitInv'
    BY <1>1, <1>6, SameInfos DEF CollectSkip, RoundInv, WaitInv, Seen, TypeOK
  <2>3. CoverInv'
    BY <1>1, <1>6, SameInfos DEF CollectSkip, RoundInv, CoverInv, Seen
  <2> QED
    BY <1>3, <1>4, <2>1, <2>2, <2>3 DEF RoundInv
<1>7. ASSUME NEW b \in Bindings, CollectPush(b)
      PROVE  RoundInv'
  <2>1. /\ QueueName(b) \in Queues
        /\ waiting'[QueueName(b)] = waiting[QueueName(b)] \cup {b}
        /\ \A q \in Queues \ {QueueName(b)} : waiting'[q] = waiting[q]
        /\ phase' = phase /\ todo' = todo \ {b}
        /\ queues' = queues \cup {QueueName(b)}
    BY <1>7 DEF CollectPush, Collectable, TypeOK
  <2>2. PhaseInv'
    BY <1>1, <2>1 DEF RoundInv, PhaseInv
  <2>3. WaitInv'
    <3> SUFFICES ASSUME NEW q \in Queues, NEW a \in waiting'[q]
                 PROVE  /\ Collectable(a)' /\ QueueName(a)' = q
                        /\ ~Seen(a)' /\ a \notin todo'
      BY DEF WaitInv
    <3>1. ~Seen(a)'
      BY <1>2 DEF Seen
    <3>2. CASE a = b
      BY <1>1, <1>7, <2>1, <3>1, <3>2, SameInfos DEF CollectPush, RoundInv, WaitInv, TypeOK
    <3>3. CASE a # b
      <4>1. a \in waiting[q] /\ a \in Bindings
        BY <2>1, <3>3 DEF TypeOK
      <4> QED
        BY <1>1, <2>1, <3>1, <4>1, SameInfos DEF RoundInv, WaitInv
    <3> QED
      BY <3>2, <3>3
  <2>4. CoverInv'
    <3> SUFFICES ASSUME NEW a \in Bindings, Collectable(a)'
                 PROVE  a \in todo' \/ a \in waiting'[QueueName(a)']
      BY DEF CoverInv
    <3>1. Collectable(a) /\ QueueName(a)' = QueueName(a) /\ QueueName(a) \in Queues
      BY <1>1, SameInfos DEF Collectable
    <3>2. a \in todo \/ a \in waiting[QueueName(a)]
      BY <1>1, <1>2, <3>1 DEF RoundInv, CoverInv, Seen
    <3> QED
      BY <2>1, <3>1, <3>2
  <2> QED
    BY <1>3, <1>4, <2>2, <2>3, <2>4 DEF RoundInv
<1> QED
  BY <1>5, <1>6, <1>7

\* What a turn does to the heaps and to the history.
LEMMA TurnMoves ==
    ASSUME TypeOK, NEW q \in Queues, NEW b \in Bindings, NEW v \in Verdicts, Taken(q, b, v)
    PROVE  /\ waiting' = [waiting EXCEPT ![q] = @ \ {b}]
           /\ waiting'[q] = waiting[q] \ {b} /\ b \in waiting[q] /\ q \in queues
           /\ \A p \in Queues \ {q} : waiting'[p] = waiting[p]
           /\ Len(served) + 1 \notin DOMAIN served
           /\ DOMAIN served' = DOMAIN served \cup {Len(served) + 1}
           /\ served'[Len(served) + 1] = [binding |-> b, queue |-> q, verdict |-> v]
           /\ \A i \in DOMAIN served :
                served'[i] = served[i] /\ served[i] \in Entry /\ i < Len(served) + 1
<1>1. Turn(q, b) /\ Serve(q, b, v)
  BY DEF Taken
<1>2. /\ served \in Seq(Entry) /\ [binding |-> b, queue |-> q, verdict |-> v] \in Entry
      /\ served' = Append(served, [binding |-> b, queue |-> q, verdict |-> v])
  BY <1>1 DEF TypeOK, Entry, Verdicts, Serve
<1>3. \A i \in DOMAIN served : served[i] \in Entry
  BY <1>2
<1>4. /\ waiting'[q] = waiting[q] \ {b} /\ b \in waiting[q] /\ q \in queues
      /\ \A p \in Queues \ {q} : waiting'[p] = waiting[p]
      /\ waiting' = [waiting EXCEPT ![q] = @ \ {b}]
  BY <1>1 DEF Turn, IsTop, IsFirst, Serve, TypeOK
<1> QED
  BY <1>2, <1>3, <1>4, ServedGrows

\* A turn serves a binding that was not served, and keeps what the earlier
\* verdicts say and the limits they were checked against.
LEMMA TurnRound ==
    ASSUME TypeOK, RoundInv, NEW q \in Queues, NEW b \in Bindings, NEW v \in Verdicts,
           Taken(q, b, v)
    PROVE  RoundInv'
<1> DEFINE n == Len(served) + 1
<1>moves. /\ waiting'[q] = waiting[q] \ {b} /\ b \in waiting[q] /\ q \in queues
          /\ b \in Bindings /\ waiting[q] \subseteq Bindings
          /\ \A p \in Queues \ {q} : waiting'[p] = waiting[p] /\ waiting[p] \subseteq Bindings
  BY TurnMoves DEF TypeOK
<1>entry. /\ n \notin DOMAIN served /\ DOMAIN served' = DOMAIN served \cup {n}
          /\ served'[n].binding = b /\ served'[n].queue = q /\ served'[n].verdict = v
          /\ \A i \in DOMAIN served :
               /\ served'[i] = served[i]
               /\ served[i].binding \in Bindings /\ served[i].queue \in Queues
  <2>1. /\ n \notin DOMAIN served /\ DOMAIN served' = DOMAIN served \cup {n}
        /\ served'[n] = [binding |-> b, queue |-> q, verdict |-> v]
        /\ \A i \in DOMAIN served : served'[i] = served[i] /\ served[i] \in Entry
    BY TurnMoves
  <2> QED
    BY <2>1 DEF Entry
<1>keeps. \A a \in Bindings :
             /\ rbi'[a].request = rbi[a].request /\ rbi'[a].uid = rbi[a].uid
             /\ a # b => rbi'[a].status = rbi[a].status
  BY TurnKeeps
<1>same. \A a \in Bindings :
            /\ QueueName(a)' = QueueName(a) /\ Charges(a)' = Charges(a)
            /\ Collectable(a)' => Collectable(a)
            /\ a # b => Collectable(a)' = Collectable(a)
  BY TurnStable
<1>fits. \A p \in Queues, a \in Bindings :
            rbi[a].request # NoRequest /\ Allocatable(p, a)' => Allocatable(p, a)
  BY TurnStable
<1>1. Turn(q, b) /\ Serve(q, b, v) /\ UNCHANGED <<phase, todo, attrs>> /\ phase = "dispatch"
  BY DEF Taken, Turn
<1>2. /\ Collectable(b) /\ QueueName(b) = q /\ ~Seen(b)
      /\ rbi[b].request # NoRequest
  BY <1>moves DEF RoundInv, WaitInv, Taken
<1>3. \A a \in Bindings : Seen(a)' <=> Seen(a) \/ a = b
  BY <1>entry DEF Seen
<1>4. UidInv' /\ AttrInv'
  BY <1>1, <1>keeps, <1>same DEF RoundInv, UidInv, AttrInv
<1>5. PhaseInv'
  <2>1. /\ queues' = queues \ {q}
        /\ rounded' = IF waiting[q] = {b} THEN rounded ELSE rounded \cup {q}
    BY <1>1 DEF Serve
  <2>2. /\ queues' \cap rounded' = {}
        /\ \A p \in Queues : waiting'[p] # {} <=> p \in queues' \cup rounded'
    BY <1>1, <2>1, <1>moves DEF RoundInv, PhaseInv
  <2> QED
    BY <1>1, <2>2 DEF RoundInv, PhaseInv
<1>6. WaitInv'
  <2> SUFFICES ASSUME NEW p \in Queues, NEW a \in waiting'[p]
               PROVE  Collectable(a)' /\ QueueName(a)' = p /\ ~Seen(a)'
    BY <1>1 DEF WaitInv
  <2>1. a \in waiting[p] /\ a \in Bindings
    BY <1>moves
  <2>2. Collectable(a) /\ QueueName(a) = p /\ ~Seen(a)
    BY <2>1 DEF RoundInv, WaitInv
  <2>3. a # b
    BY <1>2, <2>1, <2>2, <1>moves
  <2> QED
    BY <1>3, <1>same, <2>1, <2>2, <2>3
<1>7. CoverInv'
  <2> SUFFICES ASSUME NEW a \in Bindings, Collectable(a)'
               PROVE  a \in waiting'[QueueName(a)'] \/ Seen(a)'
    BY <1>1 DEF CoverInv
  <2>1. Collectable(a) /\ QueueName(a)' = QueueName(a) /\ QueueName(a) \in Queues
    BY <1>same DEF Collectable
  <2>2. a \in waiting[QueueName(a)] \/ Seen(a)
    BY <1>1, <2>1 DEF RoundInv, CoverInv, PhaseInv
  <2> QED
    BY <1>3, <2>1, <2>2, <1>moves
<1>8. VerdictInv'
  <2>1. ASSUME NEW i \in DOMAIN served, NEW a \in Bindings, NEW p \in Queues,
               a = served[i].binding, p = served[i].queue
        PROVE  /\ QueueName(a)' = p
               /\ rbi'[a].request # NoRequest
               /\ served[i].verdict = "dispatched" => rbi'[a].status # "Suspended"
               /\ served[i].verdict = "ignored" => ~Allocatable(p, a)'
               /\ served[i].verdict = "failed" => ~Charges(a)'
    <3>1. a # b
      BY <1>2, <2>1 DEF Seen
    <3>2. /\ QueueName(a) = p /\ rbi[a].request # NoRequest
          /\ served[i].verdict = "dispatched" => rbi[a].status # "Suspended"
          /\ served[i].verdict = "ignored" => ~Allocatable(p, a)
          /\ served[i].verdict = "failed" => ~Charges(a)
      BY <2>1 DEF RoundInv, VerdictInv
    <3> QED
      BY <3>1, <3>2, <1>keeps, <1>same, <1>fits
  <2>2. /\ QueueName(b)' = q
        /\ rbi'[b].request # NoRequest
        /\ v = "dispatched" => rbi'[b].status # "Suspended"
        /\ v = "ignored" => ~Allocatable(q, b)'
        /\ v = "failed" => ~Charges(b)'
    BY <1>2, TurnKeeps, TurnStable DEF Taken
  <2> QED
    BY <2>1, <2>2, <1>entry DEF VerdictInv
<1>9. OnceInv'
  <2>1. \A i \in DOMAIN served : served[i].binding # b
    BY <1>2 DEF Seen
  <2> QED
    BY <2>1, <1>entry DEF RoundInv, OnceInv
<1>10. WithinLimit'
  <2> SUFFICES ASSUME NEW i \in DOMAIN served', served'[i].verdict = "dispatched",
                      NEW d \in Dims, rbi'[served'[i].binding].request[d] > 0
               PROVE  allocated'[served'[i].queue][d] <= Limit(served'[i].queue, d)
    BY DEF WithinLimit, Limit
  <2>1. CASE v # "dispatched"
    <3>1. UNCHANGED <<allocated, rbi>> /\ i # n
      BY <2>1, <1>entry DEF Taken
    <3> QED
      BY <3>1, <1>entry DEF RoundInv, WithinLimit, Limit
  <2>2. CASE v = "dispatched"
    <3>1. /\ Charges(b) /\ Allocatable(q, b)
          /\ allocated' = [allocated EXCEPT ![rbi[b].queue] = Plus(@, rbi[b].request)]
      BY <2>2 DEF Taken
    <3>2. rbi[b].queue = q
      BY <1>2, <3>1, RoundAssumption DEF Charges, QueueName, TypeOK
    <3>3. rbi[b].request \in Vector /\ allocated[q] \in Vector
      BY <1>2 DEF TypeOK, Info
    <3>4. /\ \A p \in Queues \ {q} : allocated'[p] = allocated[p]
          /\ allocated'[q][d] = allocated[q][d] + rbi[b].request[d]
      BY <3>1, <3>2, <3>3, PlusGrows DEF TypeOK
    <3>5. rbi[b].request[d] \in Nat /\ allocated[q][d] \in Nat
      BY <3>3 DEF Vector
    <3>6. rbi[b].request[d] > 0 => allocated'[q][d] <= Limit(q, d)
      BY <3>1, <3>4 DEF Allocatable
    <3>7. CASE i = n
      BY <3>6, <3>7, <1>keeps, <1>entry, <1>moves
    <3>8. CASE i \in DOMAIN served
      <4>1. /\ served'[i] = served[i] /\ served[i].queue \in Queues
            /\ served[i].binding \in Bindings
        BY <3>8, <1>entry
      <4>2. allocated[served[i].queue][d] <= Limit(served[i].queue, d)
        BY <3>8, <4>1, <1>keeps DEF RoundInv, WithinLimit
      <4> QED
        BY <3>4, <3>5, <3>6, <4>1, <4>2
    <3> QED
      BY <3>7, <3>8, <1>entry
  <2> QED
    BY <2>1, <2>2
<1> QED
  BY <1>4, <1>5, <1>6, <1>7, <1>8, <1>9, <1>10 DEF RoundInv

\* Between two laps, at the end and at a panic nothing is served.
LEMMA LapRound ==
    ASSUME TypeOK, RoundInv,
           \/ Swap \/ DispatchEnd
           \/ \E q \in Queues, b \in Bindings : AllocatablePanics(q, b)
    PROVE  RoundInv'
<1>1. /\ phase = "dispatch" /\ rbi' = rbi
      /\ UNCHANGED <<todo, attrs, allocated, waiting, served>>
      /\ phase' \in {"dispatch", "done", "crashed"}
  BY DEF Swap, DispatchEnd, AllocatablePanics, Turn
<1>2. UidInv' /\ AttrInv' /\ WaitInv' /\ CoverInv'
  BY <1>1, SameInfos DEF RoundInv, UidInv, AttrInv, WaitInv, CoverInv, Seen, TypeOK
<1>3. VerdictInv' /\ OnceInv' /\ WithinLimit'
  BY <1>1 DEF RoundInv, VerdictInv, OnceInv, WithinLimit, QueueName, Allocatable, Charges, Limit
<1>4. PhaseInv'
  <2>1. CASE Swap
    BY <1>1, <2>1 DEF Swap, RoundInv, PhaseInv
  <2>2. CASE DispatchEnd
    BY <1>1, <2>2 DEF DispatchEnd, RoundInv, PhaseInv
  <2>3. CASE \E q \in Queues, b \in Bindings : AllocatablePanics(q, b)
    BY <1>1, <2>3 DEF AllocatablePanics, PhaseInv
  <2> QED
    BY <2>1, <2>2, <2>3
<1> QED
  BY <1>2, <1>3, <1>4 DEF RoundInv

LEMMA RoundNext == TypeOK /\ RoundInv /\ [Next]_vars => RoundInv'
<1> SUFFICES ASSUME TypeOK, RoundInv, [Next]_vars
             PROVE  RoundInv'
  OBVIOUS
<1>1. CASE BuildEnd \/ \E b \in Bindings : BuildSkip(b) \/ BuildAttr(b) \/ BuildPanics(b)
  BY <1>1, BuildRound
<1>2. CASE CollectEnd \/ \E b \in Bindings : CollectSkip(b) \/ CollectPush(b)
  BY <1>2, CollectRound
<1>3. CASE \/ Swap \/ DispatchEnd
           \/ \E q \in Queues, b \in Bindings : AllocatablePanics(q, b)
  BY <1>3, LapRound
<1>4. ASSUME NEW q \in Queues, NEW b \in Bindings,
             Dispatch(q, b) \/ AllocateFails(q, b) \/ Ignore(q, b)
      PROVE  RoundInv'
  BY <1>4, TurnsTaken, TurnRound
<1>5. CASE UNCHANGED vars
  BY <1>5 DEF vars, RoundInv, UidInv, PhaseInv, AttrInv, WaitInv, CoverInv, VerdictInv, OnceInv,
              WithinLimit, Seen, QueueName, Collectable, Charges, Allocatable, Limit
<1> QED
  BY <1>1, <1>2, <1>3, <1>4, <1>5 DEF Next

LEMMA RoundSafe == Spec => [](TypeOK /\ RoundInv)
<1>1. Init => TypeOK /\ RoundInv
  BY RoundTypeInit, RoundInit
<1>2. TypeOK /\ RoundInv /\ [Next]_vars => TypeOK' /\ RoundInv'
  BY RoundTypeNext, RoundNext
<1> QED
  BY <1>1, <1>2, PTL DEF Spec

\* A queue that has bindings left is in exactly one of the two heaps, any other
\* in none, for any snapshot: PopResourceBinding never meets an empty heap.
THEOREM HeapsAlwaysMatch == Spec => []HeapsMatch
<1>1. RoundInv => HeapsMatch
  BY DEF RoundInv, PhaseInv, HeapsMatch
<1> QED
  BY <1>1, RoundSafe, PTL

\* A round considers every Suspended binding of a known queue, each once.
THEOREM RoundServesEachOnce == Spec => []EachServedOnce
<1>1. TypeOK /\ RoundInv => EachServedOnce
  <2> SUFFICES ASSUME TypeOK, RoundInv, phase = "done", NEW b \in Bindings, Collectable(b)
               PROVE  Seen(b)
    BY DEF RoundInv, OnceInv, EachServedOnce, Seen
  <2>1. todo = {} /\ waiting[QueueName(b)] = {}
    BY DEF RoundInv, PhaseInv, Collectable
  <2> QED
    BY <2>1 DEF RoundInv, CoverInv
<1> QED
  BY <1>1, RoundSafe, PTL

\* What the round dispatches stays within its queue's limit in every dimension
\* it asks for, whatever the round dispatches after it.
THEOREM DispatchedWithinLimit == Spec => []WithinLimit
<1>1. RoundInv => WithinLimit
  BY DEF RoundInv
<1> QED
  BY <1>1, RoundSafe, PTL

\* A round leaves no binding that names its queue and still fits: what it ignored
\* did not fit then, and only more has been allocated since.
THEOREM RoundConservesWork == Spec => []WorkConserving
<1>1. TypeOK /\ RoundInv => WorkConserving
  <2> SUFFICES ASSUME TypeOK, RoundInv, phase = "done",
                      NEW b \in Bindings, Collectable(b), rbi[b].queue # Unnamed
               PROVE  ~Allocatable(QueueName(b), b)
    BY DEF WorkConserving
  <2>1. todo = {} /\ waiting[QueueName(b)] = {}
    BY DEF RoundInv, PhaseInv, Collectable
  <2>2. PICK i \in DOMAIN served : served[i].binding = b
    BY <2>1 DEF RoundInv, CoverInv, Seen
  <2>3. served[i].verdict \in Verdicts
    <3>1. served \in Seq(Entry)
      BY DEF TypeOK, Entry, Verdicts
    <3>2. served[i] \in Entry
      BY <3>1
    <3> QED
      BY <3>2 DEF Entry
  <2>4. served[i].verdict # "dispatched"
    BY <2>2 DEF RoundInv, VerdictInv, Collectable
  <2>5. served[i].verdict # "failed"
    <3>1. QueueName(b) \in attrs /\ QueueName(b) = rbi[b].queue
      BY DEF RoundInv, AttrInv, Collectable, QueueName
    <3> QED
      BY <2>2, <3>1 DEF RoundInv, VerdictInv, Charges
  <2> QED
    BY <2>2, <2>3, <2>4, <2>5 DEF RoundInv, VerdictInv, Verdicts
<1> QED
  BY <1>1, RoundSafe, PTL

-----------------------------------------------------------------------------
(* Panics. *)

\* The round panics on nothing but a binding without ReplicaRequirements.
THEOREM OnlyUnspecifiedPanics ==
    ASSUME \A s \in Snapshots : \A b \in Bindings : s[b].request # NoRequest
    PROVE  Spec => []NeverCrashes
<1> DEFINE Specified == \A b \in Bindings : rbi[b].request # NoRequest
<1>1. Init => Specified /\ NeverCrashes
  BY DEF Init, NeverCrashes
<1>2. TypeOK /\ Specified /\ NeverCrashes /\ [Next]_vars => Specified' /\ NeverCrashes'
  <2> SUFFICES ASSUME TypeOK, Specified, NeverCrashes, [Next]_vars
               PROVE  Specified' /\ NeverCrashes'
    OBVIOUS
  <2>1. ASSUME NEW q \in Queues, NEW b \in Bindings,
               Dispatch(q, b) \/ AllocateFails(q, b) \/ Ignore(q, b)
        PROVE  Specified' /\ NeverCrashes'
    <3>1. PICK v \in Verdicts : Taken(q, b, v)
      BY <2>1, TurnsTaken
    <3> QED
      BY <3>1, TurnKeeps DEF Taken, NeverCrashes
  <2>2. ASSUME NEW q \in Queues, NEW b \in Bindings, AllocatablePanics(q, b)
        PROVE  FALSE
    BY <2>2 DEF AllocatablePanics
  <2>3. ASSUME NEW b \in Bindings, BuildPanics(b)
        PROVE  FALSE
    BY <2>3 DEF BuildPanics
  <2>4. CASE \/ BuildEnd \/ CollectEnd \/ Swap \/ DispatchEnd
             \/ \E b \in Bindings : BuildSkip(b) \/ BuildAttr(b) \/ CollectSkip(b) \/ CollectPush(b)
    BY <2>4 DEF BuildEnd, CollectEnd, Swap, DispatchEnd, BuildSkip, BuildAttr, CollectSkip,
                CollectPush, NeverCrashes
  <2>5. CASE UNCHANGED vars
    BY <2>5 DEF vars, NeverCrashes
  <2> QED
    BY <2>1, <2>2, <2>3, <2>4, <2>5 DEF Next
<1> QED
  BY <1>1, <1>2, RoundTypeInit, RoundTypeNext, PTL DEF Spec
-----------------------------------------------------------------------------
(* Round robin. *)

\* ResourceBindingInfoOrderFn is a strict total order: its last key is the UID.
LEMMA BeforeOrder ==
    ASSUME TypeOK, UidInv, NEW a \in Bindings, NEW b \in Bindings
    PROVE  /\ ~(BindingBefore(a, b) /\ BindingBefore(b, a))
           /\ a # b => BindingBefore(a, b) \/ BindingBefore(b, a)
<1>1. /\ rbi[a].priority \in Int /\ rbi[a].created \in Nat /\ rbi[a].uid \in Nat
      /\ rbi[b].priority \in Int /\ rbi[b].created \in Nat /\ rbi[b].uid \in Nat
  BY DEF TypeOK, Info
<1>2. a # b => rbi[a].uid # rbi[b].uid
  BY DEF UidInv
<1> QED
  BY <1>1, <1>2 DEF BindingBefore

\* The bindings that come before b in the queue q.
Ahead(q, b) == {a \in Considered(q) \cup waiting[q] : BindingBefore(a, b)}

\* Turns and laps are numbers.
LEMMA TurnsFinite ==
    ASSUME TypeOK, NEW q \in Queues, NEW b \in Bindings
    PROVE  /\ Considered(q) \subseteq Bindings /\ IsFiniteSet(Considered(q))
           /\ Turns(q) \in Nat
           /\ Ahead(q, b) \subseteq Bindings /\ IsFiniteSet(Ahead(q, b))
           /\ Lap(q, b) = Cardinality(Ahead(q, b)) /\ Lap(q, b) \in Nat
<1>1. served \in Seq(Entry)
  BY DEF TypeOK, Entry, Verdicts
<1>2. \A i \in DOMAIN served : served[i].binding \in Bindings
  <2>1. \A i \in DOMAIN served : served[i] \in Entry
    BY <1>1
  <2> QED
    BY <2>1 DEF Entry
<1>3. Considered(q) \subseteq Bindings /\ waiting[q] \subseteq Bindings
  BY <1>2 DEF Considered, TypeOK
<1>4. Ahead(q, b) \subseteq Bindings
  BY <1>3 DEF Ahead
<1>5. IsFiniteSet(Considered(q)) /\ IsFiniteSet(Ahead(q, b))
  BY <1>3, <1>4, FS_Subset, RoundAssumption
<1>6. Lap(q, b) = Cardinality(Ahead(q, b))
  BY DEF Lap, Ahead
<1> QED
  BY <1>3, <1>4, <1>5, <1>6, FS_CardinalityType DEF Turns

\* Whatever waits has all of its queue's served bindings before it; the first
\* of the heap has no others.
LEMMA LapBounds ==
    ASSUME TypeOK, UidInv, OrderInv, NEW q \in Queues, NEW b \in waiting[q]
    PROVE  /\ Turns(q) <= Lap(q, b)
           /\ IsFirst(b, q) => Lap(q, b) = Turns(q)
           /\ \A c \in waiting[q] \ {b} :
                IsFirst(b, q) /\ b \notin Considered(q) => Turns(q) + 1 <= Lap(q, c)
<1>1. b \in Bindings /\ waiting[q] \subseteq Bindings
  BY DEF TypeOK
<1>2. \A a \in Considered(q), c \in waiting[q] : BindingBefore(a, c)
  BY DEF OrderInv, Considered
<1>3. Turns(q) <= Lap(q, b)
  <2>1. Considered(q) \subseteq Ahead(q, b)
    BY <1>2 DEF Ahead
  <2> QED
    BY <1>1, <2>1, TurnsFinite, FS_Subset DEF Turns
<1>4. ASSUME IsFirst(b, q)
      PROVE  Lap(q, b) = Turns(q)
  <2>1. \A a \in waiting[q] : ~BindingBefore(a, b)
    BY <1>1, <1>4, BeforeOrder DEF IsFirst
  <2>2. Ahead(q, b) = Considered(q)
    BY <1>2, <2>1 DEF Ahead
  <2> QED
    BY <1>1, <2>2, TurnsFinite DEF Turns
<1>5. ASSUME NEW c \in waiting[q] \ {b}, IsFirst(b, q), b \notin Considered(q)
      PROVE  Turns(q) + 1 <= Lap(q, c)
  <2>1. BindingBefore(b, c) /\ c \in Bindings
    BY <1>1, <1>5 DEF IsFirst
  <2>2. Considered(q) \cup {b} \subseteq Ahead(q, c)
    BY <1>2, <1>5, <2>1 DEF Ahead
  <2>3. IsFiniteSet(Considered(q)) /\ IsFiniteSet(Ahead(q, c)) /\ Lap(q, c) = Cardinality(Ahead(q, c))
    BY <2>1, TurnsFinite
  <2>4. Cardinality(Considered(q) \cup {b}) = Turns(q) + 1
    BY <1>5, <2>3, FS_AddElement DEF Turns
  <2> QED
    BY <2>2, <2>3, <2>4, FS_Subset
<1> QED
  BY <1>3, <1>4, <1>5

LEMMA TurnInit == Init => TurnInv
<1> SUFFICES ASSUME Init
             PROVE  TurnInv
  OBVIOUS
<1>1. DOMAIN served = {}
  BY DEF Init
<1>2. queues = {} /\ rounded = {}
  BY DEF Init
<1> QED
  BY <1>1, <1>2 DEF TurnInv, OrderInv, LapInv, RankInv

\* A turn adds one to the turns of its queue, and moves nobody's lap.
LEMMA TurnCounts ==
    ASSUME TypeOK, RoundInv, NEW q \in Queues, NEW b \in Bindings, NEW v \in Verdicts,
           Taken(q, b, v)
    PROVE  /\ b \notin Considered(q)
           /\ Turns(q)' = Turns(q) + 1
           /\ \A p \in Queues \ {q} : Turns(p)' = Turns(p)
           /\ \A p \in Queues, a \in Bindings : Lap(p, a)' = Lap(p, a)
<1> DEFINE n == Len(served) + 1
<1>1. /\ n \notin DOMAIN served /\ DOMAIN served' = DOMAIN served \cup {n}
      /\ served'[n].binding = b /\ served'[n].queue = q
      /\ \A i \in DOMAIN served : served'[i] = served[i]
  <2>1. /\ n \notin DOMAIN served /\ DOMAIN served' = DOMAIN served \cup {n}
        /\ served'[n] = [binding |-> b, queue |-> q, verdict |-> v]
        /\ \A i \in DOMAIN served : served'[i] = served[i]
    BY TurnMoves
  <2> QED
    BY <2>1
<1>2. /\ waiting'[q] = waiting[q] \ {b} /\ b \in waiting[q]
      /\ \A p \in Queues \ {q} : waiting'[p] = waiting[p]
  BY TurnMoves
<1>3. b \notin Considered(q)
  BY <1>2 DEF RoundInv, WaitInv, Seen, Considered
<1>4. Considered(q)' = Considered(q) \cup {b}
  BY <1>1 DEF Considered
<1>5. ASSUME NEW p \in Queues \ {q}
      PROVE  Considered(p)' = Considered(p)
  BY <1>1 DEF Considered
<1>6. Turns(q)' = Turns(q) + 1
  BY <1>3, <1>4, TurnsFinite, FS_AddElement DEF Turns
<1>7. ASSUME NEW p \in Queues, NEW a \in Bindings
      PROVE  Lap(p, a)' = Lap(p, a)
  <2>1. Considered(p)' \cup waiting'[p] = Considered(p) \cup waiting[p]
    BY <1>2, <1>4, <1>5
  <2>2. \A c \in Considered(p) \cup waiting[p] : BindingBefore(c, a)' = BindingBefore(c, a)
    <3>1. Considered(p) \cup waiting[p] \subseteq Bindings
      BY TurnsFinite DEF TypeOK
    <3> QED
      BY <3>1, TurnStable
  <2>3. Ahead(p, a)' = Ahead(p, a)
    BY <2>1, <2>2 DEF Ahead
  <2> QED
    BY <2>3 DEF Lap, Ahead
<1> QED
  BY <1>3, <1>5, <1>6, <1>7 DEF Turns

\* The binding a turn serves is ranked before all that still waits: the queue's
\* own is a later turn, a queue of this lap comes after in the heap, a queue of
\* the next lap has had this turn already.
LEMMA TurnRanks ==
    ASSUME TypeOK, RoundInv, TurnInv, NEW q \in Queues, NEW b \in Bindings, NEW v \in Verdicts,
           Taken(q, b, v), NEW p \in Queues, NEW c \in waiting'[p]
    PROVE  Ranked(q, b, p, c)
<1>1. /\ phase = "dispatch" /\ IsTop(q) /\ IsFirst(b, q) /\ b \in waiting[q] /\ q \in queues
  BY DEF Taken, Turn, IsTop, IsFirst
<1>2. /\ p = q => c \in waiting[q] \ {b}
      /\ c \in waiting[p] /\ c \in Bindings
  BY TurnMoves DEF TypeOK
<1>3. UidInv /\ OrderInv
  BY DEF RoundInv, TurnInv
<1>4. Lap(q, b) = Turns(q) /\ Turns(p) <= Lap(p, c)
  BY <1>1, <1>2, <1>3, LapBounds
<1>5. Turns(q) \in Nat /\ Turns(p) \in Nat /\ Lap(p, c) \in Nat
  BY <1>2, TurnsFinite
<1>6. CASE p = q
  <2>1. b \notin Considered(q)
    BY TurnCounts
  <2>2. Turns(q) + 1 <= Lap(q, c)
    BY <1>1, <1>2, <1>3, <1>6, <2>1, LapBounds
  <2> QED
    BY <1>4, <1>5, <1>6, <2>2 DEF Ranked
<1>7. CASE p # q /\ p \in queues
  <2>1. QueueBefore(q, p) /\ Turns(q) = Turns(p)
    BY <1>1, <1>7 DEF IsTop, TurnInv, LapInv
  <2> QED
    BY <1>4, <1>5, <2>1 DEF Ranked
<1>8. CASE p \in rounded
  <2>1. Turns(p) = Turns(q) + 1
    BY <1>1, <1>8 DEF TurnInv, LapInv
  <2> QED
    BY <1>4, <1>5, <2>1 DEF Ranked
<1>9. p \in queues \cup rounded
  BY <1>1, <1>2 DEF RoundInv, PhaseInv
<1> QED
  BY <1>6, <1>7, <1>8, <1>9

LEMMA TurnTurn ==
    ASSUME TypeOK, RoundInv, TurnInv, NEW q \in Queues, NEW b \in Bindings, NEW v \in Verdicts,
           Taken(q, b, v)
    PROVE  TurnInv'
<1> DEFINE n == Len(served) + 1
<1>1. /\ n \notin DOMAIN served /\ DOMAIN served' = DOMAIN served \cup {n}
      /\ served'[n] = [binding |-> b, queue |-> q, verdict |-> v]
      /\ \A i \in DOMAIN served : /\ served'[i] = served[i] /\ served[i] \in Entry
                                 /\ i \in Nat /\ i < n
  <2>1. served \in Seq(Entry)
    BY DEF TypeOK, Entry, Verdicts
  <2>2. \A i \in DOMAIN served : i \in Nat
    BY <2>1
  <2> QED
    BY <2>2, TurnMoves
<1>2. /\ served'[n].binding = b /\ served'[n].queue = q
      /\ \A i \in DOMAIN served :
           served[i].binding \in Bindings /\ served[i].queue \in Queues
  BY <1>1 DEF Entry
<1>3. /\ phase' = "dispatch" /\ phase = "dispatch" /\ IsFirst(b, q) /\ b \in waiting[q]
      /\ q \in queues /\ queues' = queues \ {q} /\ q \notin rounded
      /\ rounded' = IF waiting[q] = {b} THEN rounded ELSE rounded \cup {q}
  BY DEF Taken, Turn, IsTop, IsFirst, Serve, RoundInv, PhaseInv
<1>4. /\ waiting'[q] = waiting[q] \ {b}
      /\ \A p \in Queues : waiting'[p] \subseteq waiting[p] /\ waiting[p] \subseteq Bindings
  BY TurnMoves DEF TypeOK
<1>5. OrderInv'
  <2>1. \A a, c \in Bindings : BindingBefore(a, c)' = BindingBefore(a, c)
    BY TurnStable
  <2>2. ASSUME NEW i \in DOMAIN served, NEW c \in waiting'[served[i].queue]
        PROVE  BindingBefore(served[i].binding, c)
    BY <1>2, <1>4, <2>2 DEF TurnInv, OrderInv
  <2>3. ASSUME NEW c \in waiting'[q]
        PROVE  BindingBefore(b, c)
    BY <1>3, <1>4, <2>3 DEF IsFirst
  <2>4. ASSUME NEW i \in DOMAIN served', NEW c \in waiting'[served'[i].queue]
        PROVE  BindingBefore(served[i].binding, c)'
    <3>1. CASE i \in DOMAIN served
      <4>1. /\ BindingBefore(served[i].binding, c)
            /\ c \in Bindings /\ served[i].binding \in Bindings
            /\ served'[i].binding = served[i].binding
        BY <1>1, <1>2, <1>4, <2>2, <2>4, <3>1
      <4> QED
        BY <2>1, <4>1
    <3>2. CASE i = n
      <4>1. BindingBefore(b, c) /\ c \in Bindings /\ served'[i].binding = b
        BY <1>2, <1>4, <2>3, <2>4, <3>2
      <4> QED
        BY <2>1, <4>1
    <3> QED
      BY <1>1, <3>1, <3>2
  <2> QED
    BY <2>4 DEF OrderInv
<1>6. LapInv'
  <2>1. \A p \in Queues : Turns(p)' = IF p = q THEN Turns(q) + 1 ELSE Turns(p)
    BY TurnCounts
  <2>2. queues \subseteq Queues /\ rounded \subseteq Queues
    BY DEF TypeOK
  <2>3. rounded' \subseteq rounded \cup {q}
    BY <1>3
  <2> QED
    BY <1>3, <2>1, <2>2, <2>3 DEF TurnInv, LapInv
<1>7. RankInv'
  <2>1. \A p, r \in Queues, a, c \in Bindings : Ranked(p, a, r, c)' = Ranked(p, a, r, c)
    BY TurnCounts DEF Ranked, QueueBefore
  <2>2. ASSUME NEW i \in DOMAIN served, NEW p \in Queues, NEW c \in waiting[p]
        PROVE  Ranked(served[i].queue, served[i].binding, p, c)
    BY <1>3 DEF TurnInv, RankInv
  <2>3. ASSUME NEW i \in DOMAIN served, NEW j \in DOMAIN served, i < j
        PROVE  Ranked(served[i].queue, served[i].binding, served[j].queue, served[j].binding)
    BY <1>3, <2>3 DEF TurnInv, RankInv
  <2>4. ASSUME NEW p \in Queues, NEW c \in waiting'[p]
        PROVE  Ranked(q, b, p, c)
    BY TurnRanks
  <2>5. ASSUME NEW i \in DOMAIN served', NEW j \in DOMAIN served', i < j
        PROVE  Ranked(served[i].queue, served[i].binding, served[j].queue, served[j].binding)'
    <3>1. i \in DOMAIN served
      BY <1>1, <2>5
    <3>2. CASE j = n
      <4>1. Ranked(served[i].queue, served[i].binding, q, b)
        BY <1>3, <2>2, <3>1
      <4> QED
        BY <1>1, <1>2, <2>1, <3>1, <3>2, <4>1
    <3>3. CASE j \in DOMAIN served
      <4>1. Ranked(served[i].queue, served[i].binding, served[j].queue, served[j].binding)
        BY <2>3, <2>5, <3>1, <3>3
      <4> QED
        BY <1>1, <1>2, <2>1, <3>1, <3>3, <4>1
    <3> QED
      BY <1>1, <3>2, <3>3
  <2>6. ASSUME NEW i \in DOMAIN served', NEW p \in Queues, NEW c \in waiting'[p]
        PROVE  Ranked(served[i].queue, served[i].binding, p, c)'
    <3>1. c \in waiting[p] /\ c \in Bindings
      BY <1>4
    <3>2. CASE i = n
      BY <1>2, <2>1, <2>4, <3>1, <3>2
    <3>3. CASE i \in DOMAIN served
      BY <1>1, <1>2, <2>1, <2>2, <3>1, <3>3
    <3> QED
      BY <1>1, <3>2, <3>3
  <2> QED
    BY <2>5, <2>6 DEF RankInv
<1> QED
  BY <1>5, <1>6, <1>7 DEF TurnInv

\* Nothing is served before the loops over the snapshot have ended.
LEMMA EmptyTurn ==
    ASSUME served = << >>, served' = << >>, rounded' = {}
    PROVE  TurnInv'
<1>1. DOMAIN served' = {}
  OBVIOUS
<1>2. \A p \in queues' : Turns(p)' = Cardinality({})
  BY <1>1 DEF Turns, Considered
<1> QED
  BY <1>1, <1>2 DEF TurnInv, OrderInv, LapInv, RankInv

\* A lap ends when every queue that has bindings left has had its turn in it.
LEMMA LapTurn ==
    ASSUME TypeOK, RoundInv, TurnInv,
           \/ Swap \/ DispatchEnd
           \/ \E q \in Queues, b \in Bindings : AllocatablePanics(q, b)
    PROVE  TurnInv'
<1>1. /\ phase = "dispatch" /\ rbi' = rbi /\ UNCHANGED <<waiting, served>>
      /\ \/ queues' = rounded /\ rounded' = {}
         \/ UNCHANGED <<queues, rounded>>
  BY DEF Swap, DispatchEnd, AllocatablePanics, Turn
<1>2. OrderInv'
  BY <1>1 DEF TurnInv, OrderInv, BindingBefore
<1>3. LapInv'
  <2>1. \A p \in Queues : Turns(p)' = Turns(p)
    BY <1>1 DEF Turns, Considered
  <2>2. queues \subseteq Queues /\ rounded \subseteq Queues
    BY DEF TypeOK
  <2> QED
    BY <1>1, <2>1, <2>2 DEF TurnInv, LapInv
<1>4. RankInv'
  <2>1. \A p, r \in Queues, a, c \in Bindings : Ranked(p, a, r, c)' = Ranked(p, a, r, c)
    BY <1>1 DEF Ranked, QueueBefore, Lap, Considered, BindingBefore
  <2>2. served \in Seq(Entry) /\ \A q \in Queues : waiting[q] \subseteq Bindings
    BY DEF TypeOK, Entry, Verdicts
  <2>3. \A i \in DOMAIN served : served[i] \in Entry
    BY <2>2
  <2>4. \A i \in DOMAIN served : served[i].binding \in Bindings /\ served[i].queue \in Queues
    BY <2>3 DEF Entry
  <2> QED
    BY <1>1, <2>1, <2>2, <2>4 DEF TurnInv, RankInv
<1> QED
  BY <1>2, <1>3, <1>4 DEF TurnInv

LEMMA TurnNext == TypeOK /\ RoundInv /\ TurnInv /\ [Next]_vars => TurnInv'
<1> SUFFICES ASSUME TypeOK, RoundInv, TurnInv, [Next]_vars
             PROVE  TurnInv'
  OBVIOUS
<1>1. CASE \/ BuildEnd \/ CollectEnd
           \/ \E b \in Bindings : \/ BuildSkip(b) \/ BuildAttr(b) \/ BuildPanics(b)
                                 \/ CollectSkip(b) \/ CollectPush(b)
  <2>1. phase \in {"build", "collect"} /\ UNCHANGED <<served, rounded>>
    BY <1>1 DEF BuildEnd, CollectEnd, BuildSkip, BuildAttr, BuildPanics, CollectSkip, CollectPush
  <2> QED
    BY <2>1, EmptyTurn DEF RoundInv, PhaseInv
<1>2. CASE \/ Swap \/ DispatchEnd
           \/ \E q \in Queues, b \in Bindings : AllocatablePanics(q, b)
  BY <1>2, LapTurn
<1>3. ASSUME NEW q \in Queues, NEW b \in Bindings,
             Dispatch(q, b) \/ AllocateFails(q, b) \/ Ignore(q, b)
      PROVE  TurnInv'
  BY <1>3, TurnsTaken, TurnTurn
<1>4. CASE UNCHANGED vars
  BY <1>4 DEF vars, TurnInv, OrderInv, LapInv, RankInv, Ranked, Turns, Considered, Lap,
              BindingBefore, QueueBefore
<1> QED
  BY <1>1, <1>2, <1>3, <1>4 DEF Next

\* Two heaps swapped lap after lap serve the queues round robin: every binding is
\* served in the order of a sort by its place in its queue, then by queue.
THEOREM RoundIsRobin == Spec => []RoundRobin
<1>1. TypeOK /\ TurnInv => RoundRobin
  BY DEF TurnInv, RankInv, Ranked, RoundRobin
<1>2. Init => TypeOK /\ RoundInv /\ TurnInv
  BY RoundTypeInit, RoundInit, TurnInit
<1>3. TypeOK /\ RoundInv /\ TurnInv /\ [Next]_vars => TypeOK' /\ RoundInv' /\ TurnInv'
  BY RoundTypeNext, RoundNext, TurnNext
<1> QED
  BY <1>1, <1>2, <1>3, PTL DEF Spec
=============================================================================
