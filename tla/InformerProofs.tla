--------------------------- MODULE InformerProofs ---------------------------
(***************************************************************************)
(* What the notifications of an informer amount to, for any objects and    *)
(* any losses of the watch: handed out one by one they turn what a handler *)
(* has been told so far into what the informer knows, and each says        *)
(* truly what its object was before.                                       *)
(***************************************************************************)
EXTENDS Informer, FiniteSetTheorems, SequenceTheorems, TLAPS

\* The streams of objects in O (or NoObject, which is in O) with names in N.
StreamOK(s, N, O) ==
    /\ s \in [api : [N -> O], known : [N -> O], watch : {"unlisted", "on", "lost"},
              intact : BOOLEAN,
              events : Seq([name : N, old : O, new : O, tombstone : BOOLEAN])]
    /\ s.watch = "on" => s.known = s.api
    /\ s.watch = "unlisted" => s.events = << >> /\ s.known = [x \in N |-> NoObject]
    /\ s.watch = "lost" => ~s.intact

\* A notification that says truly what its object was and that is about some
\* object.
Tells(n, before, after) ==
    /\ n.old = before[n.name]
    /\ after = [before EXCEPT ![n.name] = n.new]
    /\ n.old # NoObject \/ n.new # NoObject

\* v[i] is what a handler has been told of every object when it has handled i
\* of the pending notifications.
Replay(s, v, N, O) ==
    /\ v \in [0..Len(s.events) -> [N -> O]]
    /\ v[Len(s.events)] = s.known
    /\ \A i \in 1..Len(s.events) : Tells(s.events[i], v[i - 1], v[i])

\* Sequences.
LEMMA FunctionSeq ==
    ASSUME NEW S, NEW n \in Nat, NEW f \in [1..n -> S]
    PROVE  f \in Seq(S) /\ Len(f) = n
<1>1. f \in Seq(S)
  BY SeqDef
<1> QED
  BY <1>1, LenProperties

LEMMA ConcatAt ==
    ASSUME NEW S, NEW s \in Seq(S), NEW t \in Seq(S)
    PROVE  /\ s \o t \in Seq(S) /\ Len(s \o t) = Len(s) + Len(t)
           /\ \A i \in 1..Len(s) : (s \o t)[i] = s[i]
           /\ \A i \in 1..Len(t) : (s \o t)[Len(s) + i] = t[i]
<1>1. Len(s) \in Nat /\ Len(t) \in Nat
  OBVIOUS
<1>2. \A i \in 1..Len(s) : i \in 1..Len(s) + Len(t) /\ i <= Len(s)
  BY <1>1
<1>3. \A i \in 1..Len(t) : /\ Len(s) + i \in 1..Len(s) + Len(t) /\ ~(Len(s) + i <= Len(s))
                           /\ Len(s) + i - Len(s) = i
  BY <1>1
<1>4. /\ s \o t \in Seq(S) /\ Len(s \o t) = Len(s) + Len(t)
      /\ \A i \in 1..Len(s) + Len(t) :
           (s \o t)[i] = IF i <= Len(s) THEN s[i] ELSE t[i - Len(s)]
  BY ConcatProperties
<1>5. ASSUME NEW i \in 1..Len(s)
      PROVE  (s \o t)[i] = s[i]
  BY <1>2, <1>4
<1>6. ASSUME NEW i \in 1..Len(t)
      PROVE  (s \o t)[Len(s) + i] = t[i]
  <2>1. (s \o t)[Len(s) + i] = t[Len(s) + i - Len(s)]
    BY <1>3, <1>4
  <2> QED
    BY <1>3, <2>1
<1> QED
  BY <1>4, <1>5, <1>6

LEMMA ConcatThree ==
    ASSUME NEW S
    PROVE  \A s, t, u \in Seq(S) :
             /\ (s \o t) \o u \in Seq(S)
             /\ Len((s \o t) \o u) = Len(s) + (Len(t) + Len(u))
             /\ \A i \in 1..Len(s) : ((s \o t) \o u)[i] = s[i]
             /\ \A i \in 1..Len(t) : ((s \o t) \o u)[Len(s) + i] = t[i]
             /\ \A i \in 1..Len(u) : ((s \o t) \o u)[Len(s) + (Len(t) + i)] = u[i]
<1> SUFFICES ASSUME NEW s \in Seq(S), NEW t \in Seq(S), NEW u \in Seq(S)
             PROVE  /\ (s \o t) \o u \in Seq(S)
                    /\ Len((s \o t) \o u) = Len(s) + (Len(t) + Len(u))
                    /\ \A i \in 1..Len(s) : ((s \o t) \o u)[i] = s[i]
                    /\ \A i \in 1..Len(t) : ((s \o t) \o u)[Len(s) + i] = t[i]
                    /\ \A i \in 1..Len(u) : ((s \o t) \o u)[Len(s) + (Len(t) + i)] = u[i]
  OBVIOUS
<1>1. PICK w \in Seq(S) : w = s \o t
  BY ConcatAt
<1>2. /\ Len(w) = Len(s) + Len(t)
      /\ \A i \in 1..Len(s) : w[i] = s[i]
      /\ \A i \in 1..Len(t) : w[Len(s) + i] = t[i]
  <2>1. /\ Len(s \o t) = Len(s) + Len(t)
        /\ \A i \in 1..Len(s) : (s \o t)[i] = s[i]
        /\ \A i \in 1..Len(t) : (s \o t)[Len(s) + i] = t[i]
    BY ConcatAt
  <2> QED
    BY Zenon, <1>1, <2>1
<1>3. PICK c \in Seq(S) : c = w \o u
  BY ConcatAt
<1>4. /\ Len(c) = Len(w) + Len(u)
      /\ \A i \in 1..Len(w) : c[i] = w[i]
      /\ \A i \in 1..Len(u) : c[Len(w) + i] = u[i]
  <2>1. /\ Len(w \o u) = Len(w) + Len(u)
        /\ \A i \in 1..Len(w) : (w \o u)[i] = w[i]
        /\ \A i \in 1..Len(u) : (w \o u)[Len(w) + i] = u[i]
    BY ConcatAt
  <2> QED
    BY Zenon, <1>3, <2>1
<1>5. c = (s \o t) \o u
  BY Zenon, <1>1, <1>3
<1>6. Len(s) \in Nat /\ Len(t) \in Nat /\ Len(u) \in Nat
  OBVIOUS
<1>7. Len(c) = Len(s) + (Len(t) + Len(u))
  BY <1>2, <1>4, <1>6
<1>8. ASSUME NEW i \in 1..Len(s)
      PROVE  c[i] = s[i]
  <2>1. i \in 1..Len(w)
    BY <1>2, <1>6
  <2> QED
    BY <1>2, <1>4, <2>1
<1>9. ASSUME NEW i \in 1..Len(t)
      PROVE  c[Len(s) + i] = t[i]
  <2>1. Len(s) + i \in 1..Len(w)
    BY <1>2, <1>6
  <2> QED
    BY <1>2, <1>4, <2>1
<1>10. ASSUME NEW i \in 1..Len(u)
       PROVE  c[Len(s) + (Len(t) + i)] = u[i]
  <2>1. Len(w) + i = Len(s) + (Len(t) + i)
    BY <1>2, <1>6
  <2> QED
    BY <1>4, <2>1
<1> QED
  BY Zenon, <1>5, <1>7, <1>8, <1>9, <1>10

\* A process that starts knows nothing and has been told nothing.
LEMMA FreshStream ==
    ASSUME NEW N, NEW O, NoObject \in O, NEW objects \in [N -> O]
    PROVE  /\ StreamOK(Stream(objects), N, O)
           /\ Replay(Stream(objects), [i \in {0} |-> [x \in N |-> NoObject]], N, O)
<1>1. DOMAIN objects = N /\ Len(<< >>) = 0 /\ 0..0 = {0} /\ 1..0 = {}
  OBVIOUS
<1>2. [x \in N |-> NoObject] \in [N -> O]
  OBVIOUS
<1> QED
  BY <1>1, <1>2 DEF Stream, StreamOK, Replay, Tells

\* Losing the watch loses no notification that is pending.
LEMMA LoseStream ==
    ASSUME NEW N, NEW O, NEW s, StreamOK(s, N, O), s.watch = "on"
    PROVE  /\ StreamOK(Lose(s), N, O)
           /\ \A v : Replay(s, v, N, O) => Replay(Lose(s), v, N, O)
<1>1. Lose(s).events = s.events /\ Lose(s).known = s.known
  BY DEF Lose, StreamOK
<1>2. StreamOK(Lose(s), N, O)
  BY DEF Lose, StreamOK
<1> QED
  BY <1>1, <1>2 DEF Replay, Tells

\* The next notification is handled: then a handler was told more by it.
Passed(n, v, w) ==
    /\ Tells(n, v[0], w[0])
    /\ \A i \in DOMAIN w : \E j \in DOMAIN v : w[i] = v[j]

\* The next notification is about what a handler was told last.
LEMMA TakeStream ==
    ASSUME NEW N, NEW O, NEW s, StreamOK(s, N, O), s.events # << >>,
           NEW v, Replay(s, v, N, O)
    PROVE  /\ Head(s.events) \in [name : N, old : O, new : O, tombstone : BOOLEAN]
           /\ StreamOK([s EXCEPT !.events = Tail(@)], N, O)
           /\ \E w : /\ Replay([s EXCEPT !.events = Tail(@)], w, N, O)
                    /\ Passed(Head(s.events), v, w)
<1> DEFINE E == [name : N, old : O, new : O, tombstone : BOOLEAN]
           e == s.events
           n == Head(e)
           t == [s EXCEPT !.events = Tail(@)]
           w == [i \in 0..Len(Tail(e)) |-> v[i + 1]]
<1>1. e \in Seq(E) /\ Len(e) \in Nat \ {0}
  BY DEF StreamOK
<1>2. /\ n = e[1] /\ n \in E /\ Tail(e) \in Seq(E) /\ Len(Tail(e)) = Len(e) - 1
      /\ \A i \in 1..Len(Tail(e)) : Tail(e)[i] = e[i + 1]
  <2> HIDE DEF E
  <2>1. e[1] \in E /\ Head(e) = e[1] /\ Tail(e) \in Seq(E)
    BY <1>1
  <2>2. Len(Tail(e)) = Len(e) - 1 /\ \A i \in 1..Len(Tail(e)) : Tail(e)[i] = e[i + 1]
    BY <1>1
  <2> QED
    BY <2>1, <2>2
<1>3. /\ n.name \in N /\ n.old \in O /\ n.new \in O /\ n.old = v[0][n.name]
      /\ n.old # NoObject \/ n.new # NoObject
      /\ v[1] = [v[0] EXCEPT ![n.name] = n.new]
  <2>1. 1 \in 1..Len(e) /\ 1 - 1 = 0
    BY <1>1
  <2>2. /\ e[1].old = v[0][e[1].name] /\ v[1] = [v[0] EXCEPT ![e[1].name] = e[1].new]
        /\ e[1].old # NoObject \/ e[1].new # NoObject
    BY <2>1 DEF Replay, Tells
  <2> QED
    BY <1>2, <2>2
<1>4. /\ t.events = Tail(e) /\ t.known = s.known /\ t.watch = s.watch
      /\ StreamOK(t, N, O)
  BY <1>1, <1>2 DEF StreamOK
<1>5. \A i \in DOMAIN w : i + 1 \in DOMAIN v /\ w[i] = v[i + 1]
  BY <1>1, <1>2 DEF Replay, Tells
<1>6. w[0] = v[1]
  BY <1>1, <1>2
<1>7. Replay(t, w, N, O)
  <2>1. w \in [0..Len(Tail(e)) -> [N -> O]]
    BY <1>1, <1>2, <1>5 DEF Replay, Tells
  <2>2. w[Len(Tail(e))] = s.known
    BY <1>1, <1>2 DEF Replay, Tells
  <2>3. ASSUME NEW i \in 1..Len(Tail(e))
        PROVE  LET m == Tail(e)[i]
               IN  /\ m.old = w[i - 1][m.name]
                   /\ w[i] = [w[i - 1] EXCEPT ![m.name] = m.new]
                   /\ m.old # NoObject \/ m.new # NoObject
    <3>1. i + 1 \in 1..Len(e) /\ i + 1 - 1 = i /\ i \in Nat /\ i - 1 \in 0..Len(Tail(e)) /\ i - 1 + 1 = i
      BY <1>1, <1>2
    <3>2. w[i] = v[i + 1] /\ w[i - 1] = v[i] /\ Tail(e)[i] = e[i + 1]
      BY <1>2, <3>1
    <3>3. /\ e[i + 1].old = v[i + 1 - 1][e[i + 1].name]
          /\ v[i + 1] = [v[i + 1 - 1] EXCEPT ![e[i + 1].name] = e[i + 1].new]
          /\ e[i + 1].old # NoObject \/ e[i + 1].new # NoObject
      <4> DEFINE j == i + 1
      <4>1. j \in 1..Len(s.events)
        BY <3>1
      <4> HIDE DEF j
      <4>2. /\ s.events[j].old = v[j - 1][s.events[j].name]
            /\ v[j] = [v[j - 1] EXCEPT ![s.events[j].name] = s.events[j].new]
            /\ s.events[j].old # NoObject \/ s.events[j].new # NoObject
        BY <4>1 DEF Replay, Tells
      <4> QED
        BY <4>2 DEF j
    <3> QED
      BY <3>1, <3>2, <3>3
  <2> QED
    BY <1>4, <2>1, <2>2, <2>3 DEF Replay, Tells
<1>8. Passed(n, v, w)
  <2>1. Tells(n, v[0], w[0])
    BY <1>3, <1>6 DEF Tells
  <2> QED
    BY <1>5, <2>1 DEF Passed
<1> HIDE DEF w
<1>9. \E u : Replay(t, u, N, O) /\ Passed(n, v, u)
  <2> HIDE DEF t, n
  <2> QED
    BY <1>7, <1>8
<1> QED
  BY <1>2, <1>4, <1>9

\* How what a handler is going to be told changes with it: not in what it was
\* told, and to nothing but what some object was before or is now; as long as
\* no watch was lost it was at any time as the API server has it now or as it
\* was, or parts of the first list.
Carried(s, t, v, w, N) ==
    /\ w[0] = v[0]
    /\ \A i \in DOMAIN w, x \in N : \/ \E j \in DOMAIN v : w[i][x] = v[j][x]
                                    \/ w[i][x] \in {s.api[x], t.api[x]}
    /\ t.intact => /\ s.intact
                   /\ \A i \in DOMAIN w : \/ \E j \in DOMAIN v : w[i] = v[j]
                                          \/ \A x \in N : w[i][x] \in {NoObject, t.api[x]}

\* The view after a notification is appended.
Extend(v, m, x) == [i \in 0..m + 1 |-> IF i <= m THEN v[i] ELSE x]

\* A change that is watched is told as one from what the informer knows.
LEMMA WriteStream ==
    ASSUME NEW N, NEW O, NEW s, StreamOK(s, N, O), NEW v, Replay(s, v, N, O),
           NEW x \in N, NEW obj \in O, obj # NoObject \/ s.api[x] # NoObject
    PROVE  /\ StreamOK(Write(s, x, obj), N, O)
           /\ \E w : Replay(Write(s, x, obj), w, N, O) /\ Carried(s, Write(s, x, obj), v, w, N)
<1> DEFINE E == [name : N, old : O, new : O, tombstone : BOOLEAN]
           e == s.events
           t == Write(s, x, obj)
           n == Note(x, s.known[x], obj, FALSE)
           m == Len(e)
           w == Extend(v, m, [s.known EXCEPT ![x] = obj])
<1>1. s.api \in [N -> O] /\ s.known \in [N -> O] /\ e \in Seq(E) /\ m \in Nat
  BY DEF StreamOK
<1>2. CASE s.watch # "on"
  <2>1. /\ t.events = e /\ t.known = s.known /\ StreamOK(t, N, O) /\ t.watch = s.watch
        /\ t.api = [s.api EXCEPT ![x] = obj] /\ t.intact = s.intact
    BY <1>2 DEF Write, StreamOK
  <2>2. Replay(t, v, N, O)
    BY <2>1 DEF Replay, Tells
  <2>3. Carried(s, t, v, v, N)
    BY <2>1 DEF Carried
  <2> QED
    BY <2>1, <2>2, <2>3
<1>3. CASE s.watch = "on"
  <2>1. s.known = s.api
    BY <1>3 DEF StreamOK
  <2>2. n \in E
    BY <1>1 DEF Note
  <2>3. /\ Append(e, n) \in Seq(E) /\ Len(Append(e, n)) = m + 1 /\ Append(e, n)[m + 1] = n
        /\ \A i \in 1..m : Append(e, n)[i] = e[i]
    <3> HIDE DEF n, E
    <3> QED
      BY <1>1, <2>2
  <2>4. t = [s EXCEPT !.api[x] = obj, !.known[x] = obj, !.events = Append(@, n)]
    BY <1>3 DEF Write
  <2>5. /\ t.api = [s.api EXCEPT ![x] = obj] /\ t.known = [s.known EXCEPT ![x] = obj]
        /\ t.events = Append(e, n) /\ t.watch = s.watch /\ t.intact = s.intact
        /\ StreamOK(t, N, O)
    <3> HIDE DEF n, t
    <3> QED
      BY <1>1, <1>3, <2>1, <2>3, <2>4 DEF StreamOK
  <2>6. v \in [0..m -> [N -> O]] /\ v[m] = s.known
    BY DEF Replay, Tells
  <2>7. /\ w \in [0..m + 1 -> [N -> O]] /\ w[m + 1] = t.known
        /\ \A i \in 0..m : w[i] = v[i]
    BY <1>1, <2>5, <2>6 DEF Extend
  <2>8. Replay(t, w, N, O)
    <3>1. ASSUME NEW i \in 1..m
          PROVE  /\ e[i].old = w[i - 1][e[i].name]
                 /\ w[i] = [w[i - 1] EXCEPT ![e[i].name] = e[i].new]
                 /\ e[i].old # NoObject \/ e[i].new # NoObject
      <4>1. i \in 0..m /\ i - 1 \in 0..m
        BY <1>1
      <4>2. w[i] = v[i] /\ w[i - 1] = v[i - 1]
        BY <2>7, <4>1
      <4>3. /\ e[i].old = v[i - 1][e[i].name]
            /\ v[i] = [v[i - 1] EXCEPT ![e[i].name] = e[i].new]
            /\ e[i].old # NoObject \/ e[i].new # NoObject
        BY DEF Replay, Tells
      <4> QED
        BY <4>2, <4>3
    <3>2. /\ n.old = w[m][n.name] /\ w[m + 1] = [w[m] EXCEPT ![n.name] = n.new]
          /\ n.old # NoObject \/ n.new # NoObject
      <4>1. w[m] = s.known /\ w[m + 1] = [s.known EXCEPT ![x] = obj]
        <5>1. m \in 0..m
          BY <1>1
        <5> HIDE DEF n, w, m, t
        <5> QED
          BY <2>5, <2>6, <2>7, <5>1
      <4>2. n.name = x /\ n.old = s.known[x] /\ n.new = obj
        BY DEF Note
      <4> HIDE DEF n, w, m
      <4> QED
        BY <2>1, <4>1, <4>2
    <3>3. \A i \in 1..m + 1 : i \in 1..m \/ (i = m + 1 /\ i - 1 = m)
      BY <1>1
    <3> HIDE DEF n, w, t, m
    <3>4. t.events[m + 1] = n /\ Len(t.events) = m + 1 /\ \A i \in 1..m : t.events[i] = e[i]
      BY <2>3, <2>5
    <3>5. ASSUME NEW i \in 1..m + 1
          PROVE  /\ t.events[i].old = w[i - 1][t.events[i].name]
                 /\ w[i] = [w[i - 1] EXCEPT ![t.events[i].name] = t.events[i].new]
                 /\ t.events[i].old # NoObject \/ t.events[i].new # NoObject
      <4>1. CASE i \in 1..m
        BY <3>1, <3>4, <4>1
      <4>2. CASE i = m + 1 /\ i - 1 = m
        BY <3>2, <3>4, <4>2
      <4> QED
        BY <3>3, <4>1, <4>2
    <3> QED
      BY <2>7, <3>4, <3>5 DEF Replay, Tells
  <2>9. w[0] = v[0]
    BY <1>1, <2>7
  <2>10. \A i \in DOMAIN w : \/ i \in DOMAIN v /\ w[i] = v[i]
                             \/ w[i] = t.api
    <3>1. t.known = t.api
      BY <2>1, <2>5
    <3>2. \A i \in 0..m + 1 : i \in 0..m \/ i = m + 1
      BY <1>1
    <3> HIDE DEF w, t, m
    <3> QED
      BY <2>6, <2>7, <3>1, <3>2
  <2>11. Carried(s, t, v, w, N)
    <3> HIDE DEF w, t
    <3> QED
      BY <2>5, <2>9, <2>10 DEF Carried
  <2> HIDE DEF w, t
  <2>12. \E u : Replay(t, u, N, O) /\ Carried(s, t, v, u, N)
    BY <2>8, <2>11
  <2> QED
    BY <2>5, <2>12 DEF t
<1> QED
  BY <1>2, <1>3

\* An order of a finite set is a sequence that names each of its members once.
LEMMA OrderOnce ==
    ASSUME NEW S, IsFiniteSet(S), NEW f \in Orders(S)
    PROVE  /\ f \in [1..Cardinality(S) -> S] /\ Cardinality(S) \in Nat
           /\ \A x \in S : \E i \in 1..Cardinality(S) : f[i] = x
           /\ \A i, j \in 1..Cardinality(S) : f[i] = f[j] => i = j
<1>1. /\ f \in [1..Cardinality(S) -> S]
      /\ \A x \in S : \E i \in 1..Cardinality(S) : f[i] = x
  BY DEF Orders
<1>2. Cardinality(S) \in Nat
  BY FS_CardinalityType
<1>3. f \in Surjection(1..Cardinality(S), S)
  BY <1>1 DEF Surjection
<1>4. IsFiniteSet(1..Cardinality(S)) /\ Cardinality(1..Cardinality(S)) = Cardinality(S)
  BY <1>2, FS_Interval
<1>5. f \in Injection(1..Cardinality(S), S)
  BY <1>3, <1>4, FS_SurjSameCardinalityImpliesInj
<1> QED
  BY <1>1, <1>2, <1>5 DEF Injection, IsInjective

\* A list adds one notification for each object that exists or was known, and
\* it says what the object was known to be and what it is.
NotesOf(s, t, N, p, h) ==
    /\ \A i, j \in 1..p : h[i] = h[j] => i = j
    /\ \A x \in N : (s.api[x] # NoObject \/ s.known[x] # NoObject)
                    <=> \E i \in 1..p : h[i] = x
    /\ Len(t.events) = Len(s.events) + p
    /\ \A i \in 1..Len(s.events) : t.events[i] = s.events[i]
    /\ \A j \in 1..p : LET n == t.events[Len(s.events) + j]
                       IN n.name = h[j] /\ n.old = s.known[h[j]] /\ n.new = s.api[h[j]]

LEMMA ListNotes ==
    ASSUME NEW N, IsFiniteSet(N), NEW O, NoObject \in O, NEW s, StreamOK(s, N, O),
           NEW t \in Lists(s)
    PROVE  /\ t = [s EXCEPT !.known = s.api, !.watch = "on", !.events = t.events]
           /\ t.events \in Seq([name : N, old : O, new : O, tombstone : BOOLEAN])
           /\ \E p \in Nat : \E h \in [1..p -> N] : NotesOf(s, t, N, p, h)
<1> DEFINE E == [name : N, old : O, new : O, tombstone : BOOLEAN]
           e == s.events
           A == Live(s.api)
           B == Live(s.known) \ Live(s.api)
           a == Cardinality(A)
           b == Cardinality(B)
<1>1. s.api \in [N -> O] /\ s.known \in [N -> O] /\ e \in Seq(E) /\ Len(e) \in Nat
  BY DEF StreamOK
<1>2. /\ A \subseteq N /\ B \subseteq N /\ A \cap B = {}
      /\ \A x \in N : (s.api[x] # NoObject \/ s.known[x] # NoObject) <=> x \in A \cup B
      /\ \A x \in B : s.api[x] = NoObject
  BY <1>1 DEF Live
<1>3. IsFiniteSet(A) /\ IsFiniteSet(B)
  BY <1>2, FS_Subset
<1>4. PICK f \in Orders(A), g \in Orders(B) : t = Listed(s, f, g)
  BY DEF Lists
<1>5. /\ f \in [1..a -> A] /\ a \in Nat
      /\ \A x \in A : \E i \in 1..a : f[i] = x
      /\ \A i, j \in 1..a : f[i] = f[j] => i = j
  BY <1>3, OrderOnce
<1>6. /\ g \in [1..b -> B] /\ b \in Nat
      /\ \A x \in B : \E i \in 1..b : g[i] = x
      /\ \A i, j \in 1..b : g[i] = g[j] => i = j
  BY <1>3, OrderOnce
<1> DEFINE F == [i \in 1..a |-> Note(f[i], s.known[f[i]], s.api[f[i]], FALSE)]
           G == [i \in 1..b |-> Note(g[i], s.known[g[i]], NoObject, TRUE)]
           h == [i \in 1..a + b |-> IF i <= a THEN f[i] ELSE g[i - a]]
<1>7. \A i \in 1..a : F[i] \in E
  BY <1>1, <1>2, <1>5 DEF Note
<1>8. \A i \in 1..b : G[i] \in E
  BY <1>1, <1>2, <1>6 DEF Note
<1>9. F \in Seq(E) /\ Len(F) = a /\ G \in Seq(E) /\ Len(G) = b
  <2>1. F \in [1..a -> E] /\ G \in [1..b -> E]
    BY <1>7, <1>8
  <2> HIDE DEF F, G, E, a, b
  <2> QED
    BY <1>5, <1>6, <2>1, FunctionSeq
<1>10. t = [s EXCEPT !.known = s.api, !.watch = "on", !.events = (@ \o F) \o G]
  <2>1. DOMAIN f = 1..a /\ DOMAIN g = 1..b
    BY <1>5, <1>6
  <2> QED
    BY <1>4, <2>1 DEF Listed
<1>10a. t.events = (e \o F) \o G
  BY <1>10 DEF StreamOK
<1>11. /\ (e \o F) \o G \in Seq(E) /\ Len((e \o F) \o G) = Len(e) + (a + b)
       /\ \A i \in 1..Len(e) : ((e \o F) \o G)[i] = e[i]
       /\ \A i \in 1..a : ((e \o F) \o G)[Len(e) + i] = F[i]
       /\ \A i \in 1..b : ((e \o F) \o G)[Len(e) + (a + i)] = G[i]
  <2> HIDE DEF F, G, E, e
  <2>1. \A x, y, z \in Seq(E) :
          /\ (x \o y) \o z \in Seq(E)
          /\ Len((x \o y) \o z) = Len(x) + (Len(y) + Len(z))
          /\ \A i \in 1..Len(x) : ((x \o y) \o z)[i] = x[i]
          /\ \A i \in 1..Len(y) : ((x \o y) \o z)[Len(x) + i] = y[i]
          /\ \A i \in 1..Len(z) : ((x \o y) \o z)[Len(x) + (Len(y) + i)] = z[i]
    BY ConcatThree
  <2>2. /\ (e \o F) \o G \in Seq(E)
        /\ Len((e \o F) \o G) = Len(e) + (Len(F) + Len(G))
        /\ \A i \in 1..Len(e) : ((e \o F) \o G)[i] = e[i]
        /\ \A i \in 1..Len(F) : ((e \o F) \o G)[Len(e) + i] = F[i]
        /\ \A i \in 1..Len(G) : ((e \o F) \o G)[Len(e) + (Len(F) + i)] = G[i]
    BY Zenon, <1>1, <1>9, <2>1
  <2> HIDE DEF a, b
  <2> QED
    BY Zenon, <1>9, <2>2
<1>12. t = [s EXCEPT !.known = s.api, !.watch = "on", !.events = t.events]
  BY <1>10, <1>10a DEF StreamOK
<1>13. h \in [1..a + b -> N]
  <2>1. \A i \in 1..a + b : i <= a => i \in 1..a
    BY <1>5, <1>6
  <2>2. \A i \in 1..a + b : ~(i <= a) => i - a \in 1..b
    BY <1>5, <1>6
  <2> HIDE DEF a, b
  <2> QED
    BY <1>2, <1>5, <1>6, <2>1, <2>2
<1>14. \A i, j \in 1..a + b : h[i] = h[j] => i = j
  <2> SUFFICES ASSUME NEW i \in 1..a + b, NEW j \in 1..a + b, h[i] = h[j]
               PROVE  i = j
    OBVIOUS
  <2> HIDE DEF a, b, A, B
  <2>1. CASE i <= a /\ j <= a
    BY <1>5, <1>6, <2>1
  <2>2. CASE ~(i <= a) /\ ~(j <= a)
    <3>1. i - a \in 1..b /\ j - a \in 1..b /\ h[i] = g[i - a] /\ h[j] = g[j - a]
      BY <1>5, <1>6, <2>2
    <3>2. i - a = j - a
      BY <1>6, <3>1
    <3> QED
      BY <1>5, <1>6, <3>2
  <2>3. CASE i <= a /\ ~(j <= a)
    <3>1. h[i] \in A /\ h[j] \in B
      BY <1>5, <1>6, <2>3
    <3> QED
      BY <1>2, <3>1
  <2>4. CASE ~(i <= a) /\ j <= a
    <3>1. h[i] \in B /\ h[j] \in A
      BY <1>5, <1>6, <2>4
    <3> QED
      BY <1>2, <3>1
  <2> QED
    BY <2>1, <2>2, <2>3, <2>4
<1>15. \A x \in N : x \in A \cup B <=> \E i \in 1..a + b : h[i] = x
  <2> SUFFICES ASSUME NEW x \in N
               PROVE  x \in A \cup B <=> \E i \in 1..a + b : h[i] = x
    OBVIOUS
  <2> HIDE DEF a, b, A, B
  <2>1. CASE x \in A
    <3>1. PICK i \in 1..a : f[i] = x
      BY <1>5, <2>1
    <3>2. i \in 1..a + b /\ h[i] = x
      BY <1>5, <1>6, <3>1
    <3> QED
      BY <2>1, <3>2
  <2>2. CASE x \in B
    <3>1. PICK i \in 1..b : g[i] = x
      BY <1>6, <2>2
    <3>2. a + i \in 1..a + b /\ h[a + i] = x
      BY <1>5, <1>6, <3>1
    <3> QED
      BY <2>2, <3>2
  <2>3. ASSUME NEW i \in 1..a + b, h[i] = x
        PROVE  x \in A \cup B
    BY <1>5, <1>6, <2>3
  <2> QED
    BY <2>1, <2>2, <2>3
<1>16. ASSUME NEW j \in 1..a + b
       PROVE  LET n == t.events[Len(e) + j]
              IN  n.name = h[j] /\ n.old = s.known[h[j]] /\ n.new = s.api[h[j]]
  <2>1. CASE j <= a
    <3>1. j \in 1..a /\ h[j] = f[j]
      BY <1>5, <1>6, <2>1
    <3>2. t.events[Len(e) + j] = F[j]
      BY <1>10a, <1>11, <3>1
    <3>3. F[j].name = f[j] /\ F[j].old = s.known[f[j]] /\ F[j].new = s.api[f[j]]
      BY <3>1 DEF Note
    <3> HIDE DEF F, h, a, b
    <3> QED
      BY <3>1, <3>2, <3>3
  <2>2. CASE ~(j <= a)
    <3> DEFINE k == j - a
    <3>1. k \in 1..b /\ a + k = j /\ h[j] = g[k]
      BY <1>5, <1>6, <2>2
    <3>2. t.events[Len(e) + j] = G[k]
      <4> HIDE DEF a, b, k, G, F
      <4> QED
        BY <1>10a, <1>11, <3>1
    <3>3. G[k].name = g[k] /\ G[k].old = s.known[g[k]] /\ G[k].new = s.api[g[k]]
      BY <1>2, <1>6, <3>1 DEF Note
    <3> HIDE DEF G, h, a, b, k
    <3> QED
      BY <3>1, <3>2, <3>3
  <2> QED
    BY <2>1, <2>2
<1>17. a + b \in Nat
  BY <1>5, <1>6
<1>18. /\ t.events \in Seq(E) /\ Len(t.events) = Len(e) + (a + b)
       /\ \A i \in 1..Len(e) : t.events[i] = e[i]
  BY <1>10a, <1>11
<1>19. \A x \in N : (s.api[x] # NoObject \/ s.known[x] # NoObject)
                   <=> \E i \in 1..a + b : h[i] = x
  <2> HIDE DEF h, a, b, A, B
  <2> QED
    BY <1>2, <1>15
<1>20. /\ \A i, j \in 1..a + b : h[i] = h[j] => i = j
       /\ \A x \in N : (s.api[x] # NoObject \/ s.known[x] # NoObject)
                       <=> \E i \in 1..a + b : h[i] = x
       /\ Len(t.events) = Len(e) + (a + b)
       /\ \A i \in 1..Len(e) : t.events[i] = e[i]
       /\ \A j \in 1..a + b : LET n == t.events[Len(e) + j]
                              IN  /\ n.name = h[j] /\ n.old = s.known[h[j]]
                                  /\ n.new = s.api[h[j]]
  <2> HIDE DEF h, a, b
  <2> QED
    BY <1>14, <1>16, <1>18, <1>19
<1> DEFINE c == a + b
<1> HIDE DEF h, a, b, F, G, A, B
<1>21. c \in Nat /\ h \in [1..c -> N]
  BY <1>13, <1>17
<1>22. NotesOf(s, t, N, c, h)
  BY <1>20 DEF NotesOf
<1>23. \E p \in Nat : \E k \in [1..p -> N] : NotesOf(s, t, N, p, k)
  BY Zenon, <1>21, <1>22
<1> QED
  BY <1>12, <1>18, <1>23

\* What a handler was told after the first k notifications of a list in the
\* order h.
Told(s, N, h, k) ==
    [x \in N |-> IF \E j \in 1..k : h[j] = x THEN s.api[x] ELSE s.known[x]]

ToldAll(s, N, O, p, h) ==
    /\ Told(s, N, h, 0) = s.known
    /\ Told(s, N, h, p) = s.api
    /\ \A k \in 0..p : Told(s, N, h, k) \in [N -> O]
    /\ \A k \in 1..p : /\ Told(s, N, h, k - 1)[h[k]] = s.known[h[k]]
                       /\ Told(s, N, h, k)
                          = [Told(s, N, h, k - 1) EXCEPT ![h[k]] = s.api[h[k]]]

LEMMA ToldStep ==
    ASSUME NEW N, NEW O, NoObject \in O, NEW s, StreamOK(s, N, O),
           NEW p \in Nat, NEW h \in [1..p -> N],
           \A i, j \in 1..p : h[i] = h[j] => i = j,
           \A x \in N : (s.api[x] # NoObject \/ s.known[x] # NoObject)
                        => \E i \in 1..p : h[i] = x
    PROVE  ToldAll(s, N, O, p, h)
<1>1. s.api \in [N -> O] /\ s.known \in [N -> O]
  BY DEF StreamOK
<1>2. Told(s, N, h, 0) = s.known
  <2>1. \A j \in 1..0 : FALSE
    OBVIOUS
  <2> QED
    BY <1>1, <2>1 DEF Told
<1>3. Told(s, N, h, p) = s.api
  <2>1. \A x \in N : ~(\E i \in 1..p : h[i] = x) => s.known[x] = s.api[x]
    OBVIOUS
  <2> QED
    BY <1>1, <2>1 DEF Told
<1>4. \A k \in 0..p : Told(s, N, h, k) \in [N -> O]
  BY <1>1 DEF Told
<1>5. ASSUME NEW k \in 1..p
      PROVE  /\ Told(s, N, h, k - 1)[h[k]] = s.known[h[k]]
             /\ Told(s, N, h, k) = [Told(s, N, h, k - 1) EXCEPT ![h[k]] = s.api[h[k]]]
  <2>1. h[k] \in N /\ \A j \in 1..k - 1 : j \in 1..p /\ j # k
    OBVIOUS
  <2>2. ~(\E j \in 1..k - 1 : h[j] = h[k])
    BY <2>1
  <2>3. Told(s, N, h, k - 1)[h[k]] = s.known[h[k]]
    BY <2>1, <2>2 DEF Told
  <2>4. \A j \in 1..k : j \in 1..k - 1 \/ j = k
    OBVIOUS
  <2>5. k \in 1..k /\ \A j \in 1..k - 1 : j \in 1..k
    OBVIOUS
  <2>6. ASSUME NEW x \in N
        PROVE  Told(s, N, h, k)[x]
               = [Told(s, N, h, k - 1) EXCEPT ![h[k]] = s.api[h[k]]][x]
    <3>1. CASE x = h[k]
      <4>1. \E j \in 1..k : h[j] = x
        BY <2>5, <3>1
      <4> QED
        BY <2>1, <3>1, <4>1 DEF Told
    <3>2. CASE x # h[k]
      <4>1. (\E j \in 1..k : h[j] = x) <=> \E j \in 1..k - 1 : h[j] = x
        BY <2>4, <2>5, <3>2
      <4> QED
        BY <3>2, <4>1 DEF Told
    <3> QED
      BY <3>1, <3>2
  <2>7. /\ Told(s, N, h, k) = [x \in N |-> Told(s, N, h, k)[x]]
        /\ [Told(s, N, h, k - 1) EXCEPT ![h[k]] = s.api[h[k]]]
           = [x \in N |-> [Told(s, N, h, k - 1) EXCEPT ![h[k]] = s.api[h[k]]][x]]
    BY DEF Told
  <2> QED
    BY <2>3, <2>6, <2>7
<1> QED
  BY <1>2, <1>3, <1>4, <1>5 DEF ToldAll

\* After a list a handler will be told, object by object, what the API server
\* has; until then it was told what it would have been anyway.
LEMMA ListStream ==
    ASSUME NEW N, IsFiniteSet(N), NEW O, NoObject \in O, NEW s, StreamOK(s, N, O),
           NEW v, Replay(s, v, N, O), s.watch # "on", NEW t \in Lists(s)
    PROVE  /\ StreamOK(t, N, O)
           /\ \E w : Replay(t, w, N, O) /\ Carried(s, t, v, w, N)
<1> DEFINE E == [name : N, old : O, new : O, tombstone : BOOLEAN]
           e == s.events
           m == Len(e)
<1>1. /\ s.api \in [N -> O] /\ s.known \in [N -> O] /\ e \in Seq(E) /\ m \in Nat
      /\ v \in [0..m -> [N -> O]] /\ v[m] = s.known
  BY DEF StreamOK, Replay, Tells
<1>2. /\ t = [s EXCEPT !.known = s.api, !.watch = "on", !.events = t.events]
      /\ t.events \in Seq(E)
      /\ \E p \in Nat : \E h \in [1..p -> N] : NotesOf(s, t, N, p, h)
  BY ListNotes
<1>2a. PICK p \in Nat : \E h \in [1..p -> N] : NotesOf(s, t, N, p, h)
  BY <1>2
<1>2b. PICK h \in [1..p -> N] : NotesOf(s, t, N, p, h)
  BY <1>2a
<1>3. /\ \A i, j \in 1..p : h[i] = h[j] => i = j
      /\ \A x \in N : (s.api[x] # NoObject \/ s.known[x] # NoObject)
                      <=> \E i \in 1..p : h[i] = x
      /\ Len(t.events) = m + p
      /\ \A i \in 1..m : t.events[i] = e[i]
      /\ \A j \in 1..p : LET n == t.events[m + j]
                         IN  /\ n.name = h[j] /\ n.old = s.known[h[j]]
                             /\ n.new = s.api[h[j]]
  BY <1>2b DEF NotesOf
<1>4. /\ StreamOK(t, N, O)
      /\ t.api = s.api /\ t.known = s.api /\ t.watch = "on" /\ t.intact = s.intact
  <2>1. t.events \in Seq(E)
    BY <1>2
  <2>2. t = [s EXCEPT !.known = s.api, !.watch = "on", !.events = t.events]
    BY <1>2
  <2> QED
    BY <2>1, <2>2 DEF StreamOK
<1> DEFINE U(k) == Told(s, N, h, k)
           W(i) == IF i <= m THEN v[i] ELSE U(i - m)
           w == [i \in 0..m + p |-> W(i)]
<1>5. /\ U(0) = s.known /\ U(p) = s.api
      /\ \A k \in 0..p : U(k) \in [N -> O]
      /\ \A k \in 1..p : /\ U(k - 1)[h[k]] = s.known[h[k]]
                         /\ U(k) = [U(k - 1) EXCEPT ![h[k]] = s.api[h[k]]]
  <2>1. \A x \in N : (s.api[x] # NoObject \/ s.known[x] # NoObject)
                     => \E i \in 1..p : h[i] = x
    BY <1>3
  <2>2. \A i, j \in 1..p : h[i] = h[j] => i = j
    BY <1>3
  <2>3. ToldAll(s, N, O, p, h)
    BY <2>1, <2>2, ToldStep
  <2> HIDE DEF m, e, E, w
  <2> QED
    BY <2>3 DEF ToldAll
<1>6. \A k \in 0..p, x \in N : U(k)[x] \in {s.known[x], s.api[x]}
  BY DEF Told
<1> HIDE DEF U, E, m
<1>7. /\ \A i \in 0..m : w[i] = v[i]
      /\ \A k \in 0..p : w[m + k] = U(k)
  <2>1. ASSUME NEW i \in 0..m
        PROVE  w[i] = v[i]
    BY <1>1
  <2>2. ASSUME NEW k \in 0..p
        PROVE  w[m + k] = U(k)
    <3>1. CASE k = 0
      <4>1. m + k = m /\ m \in 0..m + p
        BY <1>1, <3>1
      <4>2. w[m] = v[m]
        BY <1>1, <4>1
      <4> QED
        BY <1>1, <1>5, <3>1, <4>1, <4>2
    <3>2. CASE k # 0
      <4>1. m + k \in 0..m + p /\ ~(m + k <= m) /\ m + k - m = k
        BY <1>1, <3>2
      <4> HIDE DEF W
      <4>2. w[m + k] = W(m + k)
        BY <4>1
      <4>3. W(m + k) = U(k)
        BY <1>1, <4>1 DEF W
      <4> HIDE DEF w
      <4> QED
        BY <4>2, <4>3
    <3> QED
      BY <3>1, <3>2
  <2> QED
    BY <2>1, <2>2
<1>8. \A i \in 0..m + p : i \in 0..m \/ \E k \in 1..p : i = m + k
  <2> SUFFICES ASSUME NEW i \in 0..m + p, ~(i \in 0..m)
               PROVE  \E k \in 1..p : i = m + k
    OBVIOUS
  <2>1. i - m \in 1..p /\ i = m + (i - m)
    BY <1>1
  <2> QED
    BY <2>1
<1>9. w \in [0..m + p -> [N -> O]]
  <2>1. ASSUME NEW i \in 0..m + p
        PROVE  w[i] \in [N -> O]
    <3>1. CASE i \in 0..m
      BY <1>1, <1>7, <3>1
    <3>2. ASSUME NEW k \in 1..p, i = m + k
          PROVE  w[i] \in [N -> O]
      <4>1. k \in 0..p
        OBVIOUS
      <4> HIDE DEF w
      <4> QED
        BY <1>5, <1>7, <3>2, <4>1
    <3> HIDE DEF w
    <3> QED
      BY <1>8, <3>1, <3>2
  <2> QED
    BY <2>1
<1> HIDE DEF w
<1>10. ASSUME NEW i \in 1..m
       PROVE  Tells(t.events[i], w[i - 1], w[i])
  <2>1. i \in 0..m /\ i - 1 \in 0..m
    BY <1>1
  <2>2. Tells(e[i], v[i - 1], v[i])
    BY DEF Replay, m
  <2>3. t.events[i] = e[i] /\ w[i] = v[i] /\ w[i - 1] = v[i - 1]
    BY <1>3, <1>7, <2>1
  <2> QED
    BY <2>2, <2>3
<1>11. ASSUME NEW k \in 1..p
       PROVE  Tells(t.events[m + k], w[m + k - 1], w[m + k])
  <2>1. k \in 0..p /\ k - 1 \in 0..p /\ m + (k - 1) = m + k - 1
    BY <1>1
  <2>2. w[m + k] = U(k) /\ w[m + k - 1] = U(k - 1)
    <3>1. w[m + (k - 1)] = U(k - 1) /\ w[m + k] = U(k)
      BY <1>7, <2>1
    <3> QED
      BY <2>1, <3>1
  <2> DEFINE n == t.events[m + k]
  <2>3. n.name = h[k] /\ n.old = s.known[h[k]] /\ n.new = s.api[h[k]]
    BY <1>3
  <2>4. h[k] \in N /\ (s.api[h[k]] # NoObject \/ s.known[h[k]] # NoObject)
    BY <1>3
  <2>5. U(k - 1)[h[k]] = s.known[h[k]] /\ U(k) = [U(k - 1) EXCEPT ![h[k]] = s.api[h[k]]]
    BY <1>5
  <2> HIDE DEF n
  <2>6. Tells(n, U(k - 1), U(k))
    BY <2>3, <2>4, <2>5 DEF Tells
  <2> QED
    BY <2>2, <2>6 DEF n
<1>12. ASSUME NEW i \in 1..m + p
       PROVE  Tells(t.events[i], w[i - 1], w[i])
  <2>1. i \in 1..m \/ \E k \in 1..p : i = m + k
    <3>1. i \in 0..m + p /\ i # 0 /\ i \in Nat
      BY <1>1
    <3>2. i \in 0..m => i \in 1..m
      BY <1>1, <3>1
    <3> QED
      BY <1>8, <3>1, <3>2
  <2>2. ASSUME NEW k \in 1..p, i = m + k
        PROVE  Tells(t.events[i], w[i - 1], w[i])
    <3>1. /\ Tells(t.events[m + k], w[m + k - 1], w[m + k])
          /\ m \in Nat
      BY <1>1, <1>11
    <3> QED
      BY <2>2, <3>1
  <2> QED
    BY <1>10, <2>1, <2>2
<1>13. w[m + p] = s.api /\ w[0] = v[0]
  <2>1. p \in 0..p /\ 0 \in 0..m
    BY <1>1
  <2> QED
    BY <1>5, <1>7, <2>1
<1>14. Replay(t, w, N, O)
  BY <1>3, <1>4, <1>9, <1>12, <1>13 DEF Replay, Tells
<1>15. ASSUME NEW i \in DOMAIN w
       PROVE  \/ i \in DOMAIN v /\ w[i] = v[i]
              \/ \A x \in N : w[i][x] \in {s.known[x], s.api[x]}
  <2>1. i \in 0..m + p
    BY <1>9
  <2>2. CASE i \in 0..m
    BY <1>1, <1>7, <2>2
  <2>3. ASSUME NEW k \in 1..p, i = m + k
        PROVE  \A x \in N : w[i][x] \in {s.known[x], s.api[x]}
    <3>1. k \in 0..p
      OBVIOUS
    <3>2. w[i] = U(k)
      BY <1>7, <2>3, <3>1
    <3> QED
      BY <1>6, <3>1, <3>2
  <2> QED
    BY <1>8, <2>1, <2>2, <2>3
<1>16. ASSUME s.events = << >>, s.known = [x \in N |-> NoObject],
              NEW i \in DOMAIN w, NEW x \in N
       PROVE  w[i][x] \in {NoObject, s.api[x]}
  <2>1. s.known[x] = NoObject /\ DOMAIN v = {0} /\ v[0] = s.known
    <3>1. m = 0
      BY <1>16 DEF m
    <3> QED
      BY <1>1, <1>16, <3>1
  <2>2. \/ i \in DOMAIN v /\ w[i] = v[i]
        \/ \A y \in N : w[i][y] \in {s.known[y], s.api[y]}
    BY <1>15
  <2> QED
    BY <2>1, <2>2
<1>17. t.intact => s.intact /\ s.events = << >> /\ s.known = [x \in N |-> NoObject]
  BY <1>4 DEF StreamOK
<1>18. Len(s.events) \in DOMAIN v /\ v[Len(s.events)] = s.known
  BY <1>1 DEF m
<1>19. Carried(s, t, v, w, N)
  <2>1. \A i \in DOMAIN w, x \in N : \/ \E j \in DOMAIN v : w[i][x] = v[j][x]
                                     \/ w[i][x] \in {s.api[x], t.api[x]}
    BY <1>15, <1>18
  <2>2. t.intact => \A i \in DOMAIN w : \A x \in N : w[i][x] \in {NoObject, t.api[x]}
    BY <1>4, <1>16, <1>17
  <2> QED
    BY <1>13, <1>17, <2>1, <2>2 DEF Carried
<1> QED
  BY <1>4, <1>14, <1>19

\* What may become of a stream other than that a notification is handled or
\* that the process ends.
Moves(s, t, N, O) ==
    \/ t = s
    \/ \E x \in N, obj \in O : /\ obj # NoObject \/ s.api[x] # NoObject
                               /\ t = Write(s, x, obj)
    \/ s.watch = "on" /\ t = Lose(s)
    \/ s.watch # "on" /\ t \in Lists(s)

LEMMA MovesStream ==
    ASSUME NEW N, IsFiniteSet(N), NEW O, NoObject \in O, NEW s, StreamOK(s, N, O),
           NEW v, Replay(s, v, N, O), NEW t, Moves(s, t, N, O)
    PROVE  StreamOK(t, N, O) /\ \E w : Replay(t, w, N, O) /\ Carried(s, t, v, w, N)
<1>1. CASE t = s
  <2>1. Carried(s, t, v, v, N)
    BY <1>1 DEF Carried
  <2> QED
    BY <1>1, <2>1
<1>2. ASSUME NEW x \in N, NEW obj \in O, obj # NoObject \/ s.api[x] # NoObject,
             t = Write(s, x, obj)
      PROVE  StreamOK(t, N, O) /\ \E w : Replay(t, w, N, O) /\ Carried(s, t, v, w, N)
  BY <1>2, WriteStream
<1>3. CASE s.watch = "on" /\ t = Lose(s)
  <2>1. StreamOK(t, N, O) /\ Replay(t, v, N, O)
    BY <1>3, LoseStream
  <2>2. ~t.intact
    BY <1>3 DEF Lose, StreamOK
  <2>3. Carried(s, t, v, v, N)
    BY <2>2 DEF Carried
  <2> QED
    BY <2>1, <2>3
<1>4. CASE s.watch # "on" /\ t \in Lists(s)
  BY <1>4, ListStream
<1> QED
  BY <1>1, <1>2, <1>3, <1>4 DEF Moves

\* What a notification is about: as it was told before, or as it is now.
LEMMA MovesTell ==
    ASSUME NEW N, IsFiniteSet(N), NEW O, NoObject \in O, NEW s, StreamOK(s, N, O),
           NEW t, Moves(s, t, N, O)
    PROVE  \A i \in 1..Len(t.events) :
             \/ \E j \in 1..Len(s.events) : t.events[i] = s.events[j]
             \/ t.events[i].new = t.api[t.events[i].name]
<1>1. /\ s.events \in Seq([name : N, old : O, new : O, tombstone : BOOLEAN])
      /\ s.api \in [N -> O] /\ Len(s.events) \in Nat
  BY DEF StreamOK
<1>2. CASE t = s \/ t = Lose(s)
  BY <1>2 DEF Lose, StreamOK
<1>3. ASSUME NEW x \in N, NEW obj \in O, t = Write(s, x, obj)
      PROVE  \A i \in 1..Len(t.events) :
               \/ \E j \in 1..Len(s.events) : t.events[i] = s.events[j]
               \/ t.events[i].new = t.api[t.events[i].name]
  <2>1. t.api[x] = obj
    BY <1>1, <1>3 DEF Write, StreamOK
  <2>2. CASE s.watch = "on"
    <3>1. t.events = Append(s.events, Note(x, s.known[x], obj, FALSE))
      BY <1>3, <2>2 DEF Write, StreamOK
    <3>2. PICK n : n = Note(x, s.known[x], obj, FALSE)
      OBVIOUS
    <3>3. n.name = x /\ n.new = obj
      BY <3>2 DEF Note
    <3>4. n \in [name : N, old : O, new : O, tombstone : BOOLEAN]
      BY <3>2 DEF Note, StreamOK
    <3>5. /\ Len(t.events) = Len(s.events) + 1
          /\ \A i \in 1..Len(s.events) : t.events[i] = s.events[i]
          /\ t.events[Len(s.events) + 1] = n
      <4> DEFINE E == [name : N, old : O, new : O, tombstone : BOOLEAN]
      <4>1. s.events \in Seq(E) /\ n \in E
        BY <1>1, <3>4
      <4> HIDE DEF E
      <4>2. PICK e \in Seq(E) : e = s.events
        BY <4>1
      <4>3. /\ Len(Append(e, n)) = Len(e) + 1 /\ Append(e, n)[Len(e) + 1] = n
            /\ \A i \in 1..Len(e) : Append(e, n)[i] = e[i]
        BY <4>1, AppendProperties
      <4>4. t.events = Append(e, n)
        BY <3>1, <3>2, <4>2
      <4> QED
        BY <4>2, <4>3, <4>4
    <3>6. ASSUME NEW i \in 1..Len(t.events)
          PROVE  i \in 1..Len(s.events) \/ i = Len(s.events) + 1
      BY <1>1, <3>5
    <3> QED
      BY <2>1, <3>3, <3>5, <3>6
  <2>3. CASE s.watch # "on"
    BY <1>3, <2>3 DEF Write, StreamOK
  <2> QED
    BY <2>2, <2>3
<1>4. CASE t \in Lists(s)
  <2>1. /\ t = [s EXCEPT !.known = s.api, !.watch = "on", !.events = t.events]
        /\ \E p \in Nat : \E h \in [1..p -> N] : NotesOf(s, t, N, p, h)
    <3>1. ASSUME NEW u \in Lists(s)
          PROVE  /\ u = [s EXCEPT !.known = s.api, !.watch = "on", !.events = u.events]
                 /\ u.events \in Seq([name : N, old : O, new : O, tombstone : BOOLEAN])
                 /\ \E p \in Nat : \E h \in [1..p -> N] : NotesOf(s, u, N, p, h)
      BY ListNotes
    <3> QED
      BY <1>4, <3>1
  <2>2. PICK p \in Nat : \E h \in [1..p -> N] : NotesOf(s, t, N, p, h)
    BY <2>1
  <2>3. PICK h \in [1..p -> N] : NotesOf(s, t, N, p, h)
    BY <2>2
  <2>4. t.api = s.api
    BY <2>1 DEF StreamOK
  <2>5. ASSUME NEW i \in 1..Len(t.events), i \notin 1..Len(s.events)
        PROVE  t.events[i].new = t.api[t.events[i].name]
    <3>1. PICK j \in 1..p : i = Len(s.events) + j
      <4>1. Len(t.events) = Len(s.events) + p
        BY <2>3 DEF NotesOf
      <4>2. i - Len(s.events) \in 1..p /\ i = Len(s.events) + (i - Len(s.events))
        BY <1>1, <2>5, <4>1
      <4> QED
        BY <4>2
    <3>2. t.events[i].name = h[j] /\ t.events[i].new = s.api[h[j]]
      BY <2>3, <3>1 DEF NotesOf
    <3> QED
      BY <2>4, <3>2
  <2>6. \A i \in 1..Len(s.events) : t.events[i] = s.events[i]
    BY <2>3 DEF NotesOf
  <2> QED
    BY <2>5, <2>6
<1> QED
  BY <1>2, <1>3, <1>4 DEF Moves
=============================================================================
