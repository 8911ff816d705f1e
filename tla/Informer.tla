------------------------------ MODULE Informer ------------------------------
(***************************************************************************)
(* What the cache relies on of client-go's shared informers, for one kind  *)
(* of object: a list, then a notification per change, in order, and a new  *)
(* list when the watch cannot be resumed.  A stream is a record: the API   *)
(* server's objects, those the informer knows of, the notifications whose  *)
(* handler has not run yet, and the state of the watch.  External: modelled *)
(* from the registrations in NewDispatcherCache (cache.go:149-174), which  *)
(* ask for no resync (cache.go:133-135).                                   *)
(***************************************************************************)
EXTENDS Sequences, FiniteSets, Naturals

CONSTANT NoObject  \* no object of that name

\* A process that has not listed yet; intact until the watch is lost.
Stream(objects) ==
    [api |-> objects, known |-> [x \in DOMAIN objects |-> NoObject],
     events |-> << >>, watch |-> "unlisted", intact |-> TRUE]

\* old is NoObject in an add, new in a delete; a delete found by a relist is
\* wrapped in a tombstone.
Note(x, before, after, wrapped) ==
    [name |-> x, old |-> before, new |-> after, tombstone |-> wrapped]

\* Object x becomes obj in the API server.
Write(s, x, obj) ==
    IF s.watch = "on"
    THEN [s EXCEPT !.api[x] = obj, !.known[x] = obj,
                   !.events = Append(@, Note(x, s.known[x], obj, FALSE))]
    ELSE [s EXCEPT !.api[x] = obj]

\* The watch is lost and too old to be resumed: changes go unseen.
Lose(s) == [s EXCEPT !.watch = "lost", !.intact = FALSE]

Live(objects) == {x \in DOMAIN objects : objects[x] # NoObject}

Orders(S) == {f \in [1..Cardinality(S) -> S] : \A x \in S : \E i \in DOMAIN f : f[i] = x}

\* After a list in the orders f and g: what exists is notified, then what is
\* gone, with the last state known of it.
Listed(s, f, g) ==
    [s EXCEPT !.known = s.api, !.watch = "on",
              !.events = @ \o [i \in DOMAIN f |-> Note(f[i], s.known[f[i]], s.api[f[i]], FALSE)]
                           \o [i \in DOMAIN g |-> Note(g[i], s.known[g[i]], NoObject, TRUE)]]

Lists(s) == {Listed(s, f, g) : f \in Orders(Live(s.api)),
                               g \in Orders(Live(s.known) \ Live(s.api))}

\* Every change was notified and every notification handled.
Quiet(s) == s.watch = "on" /\ s.events = << >>
=============================================================================
