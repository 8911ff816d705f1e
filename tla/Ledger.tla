------------------------------- MODULE Ledger -------------------------------
(***************************************************************************)
(* What the dispatcher promises, without caches, rounds or workers: a      *)
(* ledger of the bindings that exist, in which a waiting binding is        *)
(* granted room in its queue in one indivisible step that sees every       *)
(* grant made so far, and is released only after it was granted.           *)
(***************************************************************************)
EXTENDS Demand

VARIABLE entry   \* entry[k]: where binding k stands

Standing == {"absent", "waiting", "granted", "released"}

Init == entry = [k \in Keys |-> "absent"]

\* The bindings that hold room in q.
Holders(q) == {k \in Keys : QueueOf[k] = q /\ entry[k] \in {"granted", "released"}}

Move(k, from, to) ==
    /\ entry[k] = from
    /\ entry' = [entry EXCEPT ![k] = to]

Submit(k) == Move(k, "absent", "waiting")

Grant(k) ==
    /\ Fits(Load(Holders(QueueOf[k])), k)
    /\ Move(k, "waiting", "granted")

Release(k) == Move(k, "granted", "released")

\* A release that failed gives the room back.
Revoke(k) == Move(k, "granted", "waiting")

\* The binding is deleted.
Leave(k) ==
    /\ entry[k] # "absent"
    /\ entry' = [entry EXCEPT ![k] = "absent"]

Next == \E k \in Keys :
            Submit(k) \/ Grant(k) \/ Release(k) \/ Revoke(k) \/ Leave(k)

Spec == Init /\ [][Next]_entry
=============================================================================
