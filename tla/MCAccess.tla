------------------------------ MODULE MCAccess ------------------------------
(* A small instance of Access for TLC. *)
EXTENDS Access, TLC

CONSTANTS r1, r2, r3, queen, guest, p1, p2

(* One address behind a proxy: named by its header, or by the first hop.    *)
AllCallers == {[real |-> "a", hops |-> <<>>, host |-> "p"],
               [real |-> None, hops |-> <<"a", "p">>, host |-> "p"]}
Door == {{"login", "tick"}, {"login", "register", "seed", "midnight"}}
SlotSymmetry == Permutations(Requests)
=============================================================================
