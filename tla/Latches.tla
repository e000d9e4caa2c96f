------------------------------- MODULE Latches -------------------------------
(***************************************************************************)
(* What the latch manager promises its callers (mdbook chapter_5,          *)
(* latch_manager.md): acquire hands out a whole set of keys at once, and   *)
(* nobody else gets any of them before release.  LatchManager implements   *)
(* this specification; Executor takes its latches from it.                 *)
(***************************************************************************)
CONSTANTS Clients, Keys

VARIABLE held       \* held[c]: the keys of the guard that client c owns

\* The keys S can be given to c: nobody else owns one of them.
Grantable(c, S) == \A d \in Clients \ {c} : held[d] \cap S = {}

Init == held = [c \in Clients |-> {}]

Acquire(c) ==
    /\ held[c] = {}
    /\ \E S \in SUBSET Keys :
          /\ Grantable(c, S)
          /\ held' = [held EXCEPT ![c] = S]

Release(c) == held' = [held EXCEPT ![c] = {}]

Next == \E c \in Clients : Acquire(c) \/ Release(c)

Spec == Init /\ [][Next]_held
=============================================================================
