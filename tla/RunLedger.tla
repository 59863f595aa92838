------------------------------ MODULE RunLedger -----------------------------
(***************************************************************************)
(* What a run directory promises to whoever reads it, whatever crashes and *)
(* resumes happen underneath: a ledger of immutable attempts that only     *)
(* grows, and for each stage at most one attempt that stands for it.  An   *)
(* attempt comes to stand only over standing upstream attempts whose bytes *)
(* its cache key names, and while it stands its bytes do not change.       *)
(***************************************************************************)
EXTENDS Integers

CONSTANTS N, Deps, NoAttempt

VARIABLES ledger, standing

vars == <<ledger, standing>>

Stage == 1..N

Init == ledger = {} /\ standing = [s \in Stage |-> NoAttempt]

\* A stage publishes under an attempt number it never used before.
Record(a) ==
    /\ \A b \in ledger : b.stage = a.stage => b.num < a.num
    /\ ledger' = ledger \cup {a}
    /\ UNCHANGED standing

Stand(a) ==
    /\ a \in ledger
    /\ \A d \in Deps[a.stage] : /\ standing[d] # NoAttempt
                                /\ a.key.upstream[d] = standing[d].out
    /\ standing[a.stage] # NoAttempt =>
         /\ standing[a.stage].key = a.key
         /\ standing[a.stage].out = a.out
    /\ standing' = [standing EXCEPT ![a.stage] = a]
    /\ UNCHANGED ledger

Withdraw(S) ==
    /\ standing' = [s \in Stage |-> IF s \in S THEN NoAttempt ELSE standing[s]]
    /\ UNCHANGED ledger

Next == \/ \E a \in ledger' \ ledger : Record(a)
        \/ \E a \in ledger : Stand(a)
        \/ \E S \in SUBSET Stage : Withdraw(S)

Spec == Init /\ [][Next]_vars
=============================================================================
