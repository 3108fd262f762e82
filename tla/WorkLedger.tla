----------------------------- MODULE WorkLedger -----------------------------
(***************************************************************************)
(* What the deriver's queue promises its producers, with no process,       *)
(* lease or task in sight: a submitted row is attempted at least once      *)
(* before it is struck off, it is struck off as processed only after an    *)
(* attempt that returned and as errored only after one that raised, and    *)
(* the rows of a serially fed unit are struck off from the front, those    *)
(* withdrawn with their session or workspace apart.                        *)
(***************************************************************************)
EXTENDS Integers

CONSTANTS Item, Key, WorkUnitOf, OrderedKeys,
          Withdrawable   \* the sets of rows that may be withdrawn together

VARIABLES
  status,   \* [Item -> {"absent", "pending", "processed", "errored", "deleted"}]
  handled,  \* rows some attempt has returned from
  failed    \* rows some attempt has blamed

vars == <<status, handled, failed>>

Struck(i)    == status[i] \in {"processed", "errored", "deleted"}
Known(i)     == status[i] # "absent"
SameUnit(B)  == \A i, j \in B : WorkUnitOf[i] = WorkUnitOf[j]

\* Every earlier row of a serially fed unit is struck off, or goes with B.
FromTheFront(B) ==
  \A i \in B, j \in Item :
    WorkUnitOf[i] \in OrderedKeys /\ WorkUnitOf[j] = WorkUnitOf[i] /\ j < i =>
      Struck(j) \/ j \in B

Init ==
  /\ status = [i \in Item |-> "absent"]
  /\ handled = {}
  /\ failed = {}

Submit(i) ==
  /\ status[i] = "absent"
  /\ status' = [status EXCEPT ![i] = "pending"]
  /\ UNCHANGED <<handled, failed>>

\* The rows of a batch are attempted together; of one that raises, one row is
\* blamed, and a batch that was handled may still be declared failed.
Return(B) ==
  /\ SameUnit(B) /\ FromTheFront(B) /\ \A i \in B : Known(i)
  /\ handled' = handled \union B
  /\ UNCHANGED <<status, failed>>

Raise(i) ==
  /\ Known(i) /\ FromTheFront({i})
  /\ failed' = failed \union {i}
  /\ UNCHANGED <<status, handled>>

\* Striking off is final, but a late attempt may turn "processed" into "errored".
Settle(B) ==
  /\ B \subseteq handled /\ SameUnit(B) /\ FromTheFront(B)
  /\ status' = [i \in Item |-> IF i \in B /\ status[i] \notin {"errored", "deleted"}
                               THEN "processed" ELSE status[i]]
  /\ UNCHANGED <<handled, failed>>

Reject(i) ==
  /\ i \in failed /\ FromTheFront({i})
  /\ status' = [status EXCEPT ![i] = IF @ = "deleted" THEN @ ELSE "errored"]
  /\ UNCHANGED <<handled, failed>>

\* Whatever was submitted under a session or workspace goes with it, for good.
Withdraw(R) ==
  /\ status' = [i \in Item |-> IF i \in R /\ Known(i) THEN "deleted" ELSE status[i]]
  /\ UNCHANGED <<handled, failed>>

Next ==
  \/ \E i \in Item : Submit(i) \/ Raise(i) \/ Reject(i)
  \/ \E B \in (SUBSET Item) \ {{}} : Return(B) \/ Settle(B)
  \/ \E R \in Withdrawable : Withdraw(R)

Spec == Init /\ [][Next]_vars
=============================================================================
