--------------------------- MODULE CoalescingWork ---------------------------
(***************************************************************************)
(* What a coalescing worker promises: of the values handed over for a key  *)
(* only their merge waits, one value is worked on at a time, and the       *)
(* worker does not rest while a value waits.  How it remembers which keys  *)
(* have something to do is not said here.                                  *)
(***************************************************************************)
CONSTANTS Keys, Values, None, Merge(_, _)

VARIABLES pending,  \* [Keys -> Values or None], what waits
          doing     \* << >>, or the key and the value that is worked on

work == <<pending, doing>>

Init == pending = [k \in Keys |-> None] /\ doing = << >>

Submit(k, v) ==
  /\ pending' = [pending EXCEPT ![k] = IF @ = None THEN v ELSE Merge(@, v)]
  /\ UNCHANGED doing

Start(k) ==
  /\ doing = << >> /\ pending[k] # None
  /\ doing' = <<k, pending[k]>>
  /\ pending' = [pending EXCEPT ![k] = None]

\* The work is done, or failed and is dropped.
Finish ==
  /\ doing # << >> /\ doing' = << >>
  /\ UNCHANGED pending

\* More came in for the same key meanwhile.
GoOn ==
  /\ doing # << >> /\ pending[doing[1]] # None
  /\ doing' = <<doing[1], pending[doing[1]]>>
  /\ pending' = [pending EXCEPT ![doing[1]] = None]

Step == (\E k \in Keys : Start(k)) \/ Finish \/ GoOn

Next == Step \/ \E k \in Keys, v \in Values : Submit(k, v)

Spec == Init /\ [][Next]_work

\* The worker works while there is something to do.
FairSpec == Spec /\ WF_work(Step)
=============================================================================
