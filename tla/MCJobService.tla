---------------------------- MODULE MCJobService ----------------------------
(***************************************************************************)
(* Small instances of JobService for TLC.                                  *)
(***************************************************************************)
EXTENDS JobService, TLC

MCOnce == {-1}

\* Only for runs without a liveness property.
Symmetry == Permutations(Jobs) \cup Permutations(Workers) \cup Permutations(Cancellers)

\* No step asks how a job ended, except to answer a Cancel call, nor what a
\* Cancel call that is over has answered; and the properties checked with this
\* view do not tell such states apart.
WithoutEndings ==
    <<[j \in Jobs |-> IF job[j].status \in Terminal
                      THEN [job[j] EXCEPT !.status = "ended", !.error = ""]
                      ELSE job[j]],
      cancels, wake, unsent, shut, workerVars, serviceVars, cpc, held,
      [c \in Cancellers |-> IF cpc[c] = "idle" THEN <<>> ELSE <<target[c], answer[c]>>]>>
=============================================================================
