------------------------------ MODULE MCBenchLock ------------------------------
(* A whole run and a scoped one of the same tier, a whole sweep, a job that   *)
(* promises memory, an edit of the worktree, and a whole run under --no-lock. *)
EXTENDS BenchLock, TLC

CONSTANTS p1, p2, p3, A, B, t1, t2

J(k, r, ts, w, n, l) == [kind |-> k, root |-> r, tiers |-> ts, whole |-> w, need |-> n, lock |-> l]
ManyJobs == {J("run", A, {t1, t2}, TRUE, 2, TRUE), J("run", A, {t1}, FALSE, 1, TRUE),
             J("sweep", B, {t1}, TRUE, 1, TRUE), J("job", B, {}, FALSE, 1, TRUE),
             J("edit", A, {}, FALSE, 0, FALSE), J("run", B, {t2}, TRUE, 1, FALSE)}
FewJobs  == {J("job", A, {}, FALSE, 2, TRUE)}
Renamed  == Permutations(Pids)
=============================================================================
