------------------------------ MODULE SignupMC ------------------------------
(* Instances of Signup for TLC: one phone, starts for two shops.             *)
EXTENDS Signup, TLC

CONSTANTS s1, s2, s3

ThreeStarts == {s1, s2, s3}

\* The second start is for another business, the third for the first again.
Shops == [s \in Starts |-> IF s = s2 THEN "other shop" ELSE "shop"]

\* A verification has no name of its own: it enters a code.  Nor have the two
\* starts of one business.
Alike == Permutations(Verifies) \cup Permutations({s1, s3})

\* A state is seen without what nothing reads any more: the code and the details
\* of a verification that ended with nothing, that an older code reached the
\* phone, the attempts without a code, and that a sign-up of which nothing is
\* left overlapped another.
Ended(v) == ~ Running(v) /\ made[v] = {}

LeftOf(s) ==
  \/ pc[s] # "done" \/ s \in {claim, code, pending}
  \/ \E v \in Verifies : ~ Ended(v) /\ s \in {used[v], details[v]}

StillRead ==
  <<claim, code, pending, IF code = Nothing THEN 0 ELSE attempts, code \in sent, made, failed, pc,
    [v \in Verifies |-> IF Ended(v) THEN Nothing ELSE used[v]],
    [v \in Verifies |-> IF Ended(v) THEN Nothing ELSE details[v]],
    {s \in overlapped : LeftOf(s)}>>
=============================================================================
