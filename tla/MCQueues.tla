------------------------------- MODULE MCQueues -------------------------------
(* Instances of the background's queues for TLC. *)
EXTENDS SigningQueues, TLC

CONSTANTS r1, r2, o1, o2

\* Two requests for access may come from one domain or from two.
MCWants ==
    (r1 :> ({"transaction", "token", "access"} \X {o1}))
    @@ (r2 :> {<<"blob", o1>>, <<"authEntry", o2>>, <<"allowed", o1>>, <<"allowed", o2>>})

\* The popup of the first may be reloaded while its approval is being handled.
MCApprovals == (r1 :> {1, 2}) @@ (r2 :> {1})
=============================================================================
