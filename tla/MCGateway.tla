----------------------------- MODULE MCGateway -----------------------------
(***************************************************************************)
(* Authentication and rate limiting on one instance.  The two share no     *)
(* state, so each is explored while the other has not moved: the run       *)
(* visits the sum of their states, not the product.                        *)
(***************************************************************************)
EXTENDS Sessions, RateLimit, TLC

MCChecks == <<"global", "ip">>

Symmetric == Permutations(Requests) \cup Permutations(Passwords) \cup Permutations(Clients)

Init == SessionsInit /\ RateLimitInit

AuthStep == RateLimitInit /\ SessionsNext /\ UNCHANGED rateLimitVars
LimitStep == SessionsInit /\ RateLimitNext /\ UNCHANGED sessionsVars

Next == AuthStep \/ LimitStep

vars == <<sessionsVars, rateLimitVars>>
Spec == Init /\ [][Next]_vars

\* Bounds: linked accounts are explored without sessions, failed logins with at most one, a
\* password reset with at most two, the rest at time 0; a second bucket while the clock is at
\* most 1.
Linked == \E u \in users : u.sub # NoSubject
Failed == \E u \in users : u.fails > 0
Bound ==
    /\ Linked => refresh = <<>> /\ resets = <<>>
    /\ Failed => Len(refresh) <= 1 /\ (refresh = <<>> \/ resets = <<>>)
    /\ Len(refresh) > 2 => now = 0 /\ resets = <<>>
    /\ clock > 1 => ~redis["ip"].live /\ ~memory["ip"].live
=============================================================================
