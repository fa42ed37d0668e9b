--------------------------- MODULE LdacAuthority ---------------------------
(***************************************************************************)
(* What the presence agent promises the headset and the user, with nothing *)
(* of how it polls, defers or retries: the authority to use LDAC.          *)
(*                                                                         *)
(* At most one worker process exists.  It is created for the connection    *)
(* that is up, may first do nothing but wait, then has an open attempt     *)
(* reserved for it, and only then, once, may open the transport.  A        *)
(* connection that ends takes the authority with it in the same step.      *)
(***************************************************************************)
EXTENDS Integers

CONSTANTS Generations,   \* the largest connection generation
          Attempts       \* the attempts one occasion to play is worth

VARIABLES
    up,           \* the headset is connected, as far as the agent knows
    generation,   \* of the connection, or of the last one
    licence,      \* what the worker may do
    spent         \* attempts reserved on this occasion

vars == <<up, generation, licence, spent>>

Init ==
    /\ up = FALSE
    /\ generation = 0
    /\ licence = "none"
    /\ spent = 0

Connect ==
    /\ ~up
    /\ up' = TRUE
    /\ generation' = IF generation = Generations THEN 1 ELSE generation + 1
    /\ licence' = "none"
    /\ spent' = 0

Disconnect ==
    /\ up
    /\ up' = FALSE
    /\ licence' = "none"
    /\ spent' = 0
    /\ UNCHANGED generation

\* A new demand renews the budget, but only while nothing runs on the old one.
Renew ==
    /\ licence = "none"
    /\ spent' = 0
    /\ UNCHANGED <<up, generation, licence>>

\* A worker is created.
Contain ==
    /\ up
    /\ licence = "none"
    /\ licence' = "contained"
    /\ spent' \in {0, spent}
    /\ UNCHANGED <<up, generation>>

Reserve ==
    /\ up
    /\ licence = "contained"
    /\ spent < Attempts
    /\ licence' = "reserved"
    /\ spent' = spent + 1
    /\ UNCHANGED <<up, generation>>

Open ==
    /\ up
    /\ licence = "reserved"
    /\ licence' = "open"
    /\ UNCHANGED <<up, generation, spent>>

Revoke ==
    /\ licence # "none"
    /\ licence' = "none"
    /\ UNCHANGED <<up, generation, spent>>

Next == Connect \/ Disconnect \/ Renew \/ Contain \/ Reserve \/ Open \/ Revoke

Spec == Init /\ [][Next]_vars
=============================================================================
