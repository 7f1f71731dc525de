------------------------------ MODULE Custody ------------------------------
(***************************************************************************)
(* What a controller of this repository promises about the objects it      *)
(* makes on behalf of another one (its owner): nothing is made before the  *)
(* controller's finalizer is on the owner, and the finalizer does not come *)
(* off while anything made is still there.                                 *)
(***************************************************************************)
CONSTANTS
  Owner,     \* who has custody
  Thing      \* what may be made

VARIABLES
  held,      \* the owners with the finalizer on
  things     \* what is there, as pairs of an owner and a thing

Of(o) == {t \in things : t[1] = o}

Init == held = {} /\ things = {}

Take(o) == held' = held \cup {o} /\ UNCHANGED things
Make(o, t) == o \in held /\ things' = things \cup {<<o, t>>} /\ UNCHANGED held
Drop(t) == things' = things \ {t} /\ UNCHANGED held
Release(o) == Of(o) = {} /\ held' = held \ {o} /\ UNCHANGED things

\* The user has asked the controller to let go of the owner.
Abandon(o) == held' = held \ {o} /\ things' = things \ Of(o)

Next ==
  \/ \E o \in Owner : Take(o) \/ Release(o) \/ Abandon(o)
  \/ \E o \in Owner, t \in Thing : Make(o, t)
  \/ \E t \in things : Drop(t)

Spec == Init /\ [][Next]_<<held, things>>
=============================================================================
