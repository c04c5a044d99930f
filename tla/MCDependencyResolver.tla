-------------------------- MODULE MCDependencyResolver --------------------------
(* Three features, in the order of the array, and one id that no feature has. *)
EXTENDS DependencyResolver

CONSTANTS a, b, c, x

Array == <<a, b, c>>
NoSuch == {x}
Two == 1..2

================================================================================
