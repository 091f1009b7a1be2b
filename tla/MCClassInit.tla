----------------------------- MODULE MCClassInit -----------------------------
(* Six classes without a circle: B extends A and implements I, whose super- *)
(* interface J has no default methods; A's static constructor needs I; B is *)
(* final and C extends it all the same; D implements a class.               *)
EXTENDS ClassInit

CONSTANTS A, B, C, D, I, J

MCClasses == {A, B, C, D, I, J}
MCBase == [c \in MCClasses |-> CASE c = B -> A [] c = C -> B [] OTHER -> None]
MCInterfaces ==
  [c \in MCClasses |-> CASE c = B -> <<I>> [] c = D -> <<I, A>> [] c = I -> <<J>> [] OTHER -> <<>>]
MCUses == [c \in MCClasses |-> IF c = A THEN <<I>> ELSE <<>>]

ASSUME MCLayered ==
  Layered([c \in Classes |-> CASE c = J -> 0 [] c = I -> 1 [] c = A -> 2 [] c \in {B, D} -> 3
                              [] OTHER -> 4])
=============================================================================
