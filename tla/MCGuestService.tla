--------------------------- MODULE MCGuestService ---------------------------
(* GuestService for TLC: browsers and request slots are interchangeable. *)
EXTENDS GuestService, TLC

Symmetry == Permutations(Browser) \cup Permutations(Req)
=============================================================================
