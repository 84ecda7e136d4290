------------------------------- MODULE MCRs485 -------------------------------
(* A buffer of four bytes;  frames for this child (1), for all (0) and for   *)
(* another one (2): too short, of an ordinary length, and too long.          *)
EXTENDS Rs485

MCFrames == {<<1>>, <<1, 5>>, <<1, 5, 2>>, <<0, 1, 5>>, <<2, 1, 5, 6>>, <<1, 2, 6, 5, 1, 7>>}
=============================================================================
