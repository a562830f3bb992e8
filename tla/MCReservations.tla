---- MODULE MCReservations ----
(* Two tables of two seats that may be combined: one of them, the other, or both.
   Two times that overlap in one slot; which of them is the earlier is nothing the
   module tells apart, so their other slots may be exchanged. *)
EXTENDS Reservations

CONSTANTS t1, t2, s1, s2, s3

MCCandidatesOf == [p \in Parties |->
  IF p = 2 THEN <<{t1}, {t2}, {t1, t2}>> ELSE <<{t1, t2}>>]
MCTimes == {{s1, s2}, {s2, s3}}
MCSymmetry == GuestSymmetry \cup Permutations({s1, s3})
====
