-------------------------- MODULE StayDatesProofs --------------------------
(***************************************************************************)
(* The overlap clause means what it is meant to, for stays of any dates.   *)
(***************************************************************************)
EXTENDS StayDates, TLAPS

\* The WHERE clause of _has_overlap and _has_confirmed_overlap finds a stay
\* exactly when it has a night in common with the wanted one.
THEOREM OverlapMeansSharedNight ==
    ASSUME NEW es \in Int, NEW ee \in Int, NEW s \in Int, NEW e \in Int,
           ValidStay(es, ee), ValidStay(s, e)
    PROVE  Overlaps(es, ee, s, e) <=> Nights(es, ee) \cap Nights(s, e) # {}
  <1>1. ASSUME Overlaps(es, ee, s, e)
        PROVE  Nights(es, ee) \cap Nights(s, e) # {}
    <2> DEFINE first == IF es <= s THEN s ELSE es
    <2>1. first \in Nights(es, ee) \cap Nights(s, e)
      BY <1>1 DEF Overlaps, Nights, ValidStay
    <2> QED
      BY <2>1
  <1>2. ASSUME NEW n \in Nights(es, ee) \cap Nights(s, e)
        PROVE  Overlaps(es, ee, s, e)
    BY <1>2 DEF Overlaps, Nights
  <1> QED
    BY <1>1, <1>2
=============================================================================
