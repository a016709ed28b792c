------------------------------ MODULE MCRelay -------------------------------
(***************************************************************************)
(* Relay with three responses on one connection.  A behaviour is followed  *)
(* until a relay leaves a part of its response unread; how the next one    *)
(* then takes it for its own is not explored.                              *)
(***************************************************************************)
EXTENDS Relay

InStep == ~late

\* The ordinary responses come three in a row; one that is out of the ordinary
\* comes before or after one that is not: a header without a value or an interim
\* response comes ahead of it, or it is bare and no simple 304.
Odd(f) == f.ahead # "" \/ (f.bare /\ ~(f.status = "304" /\ f.by = "close"))

OneVaries ==
  \A i \in DOMAIN frames : Odd(frames[i]) =>
    /\ r <= 2 /\ (frames[i].bare => frames[i].ahead = "")
    /\ \A j \in DOMAIN frames : Odd(frames[j]) => i = j

\* What follows an interim response is all data and comes in few pieces.
FewPieces == r > 0 /\ frame.ahead = "interim" => Len(out) <= 4
=============================================================================
