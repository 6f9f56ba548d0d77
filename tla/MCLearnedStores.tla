---------------------------- MODULE MCLearnedStores ----------------------------
(***************************************************************************)
(* Two runs, two skills of one shape, and a notebook with room for one of  *)
(* the notes: two harmless, one forbidden, one known from a case.           *)
(***************************************************************************)
EXTENDS LearnedStores, TLC
CONSTANTS w1, w2, plain, other, secret, person
MCUpdates == ({NoEntry} \X Notes) \cup {<<plain, other>>, <<plain, secret>>, <<other, NoEntry>>}
MCShape == [s \in 1..2 |-> "notice"]
MCSymmetry == Permutations({w1, w2})
=============================================================================
