--------------------------- MODULE MCYearPromotion ---------------------------
(* Year promotion on a small instance.                                        *)
EXTENDS YearPromotion, TLC

SomeChoices == {<<"TC", 1>>, <<"GIC", 4>>, <<"GIC", None>>}

Interchangeable == Permutations(Processes) \cup Permutations(Calls)
=============================================================================
