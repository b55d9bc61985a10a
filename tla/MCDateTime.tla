----------------------------- MODULE MCDateTime -----------------------------
(* DateTime for TLC: every day from the epoch to the first days of 2042, at *)
(* times on both sides of a minute, an hour and a day.                      *)
EXTENDS DateTime

MCSeconds == {0, 59, 60, 3599, 3600, 86399}
=============================================================================
