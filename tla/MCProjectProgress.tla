-------------------------- MODULE MCProjectProgress --------------------------
(* Instances of ProjectProgress for TLC. *)
EXTENDS ProjectProgress

\* The project grows to the ceiling, then is seen to have lost some of it.
MCDisplayed == <<60, 80, 40>>
MCSpan      == <<1, 2, 2>>
=============================================================================
