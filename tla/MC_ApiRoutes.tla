------------------------------ MODULE MC_ApiRoutes -----------------------------
(* Model-checking instance of ApiRoutes: getUser's default retry budget,  *)
(* images of 2 or 3 pixels a side with a pixel limit of 6 (so 3 x 3 is    *)
(* too large), and roi coordinates at 0%, 50% and 100% or at pixel 2      *)
(* (past the last column of a 2-pixel image).                          *)
EXTENDS ApiRoutes

MCTries == 5
MCTryDelayMs == 500
MCSides == {2, 3}
MCMaxInputPixels == 6
MCPercents == {0, 50, 100}
MCPixels == {2}
=============================================================================
