------------------------------ MODULE MCLabState ------------------------------
EXTENDS LabState, TLC

\* 30 is when the job falls due, 60 when the window opens, and 60 + 180 passes
\* both the end of the window and the deferred job.
MCAdvances == {30, 60, 180}

Symmetry == Permutations(Workers)
===============================================================================
