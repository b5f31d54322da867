------------------------------ MODULE MCArrayList ------------------------------
(* ArrayList with two arrays that share three addresses of elements.          *)
EXTENDS ArrayList

CONSTANTS a1, a2, e1, e2, e3, v, w

MCArrays == {a1, a2}
MCElements == {e1, e2, e3}
MCValues == {v, w}
================================================================================
