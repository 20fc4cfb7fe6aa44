------------------------------ MODULE MCReport ------------------------------
(* Report, and Message with it, with two workers and rings of one place.    *)
EXTENDS Report
=============================================================================
