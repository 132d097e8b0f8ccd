------------------------------ MODULE MCFaultFs ------------------------------
(***************************************************************************)
(* An instance of FaultFs for TLC: names of one digit, so that nine files   *)
(* is the limit, and a configuration that asks for more.                    *)
(***************************************************************************)
EXTENDS FaultFs

\* The directory, the first and the last file, the first number that is no
\* file, a number with too many digits, and a name that is no number.
MCNames == {Objects, <<"0">>, <<"8">>, <<"9">>, <<"1", "0">>, <<"x">>}
=============================================================================
