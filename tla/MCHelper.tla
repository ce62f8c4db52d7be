------------------------------ MODULE MCHelper ------------------------------
(***************************************************************************)
(* Two threads, two schemas besides one that is refused, one mapping.      *)
(***************************************************************************)
EXTENDS Helper

\* Nothing is promised once two set_schema have overlapped.
NoRace == ~raced
=============================================================================
