---------------------------- MODULE OptionValues ----------------------------
(***************************************************************************)
(* The reading of a command line with options that take the next argument  *)
(* for their value, whatever it is: an argument is a value when an odd     *)
(* number of such options in a row stands before it.                       *)
(***************************************************************************)
EXTENDS Naturals, Sequences

\* The n arguments before i are options, and no more.
OptionsBefore(options, args, i, n) ==
  /\ \A j \in (i - n)..(i - 1) : args[j] \in options
  /\ n = i - 1 \/ args[i - n - 1] \notin options

IsValue(options, args, i) ==
  \E n \in 0..(i - 1) : n % 2 = 1 /\ OptionsBefore(options, args, i, n)
=============================================================================
