------------------------------ MODULE MCLending -------------------------------
(* The instance for the nesting of mock-ups: one call of any collective    *)
(* under any profiles.                                                     *)
EXTENDS Lending, MCInterception

(* Every mock-up of the call itself gets what it asks for; what fails is a *)
(* grab inside another mock-up, which holds the buffer or has multiplied   *)
(* the count, and some fail after others that have succeeded.  The int     *)
(* area is no whole number of ints.                                        *)
Odd == [msg |-> 11, int |-> 18]
===============================================================================
