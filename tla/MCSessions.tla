----------------------------- MODULE MCSessions -----------------------------
(* A small instance of the parts that keep a session's options.             *)
EXTENDS Collection, TLC

\* A chain that ends takes two jobs, and one that loops is cut at the second.
Ending  == 1 :> 2 @@ 2 :> 3 @@ 3 :> 4 @@ 4 :> 0
Looping == 1 :> 2 @@ 2 :> 3 @@ 3 :> 4 @@ 4 :> 2
Chains  == {Ending, Looping}

\* Three months deep.  Of the month under way the vendor lists one contract, of the one
\* before it none.
ThreeMonths == "x" :> 3
ThreeShelves == 0 :> <<"a">> @@ 1 :> <<>> @@ 2 :> <<"c", "d">>

\* Weeks of three weekdays and two days off, and a holiday on the second day.
ShortWeeks == {d \in 0..12 : d % 5 \in 0..2}
NoHoliday == ShortWeeks \ {6}

\* Five sessions around a weekend, and an underlying of which two expiries pass away.
ThreeExpiries == [expiry : {2, 6, 14}, strike : {1, 2, 3}]
InTheMiddle == [expiry |-> 6, strike |-> 2]

=============================================================================
