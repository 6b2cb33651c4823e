---------------------------- MODULE MCRetention ----------------------------
(* A small instance of the trim slot's windows: weeks of three weekdays and *)
(* two days off, months of three days, a holiday near the end.              *)
EXTENDS Retention

Week == {d \in 0..12 : d % 5 \in 0..2}
WeekLessHoliday == Week \ {11}

=============================================================================
