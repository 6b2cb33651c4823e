------------------------- MODULE MCRetentionArchive -------------------------
(***************************************************************************)
(* Small instances of the archive of option_snapshot, with months of two   *)
(* days: the intraday pass takes its rows a day before the other would.     *)
(***************************************************************************)
EXTENDS RetentionArchive, TLC

CONSTANTS a, b

\* The last day of a month and the first of the next: a range is cut between them by the
\* month, or by the cutoff.
Days      == a :> 2 @@ b :> 3
TwoPasses == "intraday" :> {a} @@ "all" :> {a, b}
TwoKeeps  == "intraday" :> 0 @@ "all" :> 1

=============================================================================
