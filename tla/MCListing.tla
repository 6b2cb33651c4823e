----------------------------- MODULE MCListing ------------------------------
(* A small instance of the parts that keep the lists.                       *)
EXTENDS Listing, TLC

Ruled == <<"a", "b", "c">>
FiledUnder == [s \in {"a", "b", "c"} |-> s]

\* The book's symbols as the database orders them, and whose each dividend is.
Alphabet == "a" :> 1 @@ "b" :> 2 @@ "c" :> 3 @@ "d" :> 4
Payers   == "a" :> "x" @@ "b" :> "x" @@ "c" :> "y"

=============================================================================
