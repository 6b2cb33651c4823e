--------------------------- MODULE RenamedLabels ----------------------------
(***************************************************************************)
(* Under which underlying option rows are filed: by the handlers, which    *)
(* follow a renamed symbol to its successor when the reference table can   *)
(* show it, and by the repairs that ride every deploy, which undo a past   *)
(* rewrite, move rows between the two labels of a renamed company, and map *)
(* roots that are no symbol to the underlying the catalogue names.         *)
(*                                                                         *)
(* One company has been renamed from "old" to "live"; the root "weekly" is *)
(* an index's own and no ticker.                                           *)
(* A row is <<table, root of its contract, partition, place in it>>; those *)
(* of partition 1 date from before the handover.  "contract" is the        *)
(* catalogue, "bars" stands for the tables whose rows have a date.         *)
(***************************************************************************)
EXTENDS Integers, FiniteSetsExt

CONSTANTS
    Rows,
    Damaged,    \* rows the rewrite of 0.31.6 left under the index
    EarlierLife,    \* days on which another company traded as "live"
    OldDays     \* days on which this one traded as "old"; "live" picks up on the next

VARIABLES
    traced, \* whether the old symbol has a row in raw_market.ticker
    ref,    \* the rows of raw_market.ticker that are active
    asked,  \* symbols whose chains and histories are asked for
    stock,  \* the days stock_daily holds, per symbol
    label,  \* the label a row has, or None
    job,    \* rows on their way into the tables, and their label
    step,   \* what the deploy does next
    plan    \* the pairs its repair has read

vars == <<traced, ref, asked, stock, label, job, step, plan>>

None == "none"
Symbols == {"old", "live"}
Labels == Symbols \cup {"index", "weekly"}

Of(t) == {r \in Rows : r[1] = t}
Root(r) == r[2]
BeforeHandover(r) == r[3] = 1

\* What the vendor and OCC say of a contract.
Company(r) == IF Root(r) \in Symbols THEN Symbols ELSE {"weekly", "index"}
Right(r)   == IF Root(r) \in Symbols THEN "live" ELSE "index"

Nothing == [rows |-> {}, label |-> None]
Relabelled(R, l) == label' = [r \in Rows |-> IF r \in R THEN l ELSE label[r]]

-----------------------------------------------------------------------------
(* The handlers.                                                           *)

\* The successor picks up where the old symbol ends.
Abut == Max(stock["old"]) + 1 \in stock["live"]

\* is_rename: it cannot be proven when the lookup fails, or when the registrant changed.
Followed == "live" \in ref /\ "old" \notin ref

\* resolve_storage, for a chain asked for as s whose contracts are rooted at "live".
Resolved(s, proven) == IF s = "old" /\ Followed /\ proven THEN "live" ELSE s

\* The catalogue's underlying for a contract, or what its ticker spells.
Spelled(r) ==
    LET known == {c \in Of("contract") : Root(c) = Root(r) /\ label[c] # None}
    IN  IF known = {} THEN {Root(r)} ELSE {label[c] : c \in known}

\* handle_option_snapshot, handle_option_contract: rows rooted at the live symbol.
Download(s, R, proven) ==
    /\ job = Nothing /\ s \in asked
    /\ R \subseteq {r \in Of("contract") : Root(r) = "live"}
    /\ job' = [rows |-> R, label |-> Resolved(s, proven)]
    /\ UNCHANGED <<traced, ref, asked, stock, label, step, plan>>

\* The option-bars and option_backfill jobs carry the label they were enqueued with.
EnqueueBars(r, l) ==
    /\ job = Nothing
    /\ \/ Root(r) # "old" /\ l \in Spelled(r)
       \/ Root(r) = "old" /\ "old" \in asked /\ l = "old"
    /\ job' = [rows |-> {r}, label |-> l]
    /\ UNCHANGED <<traced, ref, asked, stock, label, step, plan>>

\* The upsert: the label is among the columns it updates.
Write ==
    /\ job # Nothing
    /\ Relabelled(job.rows, job.label)
    /\ job' = Nothing
    /\ UNCHANGED <<traced, ref, asked, stock, step, plan>>

\* The reference sync lists the successor, and later retires the old symbol.
Sync ==
    /\ \/ "live" \notin ref /\ ref' = ref \cup {"live"}
       \/ ref = Symbols /\ ref' = {"live"}
    /\ UNCHANGED <<traced, asked, stock, label, job, step, plan>>

\* The first daily bar of the new symbol.
Trade ==
    /\ ~Abut
    /\ stock' = [stock EXCEPT !["live"] = @ \cup {Max(OldDays) + 1}]
    /\ UNCHANGED <<traced, ref, asked, label, job, step, plan>>

\* Whoever asks for the old symbol learns of the new one.
Learn ==
    /\ "old" \in asked /\ "old" \notin ref
    /\ asked' = {"live"}
    /\ UNCHANGED <<traced, ref, stock, label, job, step, plan>>

-----------------------------------------------------------------------------
(* The repairs of one deploy.  Each statement commits on its own; one that *)
(* fails, or a budget that is spent, ends its repair.                      *)

\* Mutant of RenameTables: the catalogue is left to heal itself.
RenameTablesDated == {"bars"}

\* RENAME_TABLES, of which the catalogue is the last.
RenameTables == {"bars", "contract"}

\* rename_pairs: the listings abut, and the reference table shows the rename, or a row of
\* the catalogue does.
Renamed ==
    /\ Abut /\ Followed
    /\ traced \/ \E c \in Of("contract") : Root(c) = "live" /\ label[c] = "old"
Pairs == IF Renamed THEN {<<"old", "live">>} ELSE {}

\* _MOVE and _MOVE_HISTORY.
Move(t) == {r \in Of(t) : label[r] = "old" /\ Root(r) = "live"}
History(t) ==
    {r \in Of(t) : /\ t # "contract"
                   /\ label[r] = "old" /\ Root(r) = "old" /\ BeforeHandover(r)}

\* _COPY_STOCK_HISTORY.
Copied ==
    LET last == Max(stock["old"])
        held == {d \in stock["live"] : d <= last}
    IN  {d \in stock["old"] : \A e \in held : d > e}

\* mismatched_roots, and whether a pair needs the catalogue's word for every row.
Mismatched ==
    {<<Root(c), label[c]>> : c \in {d \in Of("contract") : label[d] \notin {None, Root(d)}}}
Guarded(root) ==
    \/ root \in ref
    \/ Cardinality({label[c] : c \in {d \in Of("contract") : Root(d) = root /\ label[d] # None}}) > 1

SharePlace(R) == {r \in Of("bars") : \E q \in R : q[4] = r[4]}

\* Mutant of Chunk: the batch is selected by its places alone.
ChunkByPlace(root, R) == SharePlace(R)

\* _UNGUARDED_CHUNK: a place is one only within its partition, so the label is asked again.
Chunk(root, R) == {r \in SharePlace(R) : label[r] = root}

Confirmed(root, l) ==
    {r \in Of("bars") : /\ label[r] = root
                        /\ \E c \in Of("contract") : Root(c) = Root(r) /\ label[c] = l}

Misfiled == {r \in Of("bars") : label[r] = "index" /\ Root(r) # "weekly"}

Deploy(s, next) == step = s /\ step' = next /\ UNCHANGED <<traced, ref, asked, job>>

\* A deploy starts with restore_ctid_damage: back to what the ticker spells, in chunks.
Restore(R) ==
    /\ Deploy("idle", "pairs")
    /\ R \subseteq Misfiled
    /\ label' = [r \in Rows |-> IF r \in R THEN Root(r) ELSE label[r]]
    /\ UNCHANGED <<stock, plan>>

\* The pairs are read, and each one's bars are copied.
CopyBars ==
    /\ Deploy("pairs", "bars")
    /\ plan' = Pairs
    /\ stock' = IF Pairs = {} THEN stock ELSE [stock EXCEPT !["live"] = @ \cup Copied]
    /\ UNCHANGED label

\* A table's two statements; the second has a commit of its own.
MoveTable(t, whole, next) ==
    /\ Deploy(t, next)
    /\ LET R == IF plan = {} \/ t \notin RenameTables THEN {}
                ELSE Move(t) \cup (IF whole THEN History(t) ELSE {})
       IN  Relabelled(R, "live")
    /\ UNCHANGED <<stock, plan>>

\* An exception, or a spent budget, anywhere in the repair of the renames.
RenameStops ==
    /\ step \in {"pairs", "bars", "contract"}
    /\ Deploy(step, "roots")
    /\ UNCHANGED <<stock, label, plan>>

ReadRoots ==
    /\ Deploy("roots", "adjust")
    /\ plan' = {<<p[1], p[2], Guarded(p[1])>> : p \in Mismatched}
    /\ UNCHANGED <<stock, label>>

\* _rewrite_root, for one of the pairs that are left.
Rewrite(p, R) ==
    /\ step = "adjust" /\ p \in plan
    /\ Relabelled(IF p[3] THEN Confirmed(p[1], p[2]) ELSE Chunk(p[1], R), p[2])
    /\ plan' = plan \ {p}
    /\ UNCHANGED <<traced, ref, asked, stock, job, step>>

\* All of them are done, or the budget is spent.
Finish ==
    /\ Deploy("adjust", "idle")
    /\ plan' = {}
    /\ UNCHANGED <<stock, label>>

Matching(p) == {r \in Of("bars") : label[r] = p[1]}

-----------------------------------------------------------------------------
\* What the backlog was made of: rows under the old label, under a root, and misplaced.
Init ==
    /\ traced \in BOOLEAN
    /\ ref = IF traced THEN {"old"} ELSE {}
    /\ asked = Symbols
    /\ stock = [s \in Symbols |-> IF s = "old" THEN OldDays ELSE EarlierLife]
    /\ label = [r \in Rows |->
                  IF Root(r) = "live" THEN None
                  ELSE IF r \in Damaged \/ r[1] = "contract" THEN "index" ELSE Root(r)]
    /\ job = Nothing /\ step = "idle" /\ plan = {}

Next ==
    \/ \E s \in Symbols, R \in SUBSET Rows, proven \in BOOLEAN : R # {} /\ Download(s, R, proven)
    \/ \E r \in Of("bars"), l \in Labels : EnqueueBars(r, l)
    \/ Write \/ Sync \/ Trade \/ Learn
    \/ CopyBars \/ RenameStops \/ ReadRoots \/ Finish
    \/ \E R \in SUBSET Misfiled : Restore(R)
    \/ \E whole \in BOOLEAN : \/ MoveTable("bars", whole, "contract")
                              \/ MoveTable("contract", whole, "roots")
    \/ \E p \in plan : \E R \in SUBSET Matching(p) : Rewrite(p, R)

\* Jobs end, the reference and the bars arrive, the old name is asked for no more, deploys
\* go on, and no statement of theirs fails for ever.
Arrives == Sync \/ Trade \/ Learn
Goes    == Restore({}) \/ RenameStops \/ ReadRoots \/ Finish

Fairness ==
    /\ WF_vars(Write) /\ WF_vars(Arrives) /\ WF_vars(Goes)
    /\ SF_vars(Restore(Misfiled)) /\ SF_vars(CopyBars)
    /\ SF_vars(MoveTable("bars", TRUE, "contract"))
    /\ SF_vars(MoveTable("contract", TRUE, "roots"))
    /\ SF_vars(\E p \in plan : Rewrite(p, Matching(p)))

Spec == Init /\ [][Next]_vars /\ Fairness

-----------------------------------------------------------------------------
TypeOK ==
    /\ traced \in BOOLEAN /\ ref \in SUBSET Symbols /\ asked \in SUBSET Symbols
    /\ stock \in [Symbols -> SUBSET Int]
    /\ label \in [Rows -> Labels \cup {None}]
    /\ job.rows \subseteq Rows /\ job.label \in Labels \cup {None}
    /\ step \in {"idle", "pairs", "bars", "contract", "roots", "adjust"}

\* No handler and no repair files a row under a company it has nothing to do with, in any
\* partition, and no bar of another company's life under the same symbol is taken over.
CompaniesApart ==
    [][/\ \A r \in Rows : label'[r] # label[r] => label'[r] \in Company(r)
       /\ \A d \in stock'["live"] \ stock["live"], e \in EarlierLife : d > e]_vars

\* A company's rows end under one label, and its bars under one symbol, however deploys,
\* jobs that carry an older label and statements that fail fall together.
LabelsSettle ==
    traced => <>[](/\ \A r \in Rows : label[r] \in {None, Right(r)}
                   /\ {d \in stock["old"] : \A e \in EarlierLife : d > e} \subseteq stock["live"])

=============================================================================
