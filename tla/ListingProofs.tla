---------------------------- MODULE ListingProofs ----------------------------
(******************************************************************************)
(* Proofs about the parts that keep the lists, together and for any number of *)
(* names, seats, splits, dividends and faults.  What the runs check of these  *)
(* parts beyond their types is that something happens in the end, which is    *)
(* not proved.  The types are not for nothing: a rank of the rotation is one  *)
(* of the number of names only because the stamps are made dense after every  *)
(* write, so that the step of a handler that stamps a batch needs the lemmas  *)
(* on ranks.                                                                  *)
(******************************************************************************)
EXTENDS Listing, OrderLemmas, TLAPS

-----------------------------------------------------------------------------
(* An instance has operators of the library of its own, which are the library's. *)

\* The size of a set.
LEMMA SameCardinality == \A S : Book!Cardinality(S) = Cardinality(S)
  BY DEF Book!Cardinality, Cardinality

-----------------------------------------------------------------------------
(* The catalogue.  A rank that a job writes back is one of those there were, or the last. *)

\* The stamp of the name that is written is the last, and the others keep their order.
LEMMA WrittenStep ==
    ASSUME CatalogueFinite, TypeOK, NEW s \in Names
    PROVE  Written(s) \in [Names -> 0..Cardinality(Names)]
  <1> DEFINE m == Latest
             fresh == [stamp EXCEPT ![s] = m + 1]
             rank(t) == Cardinality({fresh[u] : u \in {v \in Names : fresh[v] # 0 /\ fresh[v] <= fresh[t]}})
  <1>0. IsFiniteSet(Names) /\ Cardinality(Names) \in Nat
    BY FS_CardinalityType DEF CatalogueFinite
  <1>1. Written(s) = [t \in Names |-> rank(t)]  BY DEF Written
  <1>2. \A t \in Names : stamp[t] \in Nat  BY <1>0 DEF TypeOK
  <1>3. m \in Nat  BY <1>0, <1>2, GreatestValue DEF Latest
  <1> HIDE DEF m
  <1>4. \A t \in Names : fresh[t] \in Nat  BY <1>2, <1>3 DEF TypeOK
  <1> HIDE DEF fresh
  <1>5. \A t \in Names : rank(t) \in 0..Cardinality(Names)
    BY <1>0, <1>4, DenseRank
  <1> HIDE DEF rank
  <1> QED  BY <1>1, <1>5

\* No name was walked yet.
LEMMA CatalogueInit == ASSUME CatalogueFinite, Init PROVE TypeOK
  <1>1. Cardinality(Names) \in Nat /\ MaxFails \in Nat /\ NoNote \in Nat
    BY FS_CardinalityType, CatalogueAssumption DEF CatalogueFinite, NoNote
  <1>2. 0 \in 0..Cardinality(Names) /\ NoNote \in 0..NoNote /\ 0 \in 0..MaxFails  BY <1>1
  <1> HIDE DEF NoNote
  <1> QED  BY <1>2 DEF Init, TypeOK

\* Every step of the slot, the jobs and the days.
LEMMA CatalogueNext == ASSUME CatalogueFinite, TypeOK, [Next]_vars PROVE TypeOK'
  <1>0. /\ listed \subseteq Universe \cup Benchmarks
        /\ stamp \in [Names -> 0..Cardinality(Names)] /\ note \in [Names -> 0..NoNote]
        /\ pending \subseteq Jobs /\ walks \subseteq Walks /\ fails \in 0..MaxFails
        /\ MaxFails \in Nat /\ Recheck \in Nat /\ NoNote = Recheck + 2
        /\ Universe \cup Benchmarks \subseteq Names
        /\ TooLong \cup Later \cup Asked \subseteq Universe \cup Benchmarks
        /\ Stored \in [Universe \cup Benchmarks -> Names]
    BY CatalogueAssumption DEF TypeOK, NoNote, Names
  <1> HIDE DEF NoNote
  <1>1. ASSUME NEW blind \in Blinds, NEW offset, Refresh(blind, offset) PROVE TypeOK'
    <2>1. PICK fresh, seats : /\ fresh = Newcomers(blind) /\ seats = Candidates(blind, fresh, offset)
                              /\ pending' = pending \cup {k \in (Benchmarks \cup fresh \cup seats) \X {"slot"} : Free(k)}
      BY <1>1 DEF Refresh
    <2>2. fresh \subseteq Universe  BY <2>1 DEF Newcomers, First
    <2>3. seats \subseteq Universe  BY <2>1 DEF Candidates, First
    <2>4. pending' \subseteq Jobs  BY <1>0, <2>1, <2>2, <2>3 DEF Jobs, Sources
    <2>5. UNCHANGED <<listed, stamp, note, walks, fails>>  BY <1>1 DEF Refresh
    <2> QED  BY <1>0, <2>4, <2>5 DEF TypeOK
  <1>2. ASSUME NEW s \in Asked, Ask(s) PROVE TypeOK'
    BY <1>0, <1>2 DEF Ask, TypeOK, Jobs, Sources
  <1>3. ASSUME NEW k \in Jobs, Begin(k) PROVE TypeOK'
    <2> DEFINE answer == IF k[1] \notin listed THEN "empty"
                         ELSE IF k[1] \in TooLong THEN "cut" ELSE "rows"
    <2>1. answer \in Answers  BY DEF Answers
    <2>2. walks' = walks \cup {<<k[1], k[2], answer>>} /\ pending' \subseteq pending
          /\ UNCHANGED <<listed, stamp, note, fails>>
      BY <1>3 DEF Begin
    <2> HIDE DEF answer
    <2>3. walks' \subseteq Walks  BY <1>0, <2>1, <2>2 DEF Walks
    <2> QED  BY <1>0, <2>2, <2>3 DEF TypeOK
  <1>4. ASSUME NEW w \in Walks, Finish(w) \/ Fail(w) PROVE TypeOK'
    <2>1. w[1] \in Universe \cup Benchmarks /\ w[1] \in Names /\ Stored[w[1]] \in Names
      BY <1>0 DEF Walks, Jobs
    <2>2. Written(Stored[w[1]]) \in [Names -> 0..Cardinality(Names)]  BY <2>1, WrittenStep
    <2>3. walks' \subseteq walks /\ UNCHANGED <<listed, pending>> /\ stamp' \in {stamp, Written(Stored[w[1]])}
      BY <1>4 DEF Finish, Fail, Ends
    <2>4. note' \in {note, [note EXCEPT ![w[1]] = NoNote], [note EXCEPT ![w[1]] = 0]}
      BY <1>4 DEF Finish, Fail
    <2>5. NoNote \in 0..NoNote /\ 0 \in 0..NoNote  BY <1>0
    <2>6. note' \in [Names -> 0..NoNote]  BY <1>0, <2>1, <2>4, <2>5
    <2>7. fails' \in 0..MaxFails  BY <1>0, <1>4 DEF Finish, Fail
    <2> QED  BY <1>0, <2>2, <2>3, <2>6, <2>7 DEF TypeOK
  <1>5. CASE DayPasses
    <2>1. \A s \in Names : (IF note[s] <= Recheck THEN note[s] + 1 ELSE note[s]) \in 0..NoNote
      BY <1>0
    <2>2. note' \in [Names -> 0..NoNote]  BY <1>5, <2>1 DEF DayPasses
    <2> QED  BY <1>0, <1>5, <2>2 DEF DayPasses, TypeOK
  <1>6. ASSUME NEW s \in Later, GetsListed(s) PROVE TypeOK'
    BY <1>0, <1>6 DEF GetsListed, TypeOK
  <1>7. CASE UNCHANGED vars  BY <1>0, <1>7 DEF vars, TypeOK
  <1> QED  BY <1>1, <1>2, <1>3, <1>4, <1>5, <1>6, <1>7 DEF Next

-----------------------------------------------------------------------------
(* The book.  A batch of lookups stamps the rows it took, and the ranks are made dense. *)

\* The ranks stay within the number of symbols, and none of those that have one loses it.
LEMMA StampedStep ==
    ASSUME BookAssumption, Book!TypeOK, NEW S \in SUBSET Tickers
    PROVE  /\ Book!Stamped(S) \in [Tickers -> 0..Cardinality(Tickers)]
           /\ \A s \in Tickers : Book!Stamped(S)[s] = 0 <=> s \notin S /\ bookStamp[s] = 0
  <1> DEFINE m == Book!Latest
             fresh == [s \in Tickers |-> IF s \in S THEN m + 1 ELSE bookStamp[s]]
             rank(t) == Cardinality({fresh[u] : u \in {v \in Tickers : fresh[v] # 0 /\ fresh[v] <= fresh[t]}})
  <1>0. IsFiniteSet(Tickers) /\ Cardinality(Tickers) \in Nat
    BY FS_CardinalityType DEF BookAssumption
  <1>1. Book!Stamped(S) = [t \in Tickers |-> rank(t)]  BY SameCardinality DEF Book!Stamped
  <1>2. \A s \in Tickers : bookStamp[s] \in Nat  BY <1>0, SameCardinality DEF Book!TypeOK
  <1>3. Tickers # {} => m \in Nat  BY <1>0, <1>2, GreatestValue DEF Book!Latest
  <1> HIDE DEF m
  <1>4. \A s \in Tickers : fresh[s] \in Nat /\ (fresh[s] = 0 <=> s \notin S /\ bookStamp[s] = 0)
    BY <1>2, <1>3
  <1> HIDE DEF fresh
  <1>5. \A t \in Tickers : rank(t) \in 0..Cardinality(Tickers) /\ (rank(t) = 0 <=> fresh[t] = 0)
    BY <1>0, <1>4, DenseRank
  <1> HIDE DEF rank
  <1> QED  BY <1>1, <1>4, <1>5

\* Some names are on file, all with one stamp.
LEMMA BookInit == ASSUME BookAssumption, Book!Init PROVE Book!TypeOK
  <1>1. IsFiniteSet(Tickers) /\ Cardinality(Tickers) \in Nat
    BY FS_CardinalityType DEF BookAssumption
  <1>2. trading \subseteq Tickers /\ closing \subseteq Tickers /\ jobs \subseteq Book!Jobs /\ bookFails \in 0..BookFaults
    BY DEF Book!Init, BookAssumption
  <1>3. PICK seen \in SUBSET (trading \ FundTickers) :
          /\ row = [s \in Tickers |-> IF s \in seen THEN "listed" ELSE "none"]
          /\ bookStamp = [s \in Tickers |-> IF s \in seen THEN 1 ELSE 0]
    BY DEF Book!Init
  <1>4. row \in [Tickers -> Book!Row] /\ \A s \in Tickers : row[s] = "none" <=> bookStamp[s] = 0
    BY <1>3 DEF Book!Row
  <1>5. \A s \in Tickers : Cardinality(Tickers) >= 1
    <2> SUFFICES ASSUME NEW s \in Tickers PROVE Cardinality(Tickers) >= 1  OBVIOUS
    <2>1. Cardinality(Tickers) # 0  BY <1>1, FS_EmptySet
    <2> QED  BY <1>1, <2>1
  <1>6. bookStamp \in [Tickers -> 0..Cardinality(Tickers)]  BY <1>1, <1>3, <1>5
  <1> QED  BY <1>2, <1>4, <1>6, SameCardinality DEF Book!TypeOK

\* Every step of the slots, the jobs and the days.
LEMMA BookNext == ASSUME BookAssumption, Book!TypeOK, [Book!Next]_(Book!vars) PROVE Book!TypeOK'
  <1>0. /\ trading \subseteq Tickers /\ closing \subseteq Tickers
        /\ row \in [Tickers -> Book!Row] /\ bookStamp \in [Tickers -> 0..Cardinality(Tickers)]
        /\ \A s \in Tickers : row[s] = "none" <=> bookStamp[s] = 0
        /\ jobs \subseteq Book!Jobs /\ bookFails \in 0..BookFaults /\ BookFaults \in Nat
    BY SameCardinality DEF Book!TypeOK, BookAssumption
  <1>1. CASE Book!Reference
    <2>1. Book!DelistedCandidates \subseteq Tickers
      BY DEF Book!DelistedCandidates, Book!First, BookAssumption
    <2> QED  BY <1>0, <1>1, <2>1 DEF Book!Reference, Book!TypeOK, Book!Jobs
  <1>2. CASE Book!Details
    <2>1. Book!NeedingDetail \subseteq Tickers  BY DEF Book!NeedingDetail, Book!First
    <2> QED  BY <1>0, <1>2, <2>1 DEF Book!Details, Book!TypeOK, Book!Jobs
  <1>3. ASSUME NEW truncated \in BOOLEAN, Book!SyncUniverse(truncated) PROVE Book!TypeOK'
    <2> DEFINE whole  == trading \ FundTickers
               answered == IF truncated THEN {s \in whole : RankOf[s] <= 2} ELSE whole
               gone   == Book!Gone(answered, truncated)
    <2>1. answered \subseteq Tickers /\ gone \subseteq Tickers /\ \A s \in gone : Book!IsActive(s)
      BY <1>0 DEF Book!Gone
    <2>2. /\ row' = [s \in Tickers |-> IF s \in gone THEN "inactive"
                        ELSE IF s \in answered /\ ~Book!IsActive(s) THEN "listed" ELSE row[s]]
          /\ bookStamp' = Book!Stamped(answered \cup gone)
          /\ jobs' \subseteq jobs /\ UNCHANGED <<trading, closing>>
          /\ bookFails' \in 0..BookFaults
      BY <1>0, <1>3 DEF Book!SyncUniverse, Book!Settles
    <2> HIDE DEF gone, answered
    <2>3. /\ bookStamp' \in [Tickers -> 0..Cardinality(Tickers)]
          /\ \A s \in Tickers : bookStamp'[s] = 0 <=> s \notin (answered \cup gone) /\ bookStamp[s] = 0
      BY <2>1, <2>2, StampedStep
    <2>4. row' \in [Tickers -> Book!Row]  BY <1>0, <2>2 DEF Book!Row
    <2>5. \A s \in Tickers : row'[s] = "none" <=> s \notin (answered \cup gone) /\ row[s] = "none"
      BY <1>0, <2>2 DEF Book!IsActive
    <2>6. \A s \in Tickers : row'[s] = "none" <=> bookStamp'[s] = 0  BY <1>0, <2>3, <2>5
    <2> QED  BY <1>0, <2>2, <2>3, <2>4, <2>6, SameCardinality DEF Book!TypeOK
  <1>4. ASSUME NEW s \in Tickers, Book!SyncDetail(s) PROVE Book!TypeOK'
    <2>1. CASE s \in trading
      <3>1. /\ row' = [row EXCEPT ![s] = IF s \in Undated THEN "listed" ELSE "detailed"]
            /\ bookStamp' = Book!Stamped({s}) /\ jobs' \subseteq jobs /\ UNCHANGED <<trading, closing, bookFails>>
        BY <1>4, <2>1 DEF Book!SyncDetail, Book!Settles
      <3>2. /\ bookStamp' \in [Tickers -> 0..Cardinality(Tickers)]
            /\ \A t \in Tickers : bookStamp'[t] = 0 <=> t \notin {s} /\ bookStamp[t] = 0
        BY <3>1, StampedStep
      <3>3. row' \in [Tickers -> Book!Row] /\ \A t \in Tickers : row'[t] = "none" <=> t # s /\ row[t] = "none"
        BY <1>0, <3>1 DEF Book!Row
      <3> QED  BY <1>0, <3>1, <3>2, <3>3, SameCardinality DEF Book!TypeOK
    <2>2. CASE s \notin trading
      BY <1>0, <1>4, <2>2 DEF Book!SyncDetail, Book!Settles, Book!TypeOK
    <2> QED  BY <2>1, <2>2
  <1>5. ASSUME NEW s \in Tickers, Book!SyncDelisted(s) PROVE Book!TypeOK'
    <2>1. CASE s \in trading \/ s \in NoAnswer
      BY <1>0, <1>5, <2>1 DEF Book!SyncDelisted, Book!Settles, Book!TypeOK
    <2>2. CASE ~(s \in trading \/ s \in NoAnswer)
      <3>1. /\ row' = [row EXCEPT ![s] = "delisted"]
            /\ bookStamp' = IF bookStamp[s] = 0 THEN Book!Stamped({s}) ELSE bookStamp
            /\ jobs' \subseteq jobs /\ UNCHANGED <<trading, closing, bookFails>>
        BY <1>5, <2>2 DEF Book!SyncDelisted, Book!Settles
      <3>2. /\ bookStamp' \in [Tickers -> 0..Cardinality(Tickers)]
            /\ \A t \in Tickers : bookStamp'[t] = 0 <=> t # s /\ bookStamp[t] = 0
        <4>1. CASE bookStamp[s] = 0  BY <3>1, <4>1, StampedStep
        <4>2. CASE bookStamp[s] # 0  BY <1>0, <3>1, <4>2
        <4> QED  BY <4>1, <4>2
      <3>3. row' \in [Tickers -> Book!Row] /\ \A t \in Tickers : row'[t] = "none" <=> t # s /\ row[t] = "none"
        BY <1>0, <3>1 DEF Book!Row
      <3> QED  BY <1>0, <3>1, <3>2, <3>3, SameCardinality DEF Book!TypeOK
    <2> QED  BY <2>1, <2>2
  <1>6. ASSUME NEW k \in Book!Jobs, Book!Fail(k) PROVE Book!TypeOK'
    BY <1>0, <1>6 DEF Book!Fail, Book!Settles, Book!TypeOK
  <1>7. ASSUME NEW s \in Tickers, Book!Retires(s) \/ Book!ClosesAge(s) PROVE Book!TypeOK'
    BY <1>0, <1>7 DEF Book!Retires, Book!ClosesAge, Book!TypeOK
  <1>8. CASE UNCHANGED Book!vars  BY <1>0, <1>8 DEF Book!vars, Book!TypeOK
  <1> QED  BY <1>1, <1>2, <1>3, <1>4, <1>5, <1>6, <1>7, <1>8 DEF Book!Next

-----------------------------------------------------------------------------
(* The splits.  Notes and pulls are of splits and symbols there are, and age within bounds. *)

\* No split is noted yet.
LEMMA MendInit == ASSUME MendAssumption, Mend!Init PROVE Mend!TypeOK
  BY DEF MendAssumption, Mend!Init, Mend!TypeOK, Mend!NoNote

\* Every step of the slot, the pulls and the days.
LEMMA MendNext == ASSUME MendAssumption, Mend!TypeOK, [Mend!Next]_(Mend!vars) PROVE Mend!TypeOK'
  <1>0. /\ feed \in [SplitSymbols -> 0..SplitsListed] /\ ex \in [SplitSymbols -> 0..SplitsListed]
        /\ known \in [SplitSymbols -> 0..SplitsListed]
        /\ SplitsListed \in Nat /\ PullRetry \in Nat /\ MendFaults \in Nat /\ Mend!NoNote \in Nat /\ Mend!NoNote = PullRetry + 2
    BY DEF Mend!TypeOK, MendAssumption, Mend!NoNote
  <1> HIDE DEF Mend!NoNote
  <1>1. \A s \in Mend!Restated : s \in SplitSymbols /\ Mend!Due(s) \in Mend!Splits
    <2> SUFFICES ASSUME NEW s \in SplitSymbols, Mend!Torn(s) PROVE Mend!Due(s) \in Mend!Splits
      BY DEF Mend!Restated
    <2>1. PICK n \in scales[s] : n < Mend!Due(s)  BY DEF Mend!Torn
    <2>2. n \in 0..SplitsListed  BY DEF Mend!TypeOK
    <2>3. Mend!Due(s) \in 0..SplitsListed  BY <1>0 DEF Mend!Due
    <2> QED  BY <1>0, <2>1, <2>2, <2>3 DEF Mend!Splits
  <1>2. ASSUME NEW lost \in SUBSET SplitSymbols, Mend!Corporate(lost) PROVE Mend!TypeOK'
    <2>1. pulls' \subseteq Mend!Pulls  BY <1>1, <1>2 DEF Mend!Corporate, Mend!TypeOK, Mend!Pulls
    <2>2. mendNote' \in [SplitSymbols -> [Mend!Splits -> 0..Mend!NoNote]]
      <3>1. \A s \in SplitSymbols, k \in Mend!Splits : [mendNote[s] EXCEPT ![k] = 0] \in [Mend!Splits -> 0..Mend!NoNote]
        BY <1>0 DEF Mend!TypeOK
      <3>2. mendNote' = [s \in SplitSymbols |-> IF s \in Mend!Restated \ lost THEN [mendNote[s] EXCEPT ![Mend!Due(s)] = 0]
                                                ELSE mendNote[s]]
        BY <1>2 DEF Mend!Corporate
      <3>3. \A s \in SplitSymbols : mendNote[s] \in [Mend!Splits -> 0..Mend!NoNote]
        BY DEF Mend!TypeOK
      <3> QED  BY <1>1, <3>1, <3>2, <3>3
    <2>3. mendFails' \in 0..MendFaults
      BY <1>2 DEF Mend!Corporate, Mend!Fails, Mend!TypeOK, MendAssumption
    <2> QED  BY <1>2, <2>1, <2>2, <2>3 DEF Mend!Corporate, Mend!TypeOK
  <1>3. ASSUME NEW S \in SUBSET SplitSymbols, Mend!LearnSplits(S) PROVE Mend!TypeOK'
    <2>1. known' \in [SplitSymbols -> 0..SplitsListed]  BY <1>0, <1>3 DEF Mend!LearnSplits
    <2> QED  BY <1>0, <1>3, <2>1 DEF Mend!LearnSplits, Mend!TypeOK
  <1>4. ASSUME NEW p \in Mend!Pulls, Mend!Repull(p) PROVE Mend!TypeOK'
    <2>1. p[1] \in SplitSymbols /\ ex[p[1]] \in 0..SplitsListed  BY <1>0 DEF Mend!Pulls
    <2> DEFINE torn == {n \in scales[p[1]] : n < p[2]}
               new == (scales[p[1]] \ torn) \cup {ex[p[1]]} \cup (IF p[1] \in NotReturned THEN torn ELSE {})
    <2>2. scales' = [scales EXCEPT ![p[1]] = new]  BY <1>4 DEF Mend!Repull
    <2>3. new \subseteq 0..SplitsListed  BY <2>1 DEF Mend!TypeOK
    <2> HIDE DEF new
    <2>4. scales' \in [SplitSymbols -> SUBSET (0..SplitsListed)]  BY <2>2, <2>3 DEF Mend!TypeOK
    <2> QED  BY <1>4, <2>4 DEF Mend!Repull, Mend!Takes, Mend!TypeOK
  <1>5. ASSUME NEW p \in Mend!Pulls, Mend!RepullFails(p) PROVE Mend!TypeOK'
    BY <1>5 DEF Mend!RepullFails, Mend!Takes, Mend!Fails, Mend!TypeOK, MendAssumption
  <1>6. CASE Mend!DayPasses
    <2>1. mendNote' \in [SplitSymbols -> [Mend!Splits -> 0..Mend!NoNote]]
      <3>1. \A s \in SplitSymbols, k \in Mend!Splits :
               (IF mendNote[s][k] <= PullRetry THEN mendNote[s][k] + 1 ELSE mendNote[s][k]) \in 0..Mend!NoNote
        BY <1>0 DEF Mend!TypeOK
      <3>2. mendNote' = [s \in SplitSymbols |->
                      [k \in Mend!Splits |-> IF mendNote[s][k] <= PullRetry THEN mendNote[s][k] + 1 ELSE mendNote[s][k]]]
        BY <1>6 DEF Mend!DayPasses
      <3> QED  BY <3>1, <3>2
    <2> QED  BY <1>6, <2>1 DEF Mend!DayPasses, Mend!TypeOK
  <1>7. ASSUME NEW s \in SplitSymbols, Mend!NewBar(s) \/ Mend!ListsSplit(s) \/ Mend!GoesEx(s) PROVE Mend!TypeOK'
    <2>1. CASE Mend!NewBar(s)
      <3>1. scales' = [scales EXCEPT ![s] = scales[s] \cup {ex[s]}]  BY <2>1 DEF Mend!NewBar
      <3>2. scales' \in [SplitSymbols -> SUBSET (0..SplitsListed)]  BY <1>0, <3>1 DEF Mend!TypeOK
      <3> QED  BY <2>1, <3>2 DEF Mend!NewBar, Mend!TypeOK
    <2>2. CASE Mend!ListsSplit(s)
      <3>1. feed' \in [SplitSymbols -> 0..SplitsListed]  BY <1>0, <2>2 DEF Mend!ListsSplit
      <3> QED  BY <1>0, <2>2, <3>1 DEF Mend!ListsSplit, Mend!TypeOK
    <2>3. CASE Mend!GoesEx(s)
      <3>1. ex' \in [SplitSymbols -> 0..SplitsListed]  BY <1>0, <2>3 DEF Mend!GoesEx
      <3> QED  BY <1>0, <2>3, <3>1 DEF Mend!GoesEx, Mend!TypeOK
    <2> QED  BY <1>7, <2>1, <2>2, <2>3
  <1>8. CASE UNCHANGED Mend!vars  BY <1>8 DEF Mend!vars, Mend!TypeOK
  <1> QED  BY <1>2, <1>3, <1>4, <1>5, <1>6, <1>7, <1>8 DEF Mend!Next

-----------------------------------------------------------------------------
(* The dividends.  Jobs are of the windows there are, answers of what is listed. *)

\* No job waits yet.
LEMMA PayInit == ASSUME PayAssumption, Pay!Init PROVE Pay!TypeOK
  BY DEF PayAssumption, Pay!Init, Pay!TypeOK

\* Every step of the slots and the jobs.
LEMMA PayNext == ASSUME PayAssumption, Pay!TypeOK, [Pay!Next]_(Pay!vars) PROVE Pay!TypeOK'
  <1> USE DEF Pay!TypeOK, PayAssumption
  <1>1. CASE Pay!Corporate \/ Pay!CorporateBackfill
    BY <1>1 DEF Pay!Corporate, Pay!CorporateBackfill, Pay!Jobs
  <1>2. ASSUME NEW j \in Pay!Jobs, NEW rows \in SUBSET Pay!Dividend, NEW truncated \in BOOLEAN,
               Pay!Fetch(j, rows, truncated)
        PROVE  Pay!TypeOK'
    <2>1. rows \subseteq Pay!Covered(j) /\ dividendFails' \in 0..DividendFaults
      BY <1>2 DEF Pay!Fetch
    <2>2. answers' = answers \cup {<<j, rows, truncated>>} /\ asking' \subseteq asking
          /\ UNCHANGED <<paid, held>>
      BY <1>2 DEF Pay!Fetch
    <2> QED  BY <2>1, <2>2
  <1>3. ASSUME NEW a \in answers, Pay!Replace(a) PROVE Pay!TypeOK'
    <2>1. a[2] \subseteq Pay!Covered(a[1]) /\ InWindow \subseteq Pay!Dividend  OBVIOUS
    <2>2. a[2] \subseteq Pay!Dividend  BY <2>1 DEF Pay!Covered
    <2> QED  BY <1>3, <2>2 DEF Pay!Replace, Pay!Ends
  <1>4. ASSUME NEW a \in answers, Pay!Fail(a) PROVE Pay!TypeOK'  BY <1>4 DEF Pay!Fail, Pay!Ends
  <1>5. ASSUME NEW d \in Pay!Dividend, Pay!Lists(d) \/ Pay!Withdraws(d) PROVE Pay!TypeOK'
    BY <1>5 DEF Pay!Lists, Pay!Withdraws
  <1>6. CASE UNCHANGED Pay!vars  BY <1>6 DEF Pay!vars
  <1> QED  BY <1>1, <1>2, <1>3, <1>4, <1>5, <1>6 DEF Pay!Next

-----------------------------------------------------------------------------
(* All parts together.  A step of one is a step that leaves the others alone, so what each *)
(* part's steps preserve, a step of AllNext preserves.                                     *)

\* A step of the whole is a step of a part, and a step of no other.
LEMMA StepsOfParts ==
    ASSUME [AllNext]_allVars
    PROVE  /\ [Next]_vars /\ [Book!Next]_(Book!vars) /\ [Mend!Next]_(Mend!vars)
           /\ [Pay!Next]_(Pay!vars)
  <1> USE DEF Book!vars, Mend!vars, Pay!vars, bookVars, mendVars, payVars
  <1>1. CASE AllNext
    <2>1. Frozen  BY <1>1 DEF AllNext
    <2>2. /\ part = "catalogue" => Next
          /\ part = "book"      => Book!Next
          /\ part = "splits"    => Mend!Next
          /\ part = "dividends" => Pay!Next
      BY <1>1 DEF AllNext
    <2> QED  BY <2>1, <2>2 DEF Frozen
  <1>2. CASE UNCHANGED allVars  BY <1>2 DEF allVars
  <1> QED  BY <1>1, <1>2

\* The ranks of the rotations, the ages of the notes and the jobs that wait are values of
\* their kind, for any number of names, seats, splits and dividends: the stamps stay dense,
\* so that a rank never exceeds the number of names (contracts.py, ticker.py).
THEOREM ListingTypes == AllSpec => []TypesOK
  <1>1. AllInit => TypesOK
    <2> SUFFICES ASSUME AllInit PROVE TypesOK  OBVIOUS
    <2> USE ListingAssumption DEF AllInit
    <2>1. TypeOK  BY CatalogueInit
    <2>2. Book!TypeOK  BY BookInit
    <2>3. Mend!TypeOK  BY MendInit
    <2>4. Pay!TypeOK  BY PayInit
    <2> QED  BY <2>1, <2>2, <2>3, <2>4 DEF TypesOK
  <1>2. TypesOK /\ [AllNext]_allVars => TypesOK'
    <2> SUFFICES ASSUME TypesOK, [AllNext]_allVars PROVE TypesOK'  OBVIOUS
    <2> USE ListingAssumption, StepsOfParts DEF TypesOK
    <2>1. TypeOK'  BY CatalogueNext
    <2>2. Book!TypeOK'  BY BookNext
    <2>3. Mend!TypeOK'  BY MendNext
    <2>4. Pay!TypeOK'  BY PayNext
    <2> QED  BY <2>1, <2>2, <2>3, <2>4
  <1> QED  BY <1>1, <1>2, PTL DEF AllSpec

=============================================================================
