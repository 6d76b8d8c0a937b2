------------------------ MODULE ImprovementReviewProofs ------------------------
(***************************************************************************)
(* Theorems about ImprovementReview, for any people, roles and number of   *)
(* processes, any interleaving of their requests, cut off anywhere, and    *)
(* any bounds: the state is well typed; in a ledger that one process at a time *)
(* appended to every approval was earned; between requests the projection  *)
(* shows the ledgers; and the company's rules are those of the approved    *)
(* promotions.                                                             *)
(*                                                                         *)
(* ReviewInv says what a request knows of the file it loaded at each place *)
(* of its handler, and what a file is worth: versions grow with the file,  *)
(* and if no record was chained to a stale tip, approvals were earned.     *)
(* Current and RulesInv add what a row, or the rules of a promotion, may   *)
(* be while a request that changes them is on its way.                     *)
(***************************************************************************)
EXTENDS ImprovementReview, FiniteSetTheorems, WellFoundedInduction, TLAPS

\* Versions and Latest, of any ledger.
Of(l, view, i) == {n \in view : l[n].id = i}

Precedes(l, k, n) ==
  l[k].version < l[n].version \/ (l[k].version = l[n].version /\ k < n)

LatestIn(l, view, i) ==
  l[CHOOSE n \in Of(l, view, i) : \A k \in Of(l, view, i) \ {n} : Precedes(l, k, n)]

Tops(l, view, i, n) ==
  n \in Of(l, view, i) /\ \A k \in Of(l, view, i) \ {n} : Precedes(l, k, n)

\* A ledger that only one process at a time appended to.
Unforked(l) == \A n \in DOMAIN l : l[n].seen = n - 1

Pending == {"draft", "evaluated"}

\* Versions grow, a proposal that is open always was, and an approval comes right
\* after an evaluation and from another role.
Earned(l) ==
  \A n \in DOMAIN l :
    /\ \A k \in 1..(n - 1) : l[k].id = l[n].id =>
         l[k].version < l[n].version /\ (l[n].state \in Pending => l[k].state \in Pending)
    /\ l[n].state = "approved" =>
         /\ Role[l[n].actor] # Role[l[n].by]
         /\ \E k \in 1..(n - 1) : /\ l[k].id = l[n].id /\ l[k].state = "evaluated"
                                 /\ l[k].version = l[n].version - 1
         /\ \A k \in 1..(n - 1) : l[k].id = l[n].id => l[k].state \in Pending

LedgerOK(o, l) ==
  /\ \A n \in DOMAIN l : l[n].id <= n /\ l[n].version <= n /\ l[n].seen < n
  /\ o \in Accounts => \A n \in DOMAIN l : l[n].by = o
  /\ Unforked(l) => Earned(l)

\* What a writer that has the whole ledger knows of the version it appends.
Grounded(l, view, i, state, by, actor) ==
  /\ view = DOMAIN l
  /\ state \in Pending => Of(l, view, i) = {} \/ LatestIn(l, view, i).state \in Pending
  /\ state = "approved" => /\ Of(l, view, i) # {} /\ LatestIn(l, view, i).state = "evaluated"
                           /\ Role[actor] # Role[by]
-------------------------------------------------------------------------------
(* The latest version.                                                      *)

\* A bounded set of numbers has a largest one.
LEMMA LargestNumber ==
  ASSUME NEW N \in Nat, NEW S \in SUBSET (0..N), S # {}
  PROVE  \E x \in S : \A y \in S : y <= x
<1> DEFINE T == {m \in Nat : \A y \in S : y <= m}
           R == OpToRel(<, Nat)
<1>1. T \in SUBSET Nat /\ N \in T OBVIOUS
<1>2. \A x, y \in Nat : x < y => <<x, y>> \in R BY DEF OpToRel
<1>3. IsWellFoundedOn(R, Nat) BY NatLessThanWellFounded
<1> HIDE DEF R
<1>4. PICK m \in T : \A y \in T : ~(<<y, m>> \in R)
  <2> HIDE DEF T
  <2> QED BY <1>1, <1>3, WFMin
<1>5. m \in Nat /\ \A y \in S : y \in Nat /\ y <= m OBVIOUS
<1>6. m \in S
  <2> SUFFICES ASSUME m \notin S PROVE FALSE OBVIOUS
  <2>1. \A y \in S : y \in Nat /\ y < m BY <1>5
  <2>2. PICK y \in S : y \in Nat /\ y < m BY <2>1
  <2>3. m - 1 \in Nat /\ m - 1 < m BY <1>5, <2>2
  <2>4. m - 1 \in T BY <2>1, <2>3, <1>5
  <2>5. <<m - 1, m>> \in R BY <1>2, <1>5, <2>3
  <2> QED BY <1>4, <2>4, <2>5
<1> QED BY <1>5, <1>6

\* The latest version of the model is that of the ledger it is read from.
LEMMA LatestIs ==
  ASSUME NEW o, NEW view, NEW i
  PROVE  /\ Latest(o, view, i) = LatestIn(ledger[o], view, i)
         /\ Latest(o, view, i)' = LatestIn(ledger'[o], view', i')
BY DEF Latest, Newest, Versions, LatestIn, Of, Precedes

\* Of the versions of a proposal one is the latest.
LEMMA LatestTops ==
  ASSUME NEW l \in Seq(LedgerRecord), NEW view \in SUBSET DOMAIN l, NEW i,
         Of(l, view, i) # {}
  PROVE  \E n \in Of(l, view, i) : Tops(l, view, i, n) /\ LatestIn(l, view, i) = l[n]
<1> DEFINE P == Of(l, view, i)
<1>1. P \subseteq DOMAIN l /\ P # {} /\ Len(l) \in Nat /\ DOMAIN l = 1..Len(l) BY DEF Of
<1>2. \A n \in P : n \in Nat /\ n <= Len(l) /\ l[n].version \in Ids
  <2>1. \A n \in DOMAIN l : l[n] \in LedgerRecord OBVIOUS
  <2> QED BY <1>1, <2>1 DEF LedgerRecord
<1> HIDE DEF P
<1>3. PICK v \in {l[n].version : n \in P} : \A w \in {l[n].version : n \in P} : w <= v
  <2>1. MaxRecords \in Nat BY ReviewAssumption
  <2>2. {l[n].version : n \in P} \in SUBSET (0..MaxRecords) BY <1>2, <2>1 DEF Ids
  <2>3. {l[n].version : n \in P} # {} BY <1>1
  <2> QED BY <2>1, <2>2, <2>3, LargestNumber
<1>4. PICK n \in {k \in P : l[k].version = v} : \A k \in {k \in P : l[k].version = v} : k <= n
  <2>1. {k \in P : l[k].version = v} \in SUBSET (0..Len(l)) BY <1>2
  <2>2. {k \in P : l[k].version = v} # {} BY <1>3
  <2> QED BY <1>1, <2>1, <2>2, LargestNumber
<1>5. ASSUME NEW k \in P \ {n} PROVE Precedes(l, k, n)
  <2>1. l[k].version <= v /\ l[n].version = v /\ k \in Nat /\ n \in Nat
        /\ l[k].version \in Nat /\ v \in Nat
    BY <1>2, <1>3, <1>4 DEF Ids
  <2>2. CASE l[k].version = v
    <3>1. k <= n BY <1>4, <2>2
    <3> QED BY <1>5, <2>1, <2>2, <3>1 DEF Precedes
  <2>3. CASE l[k].version # v BY <2>1, <2>3 DEF Precedes
  <2> QED BY <2>2, <2>3
<1>6. Tops(l, view, i, n) BY <1>4, <1>5 DEF Tops, P
<1>7. ASSUME NEW m \in P, \A k \in P \ {m} : Precedes(l, k, m) PROVE m = n
  <2> SUFFICES ASSUME m # n PROVE FALSE OBVIOUS
  <2>1. Precedes(l, n, m) /\ Precedes(l, m, n) BY <1>4, <1>5, <1>7
  <2>2. m \in Nat /\ n \in Nat /\ l[m].version \in Nat /\ l[n].version \in Nat
    BY <1>2, <1>4 DEF Ids
  <2> QED BY <2>1, <2>2 DEF Precedes
<1>8. (CHOOSE m \in P : \A k \in P \ {m} : Precedes(l, k, m)) = n BY <1>4, <1>5, <1>7
<1>9. LatestIn(l, view, i) = l[n] BY <1>8 DEF LatestIn, P
<1> QED BY <1>4, <1>6, <1>9 DEF P

\* It is the same in two ledgers that have the same versions of the proposal.
LEMMA LatestSame ==
  ASSUME NEW l \in Seq(LedgerRecord), NEW view \in SUBSET DOMAIN l, NEW i,
         NEW m \in Seq(LedgerRecord), NEW w \in SUBSET DOMAIN m,
         Of(l, view, i) # {}, Of(m, w, i) = Of(l, view, i),
         \A n \in Of(l, view, i) : m[n] = l[n]
  PROVE  LatestIn(m, w, i) = LatestIn(l, view, i)
<1>1. PICK n \in Of(l, view, i) : Tops(l, view, i, n) /\ LatestIn(l, view, i) = l[n]
  BY LatestTops
<1>2. PICK k \in Of(m, w, i) : Tops(m, w, i, k) /\ LatestIn(m, w, i) = m[k]
  BY LatestTops
<1>3. k = n
  <2> SUFFICES ASSUME k # n PROVE FALSE OBVIOUS
  <2>1. Precedes(l, k, n) /\ Precedes(m, n, k) BY <1>1, <1>2 DEF Tops
  <2>2. m[n] = l[n] /\ m[k] = l[k] OBVIOUS
  <2>3. k \in DOMAIN l /\ n \in DOMAIN l BY DEF Of
  <2>4. k \in Nat /\ n \in Nat /\ l[k] \in LedgerRecord /\ l[n] \in LedgerRecord
    <3>1. DOMAIN l = 1..Len(l) /\ Len(l) \in Nat /\ \A j \in DOMAIN l : l[j] \in LedgerRecord
      OBVIOUS
    <3> QED BY <2>3, <3>1
  <2>5. l[k].version \in Ids /\ l[n].version \in Ids BY <2>4 DEF LedgerRecord
  <2>6. l[k].version \in Nat /\ l[n].version \in Nat BY <2>5 DEF Ids
  <2> QED BY <2>1, <2>2, <2>4, <2>6 DEF Precedes
<1> QED BY <1>1, <1>2, <1>3

\* In a ledger that only one process appended to, it is the last one in the file.
LEMMA LatestEarned ==
  ASSUME NEW l \in Seq(LedgerRecord), Earned(l), NEW i, Of(l, DOMAIN l, i) # {}
  PROVE  \E n \in Of(l, DOMAIN l, i) :
           /\ LatestIn(l, DOMAIN l, i) = l[n]
           /\ \A k \in Of(l, DOMAIN l, i) :
                /\ l[k].version <= l[n].version
                /\ l[n].state \in Pending => l[k].state \in Pending
<1>0. DOMAIN l = 1..Len(l) /\ Len(l) \in Nat /\ \A n \in DOMAIN l : l[n] \in LedgerRecord
  OBVIOUS
<1>1. \A n \in DOMAIN l : n \in Nat /\ l[n].version \in Nat
  <2>1. \A n \in DOMAIN l : n \in Nat /\ l[n].version \in Ids BY <1>0 DEF LedgerRecord
  <2> QED BY <2>1 DEF Ids
<1>2. PICK n \in Of(l, DOMAIN l, i) :
        Tops(l, DOMAIN l, i, n) /\ LatestIn(l, DOMAIN l, i) = l[n]
  BY LatestTops
<1>3. ASSUME NEW k \in Of(l, DOMAIN l, i)
      PROVE  l[k].version <= l[n].version /\ (l[n].state \in Pending => l[k].state \in Pending)
  <2>1. k \in DOMAIN l /\ n \in DOMAIN l /\ l[k].id = l[n].id BY DEF Of
  <2>2. CASE k = n BY <1>1, <2>1, <2>2
  <2>3. CASE k # n
    <3>1. Precedes(l, k, n) BY <1>2, <2>3 DEF Tops
    <3>2. ~(n < k)
      <4> SUFFICES ASSUME n < k PROVE FALSE OBVIOUS
      <4>1. n \in 1..(k - 1) BY <1>0, <1>1, <2>1
      <4>2. l[n].version < l[k].version BY <2>1, <4>1 DEF Earned
      <4> QED BY <1>1, <2>1, <3>1, <4>2 DEF Precedes
    <3>3. k \in 1..(n - 1) BY <1>0, <1>1, <2>1, <2>3, <3>2
    <3> QED BY <1>1, <2>1, <3>3 DEF Earned
  <2> QED BY <2>2, <2>3
<1> QED BY <1>2, <1>3

\* The tip of a view is one of its records.
LEMMA TipIn ==
  ASSUME NEW N \in Nat, NEW view \in SUBSET (1..N)
  PROVE  /\ Tip(view) \in 0..N
         /\ \A m \in 0..N : view = 1..m => Tip(view) = m
<1>1. CASE view = {}
  <2>1. Tip(view) = 0 BY <1>1 DEF Tip
  <2>2. \A m \in 0..N : view = 1..m => m = 0 BY <1>1
  <2> QED BY <2>1, <2>2
<1>2. CASE view # {}
  <2>0. view \in SUBSET (0..N) OBVIOUS
  <2>1. PICK n \in view : \A k \in view : k <= n BY <1>2, <2>0, LargestNumber
  <2>2. \A m \in view : (\A k \in view : k <= m) => m = n BY <2>1
  <2>3. Tip(view) = n BY <1>2, <2>1, <2>2 DEF Tip
  <2>4. ASSUME NEW m \in 0..N, view = 1..m PROVE m = n
    <3>1. m \in view BY <1>2, <2>4
    <3> QED BY <2>1, <2>4, <3>1
  <2> QED BY <2>3, <2>4
<1> QED BY <1>1, <1>2

\* A step writes a record, and the ledger stays sound.
Writes(o, view, i, state, by, actor, rec) ==
  /\ rec.id = i /\ rec.state = state /\ rec.by = by /\ rec.actor = actor
  /\ rec.seen = Tip(view)
  /\ ledger' = [ledger EXCEPT ![o] = Append(@, rec)]
  /\ LedgerOK(o, Append(ledger[o], rec))

\* A version that is appended leaves a sound ledger.
LEMMA NoteKeeps ==
  ASSUME NEW o \in Owners, ledger \in [Owners -> Seq(LedgerRecord)], LedgerOK(o, ledger[o]),
         NEW view \in SUBSET DOMAIN ledger[o], NEW i \in Ids, i <= Len(ledger[o]) + 1,
         NEW state \in States, NEW by \in Owners, NEW actor \in Accounts,
         o \in Accounts => by = o,
         \A n \in Of(ledger[o], view, i) : ledger[o][n].version < MaxRecords,
         Unforked(ledger[o]) /\ Tip(view) = Len(ledger[o]) =>
           Grounded(ledger[o], view, i, state, by, actor),
         Note(o, view, i, state, by, actor)
  PROVE  \E rec \in LedgerRecord : Writes(o, view, i, state, by, actor, rec)
<1> DEFINE l == ledger[o]
           v == IF Of(l, view, i) = {} THEN 1 ELSE LatestIn(l, view, i).version + 1
           rec == [id |-> i, state |-> state, by |-> by, actor |-> actor,
                   seen |-> Tip(view), version |-> v]
           h == Len(l)
           m == Append(l, rec)
<1>1. /\ l \in Seq(LedgerRecord) /\ h \in Nat /\ DOMAIN l = 1..h
      /\ \A n \in DOMAIN l : l[n] \in LedgerRecord
  OBVIOUS
<1>2. \A n \in DOMAIN l : n \in Nat /\ l[n].version \in Nat
  <2>1. \A n \in DOMAIN l : n \in Nat /\ l[n].version \in Ids BY <1>1 DEF LedgerRecord
  <2> QED BY <2>1 DEF Ids
<1>3. Tip(view) \in 0..h BY <1>1, TipIn
<1>4. MaxRecords \in Nat /\ 1 \in Ids /\ i \in Nat BY ReviewAssumption DEF Ids
<1>5. v \in Ids /\ v <= h + 1
  <2>1. CASE Of(l, view, i) = {} BY <1>1, <1>4, <2>1
  <2>2. CASE Of(l, view, i) # {}
    <3>1. PICK n \in Of(l, view, i) : LatestIn(l, view, i) = l[n] BY <1>1, <2>2, LatestTops
    <3>2. n \in 1..h /\ l[n].version \in Nat /\ l[n].version <= n /\ l[n].version < MaxRecords
      BY <1>1, <1>2 DEF Of, LedgerOK
    <3>3. v = l[n].version + 1 BY <2>2, <3>1
    <3> HIDE DEF l, v, h
    <3> QED BY <1>1, <1>4, <3>2, <3>3 DEF Ids
  <2> QED BY <2>1, <2>2
<1>6. ledger' = [ledger EXCEPT ![o] = Append(@, rec)]
  <2>1. Versions(o, view, i) = Of(l, view, i) BY DEF Versions, Of
  <2>2. Latest(o, view, i) = LatestIn(l, view, i) BY LatestIs
  <2> QED BY <2>1, <2>2 DEF Note
<1> HIDE DEF v
<1>7. rec \in LedgerRecord BY <1>3, <1>5 DEF LedgerRecord
<1>8. /\ rec.id = i /\ rec.state = state /\ rec.by = by /\ rec.actor = actor
      /\ rec.seen = Tip(view) /\ rec.version = v
  OBVIOUS
<1> HIDE DEF rec
<1>9. /\ m \in Seq(LedgerRecord) /\ DOMAIN m = 1..(h + 1) /\ m[h + 1] = rec
      /\ \A n \in 1..h : m[n] = l[n]
      /\ \A n \in DOMAIN m : n \in 1..h \/ n = h + 1
  BY <1>1, <1>7
<1> HIDE DEF l, h, m
<1>10. \A n \in DOMAIN m : m[n].id <= n /\ m[n].version <= n /\ m[n].seen < n
  <2>1. \A n \in 1..h : m[n].id <= n /\ m[n].version <= n /\ m[n].seen < n
    BY <1>1, <1>9 DEF LedgerOK, l
  <2>2. rec.id <= h + 1 /\ rec.version <= h + 1 /\ rec.seen < h + 1
    BY <1>1, <1>3, <1>5, <1>8 DEF h, l
  <2> QED BY <1>9, <2>1, <2>2
<1>11. o \in Accounts => \A n \in DOMAIN m : m[n].by = o
  BY <1>1, <1>8, <1>9 DEF LedgerOK, l
<1>12. ASSUME Unforked(m) PROVE Earned(m)
  <2>1. Unforked(l)
    <3>1. \A n \in DOMAIN l : n \in DOMAIN m /\ m[n] = l[n] BY <1>1, <1>9
    <3> QED BY <1>12, <3>1 DEF Unforked
  <2>2. Tip(view) = h
    <3>1. h \in Nat BY <1>1
    <3>2. h + 1 \in DOMAIN m BY <1>9, <3>1
    <3>3. m[h + 1].seen = (h + 1) - 1 BY <1>12, <3>2 DEF Unforked
    <3>4. rec.seen = h BY <1>9, <3>1, <3>3
    <3> QED BY <1>8, <3>4
  <2>3. Earned(l) /\ Grounded(l, view, i, state, by, actor)
    BY <2>1, <2>2 DEF LedgerOK, l, h
  <2>4. ASSUME NEW k \in 1..h, l[k].id = i
        PROVE  /\ l[k].version < v
               /\ state \in Pending \/ state = "approved" => l[k].state \in Pending
    <3>1. k \in Of(l, view, i) /\ view = DOMAIN l BY <1>1, <2>3, <2>4 DEF Of, Grounded
    <3>2. PICK n \in Of(l, view, i) :
           /\ LatestIn(l, view, i) = l[n]
           /\ \A j \in Of(l, view, i) :
                l[j].version <= l[n].version /\ (l[n].state \in Pending => l[j].state \in Pending)
      BY <1>1, <2>3, <3>1, LatestEarned
    <3>3. v = l[n].version + 1 BY <3>1, <3>2 DEF v
    <3>4. n \in DOMAIN l /\ k \in DOMAIN l BY <3>1 DEF Of
    <3>5. l[k].version < v BY <1>2, <3>1, <3>2, <3>3, <3>4
    <3>6. state \in Pending => l[n].state \in Pending BY <2>3, <3>1, <3>2 DEF Grounded
    <3>7. state = "approved" => l[n].state \in Pending
      BY <2>3, <3>1, <3>2 DEF Grounded, Pending
    <3> QED BY <3>1, <3>2, <3>5, <3>6, <3>7
  <2>5. state = "approved" => \E k \in 1..h : /\ l[k].id = i /\ l[k].state = "evaluated"
                                            /\ l[k].version = v - 1
    <3> SUFFICES ASSUME state = "approved"
                 PROVE  \E k \in 1..h : /\ l[k].id = i /\ l[k].state = "evaluated"
                                       /\ l[k].version = v - 1
      OBVIOUS
    <3>1. /\ Of(l, view, i) # {} /\ LatestIn(l, view, i).state = "evaluated"
          /\ view = DOMAIN l
      BY <2>3 DEF Grounded
    <3>2. PICK n \in Of(l, view, i) : LatestIn(l, view, i) = l[n] BY <1>1, <3>1, LatestTops
    <3>3. v = l[n].version + 1 BY <3>1, <3>2 DEF v
    <3>4. n \in 1..h /\ l[n].id = i /\ l[n].version \in Nat BY <1>1, <1>2, <3>1 DEF Of
    <3> QED BY <3>1, <3>2, <3>3, <3>4
  <2>6. state = "approved" => Role[actor] # Role[by] BY <2>3 DEF Grounded
  <2>7. ASSUME NEW n \in DOMAIN m
        PROVE  /\ \A k \in 1..(n - 1) : m[k].id = m[n].id =>
                    m[k].version < m[n].version /\ (m[n].state \in Pending => m[k].state \in Pending)
               /\ m[n].state = "approved" =>
                    /\ Role[m[n].actor] # Role[m[n].by]
                    /\ \E k \in 1..(n - 1) : /\ m[k].id = m[n].id /\ m[k].state = "evaluated"
                                            /\ m[k].version = m[n].version - 1
                    /\ \A k \in 1..(n - 1) : m[k].id = m[n].id => m[k].state \in Pending
    <3>1. CASE n \in 1..h
      <4>1. m[n] = l[n] /\ n \in DOMAIN l /\ \A k \in 1..(n - 1) : m[k] = l[k]
        BY <1>1, <1>9, <3>1
      <4>2. /\ \A k \in 1..(n - 1) : l[k].id = l[n].id =>
                 l[k].version < l[n].version /\ (l[n].state \in Pending => l[k].state \in Pending)
            /\ l[n].state = "approved" =>
                 /\ Role[l[n].actor] # Role[l[n].by]
                 /\ \E k \in 1..(n - 1) : /\ l[k].id = l[n].id /\ l[k].state = "evaluated"
                                         /\ l[k].version = l[n].version - 1
                 /\ \A k \in 1..(n - 1) : l[k].id = l[n].id => l[k].state \in Pending
        BY <2>3, <4>1 DEF Earned
      <4> HIDE DEF l, m, h
      <4>3. /\ \A k \in 1..(n - 1) : m[k].id = m[n].id =>
                 m[k].version < m[n].version /\ (m[n].state \in Pending => m[k].state \in Pending)
        BY <4>1, <4>2
      <4>4. m[n].state = "approved" =>
                 \E k \in 1..(n - 1) : /\ m[k].id = m[n].id /\ m[k].state = "evaluated"
                                         /\ m[k].version = m[n].version - 1
        BY <4>1, <4>2
      <4>5. m[n].state = "approved" =>
                 /\ Role[m[n].actor] # Role[m[n].by]
                 /\ \A k \in 1..(n - 1) : m[k].id = m[n].id => m[k].state \in Pending
        BY <4>1, <4>2
      <4> QED BY <4>3, <4>4, <4>5
    <3>2. CASE n = h + 1
      <4>1. m[n] = rec /\ n - 1 = h BY <1>1, <1>9, <3>2
      <4> QED BY <1>8, <1>9, <2>4, <2>5, <2>6, <4>1
    <3> QED BY <1>9, <3>1, <3>2
  <2> QED BY <2>7 DEF Earned
<1>13. LedgerOK(o, m) BY <1>10, <1>11, <1>12 DEF LedgerOK
<1> QED BY <1>6, <1>7, <1>8, <1>13 DEF m, l, Writes
-------------------------------------------------------------------------------
(* The invariant.                                                           *)

Ordinary == {"propose", "evaluate", "approve", "reject", "rollback"}
Settling == {"settle_yes", "settle_no", "undo"}

\* What a request is at each of its places; known are the promotions it may name,
\* and size is the length of the company's memory.
Formed(r, known, size) ==
  /\ r.op = "none" => r = NoRequest
  /\ r.at \in {"append", "sync"} =>
       r.op \in Ordinary /\ r.owner \in Accounts /\ r.who \in Accounts /\ r.id \in Ids
  /\ r.at \in {"list", "replay"} => r.op = "rebuild" /\ r.owner \in Accounts
  /\ r.at \in {"load", "orgpropose", "orgevaluate", "insert"} =>
       r.op = "promote" /\ r.who \in Accounts /\ r.id \in Ids
  /\ r.op \in Settling <=>
       r.at \in {"orgappend", "rule", "record", "retire", "mark", "update"}
  /\ r.op \in Settling => r.who \in Accounts /\ r.id \in Ids /\ r.promo \in known
  /\ r.at \in {"rule", "record"} => r.op = "settle_yes"
  /\ r.at \in {"retire", "mark"} => r.op = "undo"
  /\ r.at \in {"record", "mark"} => \E m \in 0..size : r.view = 1..m

\* The file a request has loaded.
File(r) == IF r.at \in {"append", "sync", "replay"} THEN r.owner ELSE Org

\* What a request knows of that file, by the time it is at each place.
Reads(r, l) ==
  /\ r.at = "append" =>
       \E m \in 0..Len(l) :
         /\ r.view = 1..m /\ m < MaxRecords
         /\ IF r.op = "propose" THEN r.id = m + 1
            ELSE Of(l, r.view, r.id) # {}
                 /\ Permitted(r.op, r.who, r.owner, LatestIn(l, r.view, r.id))
  /\ r.at = "sync" => r.view \subseteq DOMAIN l /\ Of(l, r.view, r.id) # {}
  /\ r.at = "replay" => r.view \subseteq DOMAIN l
  /\ r.at = "orgpropose" => \E m \in 0..Len(l) : r.view = 1..m
  /\ r.at = "orgevaluate" =>
       /\ r.view \subseteq DOMAIN l /\ Of(l, r.view, r.promo) # {}
       /\ Unforked(l) => /\ r.promo \in DOMAIN l /\ r.view = 1..r.promo
                         /\ l[r.promo].id = r.promo /\ l[r.promo].state = "draft"
  /\ r.at = "insert" => Of(l, DOMAIN l, r.promo) # {}
  /\ r.at = "orgappend" =>
       /\ \E m \in 0..Len(l) : r.view = 1..m
       /\ Of(l, r.view, r.id) # {}
       /\ r.op = "settle_yes" => LatestIn(l, r.view, r.id).state = "evaluated"
                                 /\ Independent(r.who, LatestIn(l, r.view, r.id).by)

\* A file holds a version of the proposal.
Has(l, i) == Of(l, DOMAIN l, i) # {}

RequestsOK ==
  \A p \in Processes :
    Formed(req[p], DOMAIN promo, Len(rules)) /\ Reads(req[p], ledger[File(req[p])])

ReviewInv ==
  /\ TypeOK
  /\ \A o \in Owners : LedgerOK(o, ledger[o])
  /\ RequestsOK
  /\ \A i \in Ids : row[i] # NoRow => Has(ledger[row[i].owner], i)
  /\ \A k \in DOMAIN promo : Has(ledger[Org], promo[k].org)

\* A proposal whose row is not current is one some request is about to project.
RowIs(rw, l, o, i) ==
  rw = [owner |-> o, state |-> LatestIn(l, DOMAIN l, i).state,
        version |-> LatestIn(l, DOMAIN l, i).version]

Projects(r, l, o, i) ==
  /\ r.owner = o
  /\ \/ r.at = "list"
     \/ r.at = "replay" /\ \E n \in r.view : l[n].id = i
     \/ r.at = "sync" /\ r.id = i

Alone(led, o, i) == Has(led[o], i) /\ \A a \in Accounts \ {o} : ~Has(led[a], i)

CurrentAt(led, rws, rqs, o, i) ==
  Alone(led, o, i) =>
    RowIs(rws[i], led[o], o, i) \/ \E p \in Processes : Projects(rqs[p], led[o], o, i)

Current ==
  \A o \in Accounts \ behind : \A i \in Ids : CurrentAt(ledger, row, req, o, i)

\* The entries of a promotion, those a marker names, and those that stand: a marker
\* deletes the last entry that bears the number it names.
Own(rs, k) == {n \in DOMAIN rs : rs[n].promo = k}
StruckIn(rs, n) == \E m \in DOMAIN rs : rs[m].target = rs[n].rid

Dropped(rs) ==
  {n \in DOMAIN rs : StruckIn(rs, n) /\ \A k \in DOMAIN rs : rs[k].rid = rs[n].rid => k <= n}

Kept(rs) == DOMAIN rs \ Dropped(rs)

\* A marker names a number that some entry bears.
Borne(rs) ==
  \A m \in DOMAIN rs : rs[m].target # 0 => \E n \in DOMAIN rs : rs[n].rid = rs[m].target

\* A rule of the promotion shares its number.
Twin(rs, k) == \E n, m \in DOMAIN rs : n # m /\ rs[n].promo = k /\ rs[m].rid = rs[n].rid

Single(rs, k) == \E n \in DOMAIN rs : Own(rs, k) = {n} /\ ~StruckIn(rs, n)
Gone(rs, k) == (\A n \in Own(rs, k) : StruckIn(rs, n)) \/ Cardinality(Kept(rs)) > Window

\* What the rules of a promotion are while no request works on it, and while one does.
Resting(rs, k, state) ==
  /\ state = "approved" => Single(rs, k)
  /\ state = "rolled_back" => Gone(rs, k)
  /\ state \notin {"approved", "rolled_back"} => Own(rs, k) = {}

Working(rs, k, state, r) ==
  /\ r.at \in {"orgappend", "rule", "record", "retire", "mark"} =>
       /\ state = IF r.op = "undo" THEN "approved" ELSE "requested"
       /\ Resting(rs, k, state)
  /\ r.at = "update" =>
       /\ r.op = "settle_yes" => Single(rs, k)
       /\ r.op = "settle_no" => Own(rs, k) = {}
       /\ r.op = "undo" => Gone(rs, k)

\* At most one request works on a promotion, and its rules are what they should be.
PromotionOK(rs, state, rqs, k) ==
  /\ \A p, q \in Processes : /\ rqs[p].op \in Settling /\ rqs[p].promo = k
                             /\ rqs[q].op \in Settling /\ rqs[q].promo = k
                             => p = q
  /\ (\A p \in Processes : ~(rqs[p].op \in Settling /\ rqs[p].promo = k)) => Resting(rs, k, state)
  /\ \A p \in Processes :
       rqs[p].op \in Settling /\ rqs[p].promo = k => Working(rs, k, state, rqs[p])

RulesInv ==
  /\ Borne(rules)
  /\ \A k \in DOMAIN promo \ torn :
       ~Twin(rules, k) => PromotionOK(rules, promo[k].state, req, k)
-------------------------------------------------------------------------------
(* Types and ledgers.                                                       *)

\* What is known of a ledger stays known when a version is appended.
LEMMA Appended ==
  ASSUME NEW l \in Seq(LedgerRecord), NEW rec \in LedgerRecord
  PROVE  /\ Append(l, rec) \in Seq(LedgerRecord)
         /\ Len(l) \in Nat /\ DOMAIN l = 1..Len(l)
         /\ Len(Append(l, rec)) = Len(l) + 1
         /\ DOMAIN Append(l, rec) = 1..(Len(l) + 1)
         /\ Append(l, rec)[Len(l) + 1] = rec
         /\ \A n \in DOMAIN l : n \in DOMAIN Append(l, rec) /\ Append(l, rec)[n] = l[n]
OBVIOUS

\* A view taken before an append holds the same versions after it.
LEMMA AppendedViews ==
  ASSUME NEW l \in Seq(LedgerRecord), NEW rec \in LedgerRecord,
         NEW view \in SUBSET DOMAIN l, NEW i
  PROVE  /\ view \subseteq DOMAIN Append(l, rec)
         /\ Of(Append(l, rec), view, i) = Of(l, view, i)
         /\ Of(l, view, i) # {} =>
              LatestIn(Append(l, rec), view, i) = LatestIn(l, view, i)
         /\ Of(l, DOMAIN l, i) # {} => Of(Append(l, rec), DOMAIN Append(l, rec), i) # {}
<1> DEFINE m == Append(l, rec)
<1>1. m \in Seq(LedgerRecord) /\ \A n \in DOMAIN l : n \in DOMAIN m /\ m[n] = l[n]
  BY Appended
<1> HIDE DEF m
<1>2. view \in SUBSET DOMAIN m BY <1>1
<1>3. Of(m, view, i) = Of(l, view, i) BY <1>1 DEF Of
<1>4. \A n \in Of(l, view, i) : m[n] = l[n] BY <1>1 DEF Of
<1>5. Of(l, view, i) # {} => LatestIn(m, view, i) = LatestIn(l, view, i)
  BY <1>1, <1>2, <1>3, <1>4, LatestSame
<1>6. Of(l, DOMAIN l, i) # {} => Of(m, DOMAIN m, i) # {} BY <1>1 DEF Of
<1> QED BY <1>2, <1>3, <1>5, <1>6 DEF m

\* What a request knows of a file stays true when others append to it.
LEMMA ReadsKept ==
  ASSUME NEW l \in Seq(LedgerRecord), NEW rec \in LedgerRecord, NEW r, Reads(r, l)
  PROVE  Reads(r, Append(l, rec))
<1> DEFINE m == Append(l, rec)
<1>1. /\ Len(l) \in Nat /\ DOMAIN l = 1..Len(l) /\ Len(m) = Len(l) + 1
      /\ \A n \in DOMAIN l : n \in DOMAIN m /\ m[n] = l[n]
  BY Appended
<1>2. \A view \in SUBSET DOMAIN l : \A i :
        /\ view \subseteq DOMAIN m /\ Of(m, view, i) = Of(l, view, i)
        /\ Of(l, view, i) # {} => LatestIn(m, view, i) = LatestIn(l, view, i)
        /\ Of(l, DOMAIN l, i) # {} => Of(m, DOMAIN m, i) # {}
  BY AppendedViews
<1>3. \A k \in 0..Len(l) : k \in 0..Len(m) /\ 1..k \in SUBSET DOMAIN l BY <1>1
<1>4. DOMAIN l \in SUBSET DOMAIN l OBVIOUS
<1>5. Unforked(m) => Unforked(l) BY <1>1 DEF Unforked
<1> HIDE DEF m
<1>6. ASSUME r.at = "append"
      PROVE  \E k \in 0..Len(m) :
               /\ r.view = 1..k /\ k < MaxRecords
               /\ IF r.op = "propose" THEN r.id = k + 1
                  ELSE /\ Of(m, r.view, r.id) # {}
                       /\ Permitted(r.op, r.who, r.owner, LatestIn(m, r.view, r.id))
  <2>1. PICK k \in 0..Len(l) :
          /\ r.view = 1..k /\ k < MaxRecords
          /\ IF r.op = "propose" THEN r.id = k + 1
             ELSE /\ Of(l, r.view, r.id) # {}
                  /\ Permitted(r.op, r.who, r.owner, LatestIn(l, r.view, r.id))
    BY <1>6 DEF Reads
  <2>2. k \in 0..Len(m) /\ r.view \in SUBSET DOMAIN l BY <1>3, <2>1
  <2>3. /\ Of(m, r.view, r.id) = Of(l, r.view, r.id)
        /\ Of(l, r.view, r.id) # {} => LatestIn(m, r.view, r.id) = LatestIn(l, r.view, r.id)
    BY <1>2, <2>2
  <2> QED BY <2>1, <2>2, <2>3
<1>7. ASSUME r.at = "sync" PROVE r.view \subseteq DOMAIN m /\ Of(m, r.view, r.id) # {}
  BY <1>2, <1>7 DEF Reads
<1>13. ASSUME r.at = "replay" PROVE r.view \subseteq DOMAIN m BY <1>1, <1>13 DEF Reads
<1>8. ASSUME r.at = "orgpropose" PROVE \E k \in 0..Len(m) : r.view = 1..k
  BY <1>3, <1>8 DEF Reads
<1>9. ASSUME r.at = "orgevaluate"
      PROVE  /\ r.view \subseteq DOMAIN m /\ Of(m, r.view, r.promo) # {}
             /\ Unforked(m) => /\ r.promo \in DOMAIN m /\ r.view = 1..r.promo
                               /\ m[r.promo].id = r.promo /\ m[r.promo].state = "draft"
  BY <1>1, <1>2, <1>5, <1>9 DEF Reads
<1>10. ASSUME r.at = "insert" PROVE Of(m, DOMAIN m, r.promo) # {}
  BY <1>2, <1>4, <1>10 DEF Reads
<1>11. ASSUME r.at = "orgappend"
       PROVE  /\ \E k \in 0..Len(m) : r.view = 1..k
              /\ Of(m, r.view, r.id) # {}
              /\ r.op = "settle_yes" => /\ LatestIn(m, r.view, r.id).state = "evaluated"
                                        /\ Independent(r.who, LatestIn(m, r.view, r.id).by)
  <2>1. PICK k \in 0..Len(l) : r.view = 1..k BY <1>11 DEF Reads
  <2>2. k \in 0..Len(m) /\ r.view \in SUBSET DOMAIN l BY <1>3, <2>1
  <2>3. Of(l, r.view, r.id) # {} BY <1>11 DEF Reads
  <2>4. /\ Of(m, r.view, r.id) = Of(l, r.view, r.id)
        /\ LatestIn(m, r.view, r.id) = LatestIn(l, r.view, r.id)
    BY <1>2, <2>2, <2>3
  <2> QED BY <1>11, <2>1, <2>2, <2>3, <2>4 DEF Reads
<1>12. Reads(r, m) BY <1>6, <1>7, <1>8, <1>9, <1>10, <1>11, <1>13 DEF Reads
<1> QED BY <1>12 DEF m

\* A step that appends a version and moves the request that does it.
LEMMA AppendKeeps ==
  ASSUME ReviewInv, NEW p \in Processes, NEW o \in Owners, NEW rec \in LedgerRecord,
         ledger' = [ledger EXCEPT ![o] = Append(@, rec)],
         LedgerOK(o, Append(ledger[o], rec)),
         NEW r \in Request, req' = [req EXCEPT ![p] = r], Formed(r, DOMAIN promo, Len(rules)),
         File(r) \in Owners, Reads(r, ledger'[File(r)]),
         UNCHANGED <<row, promo, rules, behind, torn, requests, crashes>>
  PROVE  ReviewInv'
<1>1. /\ ledger \in [Owners -> Seq(LedgerRecord)] /\ req \in [Processes -> Request]
      /\ ledger[o] \in Seq(LedgerRecord)
  BY DEF ReviewInv, TypeOK
<1>2. /\ ledger'[o] = Append(ledger[o], rec) /\ \A a \in Owners \ {o} : ledger'[a] = ledger[a]
      /\ req'[p] = r /\ \A q \in Processes \ {p} : req'[q] = req[q]
  BY <1>1
<1>3. /\ ledger' \in [Owners -> Seq(LedgerRecord)] /\ req' \in [Processes -> Request]
  BY <1>1, <1>2, Appended
<1>4. \A a \in Owners : LedgerOK(a, ledger'[a]) BY <1>2 DEF ReviewInv
<1>5. TypeOK' BY <1>3, <1>4 DEF ReviewInv, TypeOK, LedgerOK
<1>6. ASSUME NEW q \in Processes
      PROVE  Formed(req'[q], DOMAIN promo, Len(rules)) /\ Reads(req'[q], ledger'[File(req'[q])])
  <2>1. CASE q = p BY <1>2, <2>1
  <2>2. CASE q # p
    <3>1. /\ req'[q] = req[q] /\ Formed(req[q], DOMAIN promo, Len(rules))
          /\ Reads(req[q], ledger[File(req[q])])
      BY <1>2, <2>2 DEF ReviewInv, RequestsOK
    <3>2. File(req[q]) \in Owners BY <1>1 DEF File, Request, Owners
    <3>3. Reads(req[q], ledger'[File(req[q])])
      <4>1. CASE File(req[q]) = o BY <1>1, <1>2, <3>1, <4>1, ReadsKept
      <4>2. CASE File(req[q]) # o BY <1>2, <3>1, <3>2, <4>2
      <4> QED BY <4>1, <4>2
    <3> QED BY <3>1, <3>3
  <2> QED BY <2>1, <2>2
<1>7. \A a \in Owners : \A i : Has(ledger[a], i) => Has(ledger'[a], i)
  <2> SUFFICES ASSUME NEW a \in Owners, NEW i, Of(ledger[a], DOMAIN ledger[a], i) # {}
               PROVE  Of(ledger'[a], DOMAIN ledger'[a], i) # {}
    BY DEF Has
  <2>1. CASE a = o
    <3>1. DOMAIN ledger[o] \in SUBSET DOMAIN ledger[o] OBVIOUS
    <3> QED BY <1>1, <1>2, <2>1, <3>1, AppendedViews
  <2>2. CASE a # o BY <1>2, <2>2
  <2> QED BY <2>1, <2>2
<1>8. \A i \in Ids : row'[i] # NoRow => Has(ledger'[row'[i].owner], i)
  <2> SUFFICES ASSUME NEW i \in Ids, row[i] # NoRow PROVE Has(ledger'[row[i].owner], i) OBVIOUS
  <2>1. row[i].owner \in Owners /\ Has(ledger[row[i].owner], i) BY DEF ReviewInv, TypeOK, Owners
  <2> QED BY <1>7, <2>1
<1>9. \A k \in DOMAIN promo' : Has(ledger'[Org], promo'[k].org)
  <2> SUFFICES ASSUME NEW k \in DOMAIN promo PROVE Has(ledger'[Org], promo[k].org) OBVIOUS
  <2>1. Org \in Owners /\ Has(ledger[Org], promo[k].org) BY DEF ReviewInv, Owners
  <2> QED BY <1>7, <2>1
<1> QED BY <1>4, <1>5, <1>6, <1>8, <1>9 DEF ReviewInv, RequestsOK

\* A step that leaves the ledgers.
LEMMA StillKeeps ==
  ASSUME ReviewInv, NEW p \in Processes, UNCHANGED ledger,
         NEW r \in Request, req' = [req EXCEPT ![p] = r],
         Formed(r, DOMAIN promo', Len(rules')), Reads(r, ledger[File(r)]),
         DOMAIN promo \subseteq DOMAIN promo',
         row' \in [Ids -> {NoRow} \cup [owner : Accounts, state : States, version : Ids]],
         promo' \in Seq([source : Ids, org : Ids,
                         state : {"requested", "approved", "rejected", "rolled_back"}]),
         rules' \in Seq([promo : {0} \cup DOMAIN promo', rid : Nat \ {0}, target : Nat]),
         Len(rules) <= Len(rules'),
         behind' \subseteq Accounts, torn' \subseteq DOMAIN promo',
         requests' \in Nat, crashes' \in Nat,
         \A i \in Ids : row'[i] # NoRow => Has(ledger[row'[i].owner], i),
         \A k \in DOMAIN promo' : Has(ledger[Org], promo'[k].org)
  PROVE  ReviewInv'
<1>1. req \in [Processes -> Request] BY DEF ReviewInv, TypeOK
<1>2. req'[p] = r /\ \A q \in Processes \ {p} : req'[q] = req[q] BY <1>1
<1>3. TypeOK'
  <2>1. req' \in [Processes -> Request] BY <1>1
  <2> QED BY <2>1 DEF ReviewInv, TypeOK
<1>4. ASSUME NEW q \in Processes
      PROVE  Formed(req'[q], DOMAIN promo', Len(rules')) /\ Reads(req'[q], ledger[File(req'[q])])
  <2>1. CASE q = p BY <1>2, <2>1
  <2>2. CASE q # p
    <3>1. /\ req'[q] = req[q] /\ Formed(req[q], DOMAIN promo, Len(rules))
          /\ Reads(req[q], ledger[File(req[q])])
      BY <1>2, <2>2 DEF ReviewInv, RequestsOK
    <3>2. \A m : m \in 0..Len(rules) => m \in 0..Len(rules')
      <4>1. Len(rules) \in Nat /\ Len(rules') \in Nat BY DEF ReviewInv, TypeOK
      <4> QED BY <4>1
    <3>3. Formed(req[q], DOMAIN promo', Len(rules')) BY <3>1, <3>2 DEF Formed
    <3> QED BY <3>1, <3>3
  <2> QED BY <2>1, <2>2
<1> QED BY <1>3, <1>4 DEF ReviewInv, RequestsOK

\* A step that only moves a request.
LEMMA MoveKeeps ==
  ASSUME ReviewInv, NEW p \in Processes, UNCHANGED <<ledger, row, promo, rules>>,
         NEW r \in Request, req' = [req EXCEPT ![p] = r],
         Formed(r, DOMAIN promo, Len(rules)), Reads(r, ledger[File(r)]),
         behind' \subseteq Accounts, torn' \subseteq DOMAIN promo,
         requests' \in Nat, crashes' \in Nat
  PROVE  ReviewInv'
<1>1. /\ row \in [Ids -> {NoRow} \cup [owner : Accounts, state : States, version : Ids]]
      /\ promo \in Seq([source : Ids, org : Ids,
                        state : {"requested", "approved", "rejected", "rolled_back"}])
      /\ rules \in Seq([promo : {0} \cup DOMAIN promo, rid : Nat \ {0}, target : Nat])
      /\ \A i \in Ids : row[i] # NoRow => Has(ledger[row[i].owner], i)
      /\ \A k \in DOMAIN promo : Has(ledger[Org], promo[k].org)
  BY DEF ReviewInv, TypeOK
<1>2. ledger' = ledger /\ row' = row /\ promo' = promo /\ rules' = rules OBVIOUS
<1>3. Len(rules) <= Len(rules')
  <2>1. Len(rules) \in Nat BY <1>1
  <2> QED BY <1>2, <2>1
<1> QED BY <1>1, <1>2, <1>3, StillKeeps

\* The counters and the marks of a step that changes none of them, or begins a request.
LEMMA Counted ==
  ASSUME ReviewInv, UNCHANGED <<behind, torn, crashes>>, requests' \in {requests, requests + 1}
  PROVE  /\ behind' \subseteq Accounts /\ torn' \subseteq DOMAIN promo
         /\ requests' \in Nat /\ crashes' \in Nat
BY DEF ReviewInv, TypeOK

\* A process without a request is in order.
LEMMA NoRequestOK ==
  /\ NoRequest \in Request
  /\ \A known, size : Formed(NoRequest, known, size)
  /\ \A l : Reads(NoRequest, l)
  /\ File(NoRequest) \in Owners
BY DEF NoRequest, Request, Formed, Reads, File, Owners, Settling

\* Empty files, no rows and no requests satisfy the invariant.
LEMMA ReviewInit == Init => ReviewInv
<1> SUFFICES ASSUME Init PROVE ReviewInv OBVIOUS
<1>1. TypeOK BY NoRequestOK DEF Init, TypeOK
<1>2. \A o \in Owners : LedgerOK(o, ledger[o])
  <2>1. \A o \in Owners : ledger[o] = <<>> BY DEF Init
  <2> QED BY <2>1 DEF LedgerOK, Unforked, Earned
<1>3. RequestsOK BY NoRequestOK DEF Init, RequestsOK
<1> QED BY <1>1, <1>2, <1>3 DEF ReviewInv, Init

\* What a ledger's records are.
LEMMA Records ==
  ASSUME ReviewInv, NEW o \in Owners
  PROVE  /\ ledger[o] \in Seq(LedgerRecord) /\ Len(ledger[o]) \in Nat
         /\ DOMAIN ledger[o] = 1..Len(ledger[o]) /\ LedgerOK(o, ledger[o])
         /\ \A n \in DOMAIN ledger[o] :
              /\ n \in Nat /\ ledger[o][n] \in LedgerRecord
              /\ ledger[o][n].version \in Nat /\ ledger[o][n].version <= n
              /\ ledger[o][n].id \in Nat /\ ledger[o][n].id <= n
<1>1. /\ ledger[o] \in Seq(LedgerRecord) /\ Len(ledger[o]) \in Nat
      /\ DOMAIN ledger[o] = 1..Len(ledger[o]) /\ LedgerOK(o, ledger[o])
      /\ \A n \in DOMAIN ledger[o] : ledger[o][n] \in LedgerRecord
  BY DEF ReviewInv, TypeOK
<1>2. \A n \in DOMAIN ledger[o] :
        /\ n \in Nat /\ ledger[o][n] \in LedgerRecord
        /\ ledger[o][n].version \in Ids /\ ledger[o][n].id \in Ids
  BY <1>1 DEF LedgerRecord
<1>3. \A n \in Ids : n \in Nat BY DEF Ids
<1> QED BY <1>1, <1>2, <1>3 DEF LedgerOK

\* A proposal is opened with the whole of its author's ledger in view.
LEMMA ProposeKeeps ==
  ASSUME ReviewInv, NEW p \in Processes, NEW who \in Accounts, Propose(p, who)
  PROVE  ReviewInv'
<1> DEFINE r == [NoRequest EXCEPT !.op = "propose", !.at = "append", !.who = who, !.owner = who,
                                  !.id = Len(ledger[who]) + 1, !.view = Whole(who)]
<1>1. who \in Owners BY DEF Owners
<1>2. /\ Len(ledger[who]) \in Nat /\ DOMAIN ledger[who] = 1..Len(ledger[who])
      /\ Len(ledger[who]) < MaxRecords /\ MaxRecords \in Nat
  BY <1>1, Records, ReviewAssumption DEF Propose, Room
<1>3. /\ r.op = "propose" /\ r.at = "append" /\ r.who = who /\ r.owner = who
      /\ r.id = Len(ledger[who]) + 1 /\ r.view = 1..Len(ledger[who])
  BY <1>2 DEF NoRequest, Whole
<1>5. r \in Request
  <2>1. Whole(who) \in SUBSET Nat /\ Len(ledger[who]) + 1 \in Ids BY <1>2 DEF Whole, Ids
  <2> QED BY <1>1, <2>1, NoRequestOK DEF Request
<1>4. req' = [req EXCEPT ![p] = r] BY DEF Propose, Begin
<1> HIDE DEF r
<1>6. Formed(r, DOMAIN promo, Len(rules)) BY <1>2, <1>3 DEF Formed, Ordinary, Settling, Ids
<1>7. Reads(r, ledger[File(r)])
  <2>1. File(r) = who BY <1>3 DEF File
  <2> QED BY <1>2, <1>3, <2>1 DEF Reads
<1> QED
  <2>1. UNCHANGED <<ledger, row, promo, rules>> BY DEF Propose
  <2>2. /\ behind' \subseteq Accounts /\ torn' \subseteq DOMAIN promo
        /\ requests' \in Nat /\ crashes' \in Nat
    BY Counted DEF Propose, Begin, Unlogged
  <2> QED BY <1>4, <1>5, <1>6, <1>7, <2>1, <2>2, MoveKeeps

\* The other requests are opened only when the latest version permits them.
LEMMA OpenKeeps ==
  ASSUME ReviewInv, NEW p \in Processes, NEW who \in Accounts, NEW i \in Ids,
         NEW op \in {"evaluate", "approve", "reject", "rollback", "promote"},
         Open(p, who, op, i)
  PROVE  ReviewInv'
<1> DEFINE o == row[i].owner
           place == IF op = "promote" THEN "load" ELSE "append"
           r == [NoRequest EXCEPT !.op = op, !.at = place,
                                  !.who = who, !.owner = o, !.id = i, !.view = Whole(o)]
<1>1. o \in Accounts /\ o \in Owners /\ who \in Owners /\ Has(ledger[o], i)
  BY DEF Owners, ReviewInv, TypeOK, Open
<1>2. Len(ledger[o]) \in Nat /\ DOMAIN ledger[o] = 1..Len(ledger[o]) BY <1>1, Records
<1>3. op # "promote" => Len(ledger[o]) < MaxRecords BY DEF Open, Room
<1>4. Permitted(op, who, o, LatestIn(ledger[o], 1..Len(ledger[o]), i))
  <2>1. Permitted(op, who, o, Latest(o, Whole(o), i)) BY DEF Open
  <2>2. Latest(o, Whole(o), i) = LatestIn(ledger[o], 1..Len(ledger[o]), i)
    BY <1>2, LatestIs DEF Whole
  <2> QED BY <2>1, <2>2
<1>5. req' = [req EXCEPT ![p] = r] BY DEF Open, Begin
<1>6. /\ r.op = op /\ r.at = place /\ r.who = who /\ r.owner = o
      /\ r.id = i /\ r.view = 1..Len(ledger[o])
  BY <1>2 DEF NoRequest, Whole
<1>7. r \in Request
  <2>1. Whole(o) \in SUBSET Nat BY <1>2 DEF Whole
  <2> HIDE DEF o
  <2> QED BY <1>1, <2>1, NoRequestOK DEF Request
<1>10. UNCHANGED <<ledger, row, promo, rules>> BY DEF Open
<1>11. /\ behind' \subseteq Accounts /\ torn' \subseteq DOMAIN promo
       /\ requests' \in Nat /\ crashes' \in Nat
  BY Counted DEF Open, Begin, Unlogged
<1> HIDE DEF r, o
<1>8. Formed(r, DOMAIN promo, Len(rules)) BY <1>1, <1>6 DEF Formed, Ordinary, Settling
<1>9. Reads(r, ledger[File(r)])
  <2>1. CASE op = "promote" BY <1>6, <2>1 DEF Reads
  <2>2. CASE op # "promote"
    <3>1. File(r) = o BY <1>6, <2>2 DEF File
    <3>2. r.at = "append" BY <1>6, <2>2
    <3>3. Of(ledger[o], r.view, r.id) # {} BY <1>1, <1>2, <1>6 DEF Has
    <3> QED BY <1>2, <1>3, <1>4, <1>6, <2>2, <3>1, <3>2, <3>3 DEF Reads
  <2> QED BY <2>1, <2>2
<1> QED
  BY <1>5, <1>7, <1>8, <1>9, <1>10, <1>11, MoveKeeps

\* _append in an author's ledger: what the request checked still backs the version,
\* or another process appended meanwhile and the chain shows it.
LEMMA AppendVersionKeeps ==
  ASSUME ReviewInv, NEW p \in Processes, NEW state \in States, AppendVersion(p, state)
  PROVE  /\ ReviewInv'
         /\ req[p].owner \in Owners
         /\ \E rec \in LedgerRecord :
              /\ rec.id = req[p].id
              /\ ledger' = [ledger EXCEPT ![req[p].owner] = Append(@, rec)]
<1> DEFINE a == req[p]
           o == a.owner
           l == ledger[o]
           n == Len(l) + 1
           r == [a EXCEPT !.at = "sync", !.view = Seen(o, a.view)]
<1>1. /\ a \in Request /\ a.at = "append" /\ state \in Outcomes(a.op)
      /\ Formed(a, DOMAIN promo, Len(rules)) /\ Reads(a, ledger[File(a)])
  BY DEF ReviewInv, TypeOK, RequestsOK, AppendVersion
<1>2. /\ a.op \in Ordinary /\ o \in Accounts /\ a.who \in Accounts /\ a.id \in Ids
      /\ o \in Owners /\ File(a) = o
  BY <1>1 DEF Formed, Owners, File
<1>3. /\ l \in Seq(LedgerRecord) /\ Len(l) \in Nat /\ DOMAIN l = 1..Len(l) /\ LedgerOK(o, l)
      /\ \A k \in DOMAIN l : /\ k \in Nat /\ l[k].version \in Nat /\ l[k].version <= k
                             /\ l[k].id \in Nat /\ l[k].id <= k
  BY <1>2, Records
<1>4. PICK m \in 0..Len(l) :
        /\ a.view = 1..m /\ m < MaxRecords
        /\ IF a.op = "propose" THEN a.id = m + 1
           ELSE /\ Of(l, a.view, a.id) # {}
                /\ Permitted(a.op, a.who, o, LatestIn(l, a.view, a.id))
  BY <1>1, <1>2 DEF Reads
<1>5. Note(o, a.view, a.id, state, o, a.who) BY DEF AppendVersion
<1>6. /\ a.view \in SUBSET DOMAIN l /\ \A k \in a.view : k \in DOMAIN l /\ k <= m
      /\ m \in Nat /\ MaxRecords \in Nat
  BY <1>3, <1>4, ReviewAssumption
<1>7. a.id <= Len(l) + 1
  <2>1. CASE a.op = "propose" BY <1>3, <1>4, <2>1
  <2>2. CASE a.op # "propose"
    <3>1. PICK k \in DOMAIN l : l[k].id = a.id BY <1>4, <1>6, <2>2 DEF Of
    <3> QED BY <1>3, <3>1
  <2> QED BY <2>1, <2>2
<1>8. \A k \in Of(l, a.view, a.id) : l[k].version < MaxRecords
  BY <1>3, <1>4, <1>6 DEF Of
<1>9. ASSUME Unforked(l) /\ Tip(a.view) = Len(l)
      PROVE  Grounded(l, a.view, a.id, state, o, a.who)
  <2>1. m = Len(l)
    <3>1. a.view \in SUBSET (1..Len(l)) BY <1>3, <1>6
    <3>2. Tip(a.view) = m BY <1>3, <1>4, <3>1, TipIn
    <3> QED BY <1>9, <3>2
  <2>2. a.view = DOMAIN l BY <1>3, <1>4, <2>1
  <2>3. a.op = "propose" => Of(l, a.view, a.id) = {} BY <1>3, <1>4, <1>6, <2>1 DEF Of
  <2>4. a.op = "evaluate" => LatestIn(l, a.view, a.id).state \in Pending
    BY <1>4 DEF Permitted, Pending
  <2>5. a.op = "approve" =>
          /\ Of(l, a.view, a.id) # {} /\ LatestIn(l, a.view, a.id).state = "evaluated"
          /\ Role[a.who] # Role[o]
    <3> SUFFICES ASSUME a.op = "approve"
                 PROVE  /\ Of(l, a.view, a.id) # {} /\ LatestIn(l, a.view, a.id).state = "evaluated"
                        /\ Role[a.who] # Role[o]
      OBVIOUS
    <3>1. /\ Of(l, a.view, a.id) # {} /\ LatestIn(l, a.view, a.id).state = "evaluated"
          /\ Role[a.who] # Role[LatestIn(l, a.view, a.id).by]
      BY <1>4 DEF Permitted, Independent
    <3>2. PICK k \in Of(l, a.view, a.id) : LatestIn(l, a.view, a.id) = l[k]
      BY <1>3, <1>6, <3>1, LatestTops
    <3>3. l[k].by = o BY <1>2, <1>3, <1>6 DEF Of, LedgerOK
    <3> QED BY <3>1, <3>2, <3>3
  <2>6. /\ state = "approved" => a.op = "approve"
        /\ state \in Pending => a.op \in {"propose", "evaluate"}
    BY <1>1, <1>2 DEF Outcomes, Ordinary, Pending
  <2> QED BY <2>2, <2>3, <2>4, <2>5, <2>6 DEF Grounded
<1>11. req' = [req EXCEPT ![p] = r] /\ r.at = "sync" /\ r.view = a.view \cup {n}
       /\ r.op = a.op /\ r.owner = o /\ r.who = a.who /\ r.id = a.id
  <2>1. req' = [req EXCEPT ![p].at = "sync", ![p].view = Seen(o, a.view)] BY DEF AppendVersion
  <2>2. Seen(o, a.view) = a.view \cup {n} BY DEF Seen
  <2>3. req \in [Processes -> Request] /\ req[p] \in Request BY DEF ReviewInv, TypeOK
  <2>4. r.at = "sync" /\ r.view = Seen(o, a.view) BY <2>3 DEF Request
  <2>5. r.op = a.op /\ r.owner = o /\ r.who = a.who /\ r.id = a.id BY <2>3 DEF Request
  <2> HIDE DEF n, l
  <2>6. req' = [req EXCEPT ![p] = r] BY <2>1, <2>3
  <2> QED BY <2>2, <2>4, <2>5, <2>6
<1> HIDE DEF a, o, l
<1>10. PICK rec \in LedgerRecord :
         /\ rec.id = a.id /\ ledger' = [ledger EXCEPT ![o] = Append(@, rec)]
         /\ LedgerOK(o, Append(l, rec))
  <2>1. ledger \in [Owners -> Seq(LedgerRecord)] BY DEF ReviewInv, TypeOK
  <2>2. Unforked(l) /\ Tip(a.view) = Len(l) => Grounded(l, a.view, a.id, state, o, a.who)
    BY <1>9
  <2>3. \E rec \in LedgerRecord : Writes(o, a.view, a.id, state, o, a.who, rec)
    <3>1. l = ledger[o] BY DEF l
    <3>2. a.view \in SUBSET DOMAIN l /\ a.id \in Ids /\ o \in Owners /\ a.who \in Accounts
      BY <1>2, <1>6
    <3> QED BY <1>3, <1>5, <1>7, <1>8, <2>1, <2>2, <3>1, <3>2, NoteKeeps
  <2> QED BY <2>3 DEF Writes, l
<1>12. r \in Request
  <2>1. Seen(o, a.view) \in SUBSET Nat BY <1>3, <1>6 DEF Seen, l
  <2> QED BY <1>1, <2>1 DEF Request
<1> HIDE DEF r, n
<1>13. Formed(r, DOMAIN promo, Len(rules)) BY <1>2, <1>11 DEF Formed, Ordinary, Settling
<1>14. File(r) = o BY <1>11 DEF File
<1>15. Reads(r, ledger'[o])
  <2>1. ledger'[o] = Append(l, rec) BY <1>2, <1>10 DEF l, ReviewInv, TypeOK
  <2>2. r.view \subseteq DOMAIN Append(l, rec) BY <1>3, <1>6, <1>11 DEF n
  <2>3. n \in Of(Append(l, rec), r.view, r.id) BY <1>3, <1>10, <1>11 DEF n, Of
  <2> QED BY <1>11, <2>1, <2>2, <2>3 DEF Reads
<1>16. UNCHANGED <<row, promo, rules, behind, torn, requests, crashes>>
  BY DEF AppendVersion, Unlogged
<1>17. ReviewInv' BY <1>2, <1>10, <1>11, <1>12, <1>13, <1>14, <1>15, <1>16, AppendKeeps DEF l
<1> QED BY <1>2, <1>10, <1>17 DEF a, o

\* The types of the projection, of the promotions and of the rules.
Rows == [Ids -> {NoRow} \cup [owner : Accounts, state : States, version : Ids]]
Promotion == [source : Ids, org : Ids,
              state : {"requested", "approved", "rejected", "rolled_back"}]
Rule(known) == [promo : {0} \cup known, rid : Nat \ {0}, target : Nat]

\* The invariant, as far as it is about one variable.
LEMMA Typed ==
  ASSUME ReviewInv
  PROVE  /\ row \in Rows /\ promo \in Seq(Promotion) /\ rules \in Seq(Rule(DOMAIN promo))
         /\ req \in [Processes -> Request] /\ \A p \in Processes : req[p] \in Request
         /\ behind \subseteq Accounts /\ torn \subseteq DOMAIN promo
         /\ requests \in Nat /\ crashes \in Nat /\ Len(rules) \in Nat
         /\ \A i \in Ids : row[i] # NoRow => Has(ledger[row[i].owner], i)
         /\ \A k \in DOMAIN promo : Has(ledger[Org], promo[k].org)
BY DEF ReviewInv, TypeOK, Rows, Promotion, Rule

\* A step that ends a request, and may change the projection and the promotions.
LEMMA EndKeeps ==
  ASSUME ReviewInv, NEW p \in Processes, UNCHANGED <<ledger, rules>>,
         req' = [req EXCEPT ![p] = NoRequest], DOMAIN promo \subseteq DOMAIN promo',
         row' \in Rows, promo' \in Seq(Promotion), rules' \in Seq(Rule(DOMAIN promo')),
         behind' \subseteq Accounts, torn' \subseteq DOMAIN promo',
         requests' \in Nat, crashes' \in Nat,
         \A i \in Ids : row'[i] # NoRow => Has(ledger[row'[i].owner], i),
         \A k \in DOMAIN promo' : Has(ledger[Org], promo'[k].org)
  PROVE  ReviewInv'
<1>1. Formed(NoRequest, DOMAIN promo', Len(rules')) /\ Reads(NoRequest, ledger[File(NoRequest)])
  BY NoRequestOK
<1>2. Len(rules) <= Len(rules') BY Typed
<1> QED BY <1>1, <1>2, NoRequestOK, StillKeeps DEF Rows, Promotion, Rule

\* The latest version in a view that holds one.
LEMMA LatestTyped ==
  ASSUME ReviewInv, NEW o \in Owners, NEW view \in SUBSET DOMAIN ledger[o], NEW i,
         Of(ledger[o], view, i) # {}
  PROVE  /\ Latest(o, view, i) = LatestIn(ledger[o], view, i)
         /\ Latest(o, view, i) \in LedgerRecord
         /\ \E n \in Of(ledger[o], view, i) : Latest(o, view, i) = ledger[o][n]
<1>1. ledger[o] \in Seq(LedgerRecord) /\ \A n \in DOMAIN ledger[o] : ledger[o][n] \in LedgerRecord
  BY Records
<1>2. PICK n \in Of(ledger[o], view, i) : LatestIn(ledger[o], view, i) = ledger[o][n]
  BY <1>1, LatestTops
<1>3. Latest(o, view, i) = LatestIn(ledger[o], view, i) BY LatestIs
<1>4. n \in DOMAIN ledger[o] BY DEF Of
<1> QED BY <1>1, <1>2, <1>3, <1>4

\* A row that is written keeps the author it had.
LEMMA UpsertedIs ==
  ASSUME NEW rows \in Rows, NEW i \in Ids, NEW o \in Accounts, NEW rec \in LedgerRecord
  PROVE  /\ Upserted(rows, i, o, rec) \in Rows
         /\ Upserted(rows, i, o, rec)[i] =
              [owner |-> IF rows[i] = NoRow THEN o ELSE rows[i].owner,
               state |-> rec.state, version |-> rec.version]
         /\ \A j \in Ids \ {i} : Upserted(rows, i, o, rec)[j] = rows[j]
<1>1. rec.state \in States /\ rec.version \in Ids BY DEF LedgerRecord
<1>2. rows[i] # NoRow => rows[i].owner \in Accounts BY DEF Rows
<1>3. (IF rows[i] = NoRow THEN o ELSE rows[i].owner) \in Accounts BY <1>2
<1> QED BY <1>1, <1>3 DEF Upserted, Rows

\* upsert_proposal: the row names an author whose ledger holds the proposal.
LEMMA UpsertKeeps ==
  ASSUME ReviewInv, NEW i \in Ids, NEW o \in Accounts, NEW rec \in LedgerRecord,
         Has(ledger[o], i), row' = Upserted(row, i, o, rec)
  PROVE  /\ row' \in Rows
         /\ \A j \in Ids : row'[j] # NoRow => Has(ledger[row'[j].owner], j)
<1>1. /\ row' \in Rows
      /\ row'[i] = [owner |-> IF row[i] = NoRow THEN o ELSE row[i].owner,
                    state |-> rec.state, version |-> rec.version]
      /\ \A j \in Ids \ {i} : row'[j] = row[j]
  BY Typed, UpsertedIs
<1>2. ASSUME NEW j \in Ids, row'[j] # NoRow PROVE Has(ledger[row'[j].owner], j)
  <2>1. CASE j = i
    <3>1. row'[j].owner = IF row[j] = NoRow THEN o ELSE row[j].owner BY <1>1, <2>1
    <3> QED BY <2>1, <3>1, Typed
  <2>2. CASE j # i BY <1>1, <1>2, <2>2, Typed
  <2> QED BY <2>1, <2>2
<1> QED BY <1>1, <1>2

\* A request writes the row of the proposal it changed.
LEMMA SyncKeeps ==
  ASSUME ReviewInv, NEW p \in Processes, Sync(p)
  PROVE  ReviewInv'
<1> DEFINE r == req[p]
           o == r.owner
           rec == Latest(o, r.view, r.id)
<1>1. /\ r.at = "sync" /\ r \in Request
      /\ Formed(r, DOMAIN promo, Len(rules)) /\ Reads(r, ledger[File(r)])
  BY DEF ReviewInv, TypeOK, RequestsOK, Sync
<1>2. o \in Accounts /\ o \in Owners /\ r.id \in Ids /\ File(r) = o
  BY <1>1 DEF Formed, File, Owners
<1>3. r.view \in SUBSET DOMAIN ledger[o] /\ Of(ledger[o], r.view, r.id) # {}
  BY <1>1, <1>2 DEF Reads
<1>4. rec \in LedgerRecord BY <1>2, <1>3, LatestTyped
<1>5. /\ row' = Upserted(row, r.id, o, rec) /\ behind' \subseteq behind \cup {o}
      /\ req' = [req EXCEPT ![p] = NoRequest]
      /\ UNCHANGED <<ledger, promo, rules, torn, requests, crashes>>
  BY DEF Sync, End
<1> HIDE DEF r, o, rec
<1>6. Has(ledger[o], r.id) BY <1>3 DEF Has, Of
<1>7. row' \in Rows /\ \A i \in Ids : row'[i] # NoRow => Has(ledger[row'[i].owner], i)
  BY <1>2, <1>4, <1>5, <1>6, UpsertKeeps
<1> QED BY <1>2, <1>5, <1>7, Typed, EndKeeps

\* rebuild_projection, first half: rows go.
LEMMA RebuildKeeps ==
  ASSUME ReviewInv, NEW p \in Processes, NEW o \in Accounts, Rebuild(p, o)
  PROVE  ReviewInv'
<1> DEFINE r == [NoRequest EXCEPT !.op = "rebuild", !.at = "list", !.who = o, !.owner = o]
<1>1. o \in Owners BY DEF Owners
<1>2. r \in Request BY <1>1, NoRequestOK DEF Request
<1>3. r.op = "rebuild" /\ r.at = "list" /\ r.owner = o BY DEF NoRequest
<1>4. /\ req' = [req EXCEPT ![p] = r] /\ UNCHANGED <<ledger, promo, rules, behind, torn, crashes>>
      /\ requests' = requests + 1
      /\ row' = [i \in Ids |-> IF row[i] # NoRow /\ row[i].owner = o THEN NoRow ELSE row[i]]
  BY DEF Rebuild, Begin, Unlogged
<1> HIDE DEF r
<1>5. Formed(r, DOMAIN promo, Len(rules)) BY <1>3 DEF Formed, Settling
<1>6. Reads(r, ledger[File(r)]) BY <1>3 DEF Reads
<1>7. row' \in Rows BY <1>4, Typed DEF Rows
<1>8. \A i \in Ids : row'[i] # NoRow => Has(ledger[row'[i].owner], i) BY <1>4, Typed
<1>9. requests' \in Nat /\ Len(rules) <= Len(rules') BY <1>4, Typed
<1> QED BY <1>2, <1>4, <1>5, <1>6, <1>7, <1>8, <1>9, Typed, StillKeeps DEF Rows, Promotion, Rule

\* The versions a rebuild is to write: one of each proposal, and the latest.
LEMMA NewestIs ==
  ASSUME ReviewInv, NEW o \in Owners, NEW i, i \in Held(o)
  PROVE  /\ Newest(o, Whole(o), i) \in Whole(o)
         /\ ledger[o][Newest(o, Whole(o), i)].id = i
<1> DEFINE l == ledger[o]
<1>1. l \in Seq(LedgerRecord) /\ DOMAIN l \in SUBSET DOMAIN l BY Records
<1>2. Of(l, DOMAIN l, i) # {} BY DEF Held, Whole, Of
<1>3. PICK n \in Of(l, DOMAIN l, i) : Tops(l, DOMAIN l, i, n) BY <1>1, <1>2, LatestTops
<1>4. Newest(o, Whole(o), i) =
        CHOOSE m \in Of(l, DOMAIN l, i) : \A k \in Of(l, DOMAIN l, i) \ {m} : Precedes(l, k, m)
  BY DEF Newest, Versions, Whole, Of, Precedes
<1>5. Newest(o, Whole(o), i) \in Of(l, DOMAIN l, i) BY <1>3, <1>4 DEF Tops
<1> QED BY <1>5 DEF Of, Whole

\* rebuild_projection, the load: a rebuild knows the latest version of each proposal.
LEMMA ListKeeps ==
  ASSUME ReviewInv, NEW p \in Processes, ListLedger(p)
  PROVE  ReviewInv'
<1> DEFINE a == req[p]
           o == a.owner
           due == {Newest(o, Whole(o), i) : i \in Held(o)}
           r == [a EXCEPT !.at = "replay", !.view = due]
<1>1. /\ a.at = "list" /\ a \in Request /\ Formed(a, DOMAIN promo, Len(rules))
      /\ behind' = behind \ {o} /\ UNCHANGED <<ledger, row, promo, rules, torn, requests, crashes>>
  BY Typed DEF ReviewInv, RequestsOK, ListLedger
<1>2. o \in Accounts /\ o \in Owners /\ a.op = "rebuild" BY <1>1 DEF Formed, Owners
<1>3. behind' \subseteq Accounts BY <1>1, Typed
<1>4. CASE req' = [req EXCEPT ![p] = NoRequest] BY <1>1, <1>3, <1>4, Typed, EndKeeps
<1>5. CASE req' = [req EXCEPT ![p].at = "replay", ![p].view = due]
  <2>1. due \subseteq DOMAIN ledger[o] BY <1>2, NewestIs DEF Whole
  <2>2. due \in SUBSET Nat BY <1>2, <2>1, Records
  <2>3. /\ req' = [req EXCEPT ![p] = r] /\ r \in Request /\ r.at = "replay" /\ r.view = due
        /\ r.op = "rebuild" /\ r.owner = o
    <3> HIDE DEF due
    <3> QED BY <1>1, <1>2, <1>5, <2>2, Typed DEF Request
  <2> HIDE DEF a, r, due
  <2>4. Formed(r, DOMAIN promo, Len(rules)) BY <1>2, <2>3 DEF Formed, Settling
  <2>5. Reads(r, ledger[File(r)]) BY <2>1, <2>3 DEF Reads, File
  <2> QED BY <1>1, <1>3, <2>3, <2>4, <2>5, Typed, MoveKeeps
<1> QED BY <1>4, <1>5 DEF ListLedger, End

\* rebuild_projection, an upsert: the row of one proposal is written again.
LEMMA ReplayKeeps ==
  ASSUME ReviewInv, NEW p \in Processes, Replay(p)
  PROVE  ReviewInv'
<1> DEFINE a == req[p]
           o == a.owner
<1>1. /\ a.at = "replay" /\ a \in Request
      /\ Formed(a, DOMAIN promo, Len(rules)) /\ Reads(a, ledger[File(a)])
      /\ UNCHANGED <<ledger, promo, rules, torn, requests, crashes>>
  BY Typed DEF ReviewInv, RequestsOK, Replay
<1>2. /\ o \in Accounts /\ o \in Owners /\ a.op = "rebuild" /\ a.view \subseteq DOMAIN ledger[o]
      /\ File(a) = o
  BY <1>1 DEF Formed, Owners, File, Reads
<1>3. PICK n \in a.view :
        /\ row' = Upserted(row, ledger[o][n].id, o, ledger[o][n])
        /\ behind' \subseteq behind \cup {o}
        /\ \/ req' = [req EXCEPT ![p] = NoRequest]
           \/ req' = [req EXCEPT ![p].view = @ \ {n}]
  BY DEF Replay, End
<1>4. ledger[o][n] \in LedgerRecord BY <1>2, Records
<1>5. ledger[o][n].id \in Ids /\ Has(ledger[o], ledger[o][n].id)
  BY <1>2, <1>4 DEF LedgerRecord, Has, Of
<1>6. row' \in Rows /\ \A i \in Ids : row'[i] # NoRow => Has(ledger[row'[i].owner], i)
  BY <1>2, <1>3, <1>4, <1>5, UpsertKeeps
<1>7. behind' \subseteq Accounts BY <1>2, <1>3, Typed
<1>8. CASE req' = [req EXCEPT ![p] = NoRequest] BY <1>1, <1>6, <1>7, <1>8, Typed, EndKeeps
<1>9. CASE req' = [req EXCEPT ![p].view = @ \ {n}]
  <2> DEFINE r == [a EXCEPT !.view = a.view \ {n}]
  <2>1. /\ req' = [req EXCEPT ![p] = r] /\ r \in Request /\ r.at = "replay"
        /\ r.view \subseteq a.view /\ r.op = "rebuild" /\ r.owner = o
    BY <1>1, <1>2, <1>9, Typed DEF Request
  <2> HIDE DEF r, a
  <2>2. Formed(r, DOMAIN promo, Len(rules)) BY <1>2, <2>1 DEF Formed, Settling
  <2>3. Reads(r, ledger[File(r)]) BY <1>2, <2>1 DEF Reads, File
  <2>4. Len(rules) <= Len(rules') BY <1>1, Typed
  <2> QED BY <1>1, <1>6, <1>7, <2>1, <2>2, <2>3, <2>4, Typed, StillKeeps DEF Rows, Promotion, Rule
<1> QED BY <1>3, <1>8, <1>9

\* The company's ledger is loaded whole.
LEMMA LoadOrgKeeps ==
  ASSUME ReviewInv, NEW p \in Processes, LoadOrg(p)
  PROVE  ReviewInv'
<1> DEFINE a == req[p]
           r == [a EXCEPT !.at = "orgpropose", !.view = Whole(Org)]
<1>1. /\ a.op = "promote" /\ a.at = "load" /\ a \in Request /\ Formed(a, DOMAIN promo, Len(rules))
      /\ req \in [Processes -> Request]
  BY DEF ReviewInv, TypeOK, RequestsOK, LoadOrg, At
<1>2. Org \in Owners BY DEF Owners
<1>3. Len(ledger[Org]) \in Nat /\ DOMAIN ledger[Org] = 1..Len(ledger[Org]) BY <1>2, Records
<1>4. /\ r \in Request /\ r.at = "orgpropose" /\ r.op = "promote" /\ r.view = 1..Len(ledger[Org])
      /\ r.who = a.who /\ r.id = a.id
  <2>1. Whole(Org) \in SUBSET Nat /\ Whole(Org) = 1..Len(ledger[Org]) BY <1>3 DEF Whole
  <2> QED BY <1>1, <2>1 DEF Request
<1>5. req' = [req EXCEPT ![p] = r] BY <1>1 DEF LoadOrg
<1> HIDE DEF a, r
<1>6. Formed(r, DOMAIN promo, Len(rules)) BY <1>1, <1>4 DEF Formed, Settling
<1>7. Reads(r, ledger[File(r)]) BY <1>3, <1>4 DEF Reads, File
<1>8. UNCHANGED <<ledger, row, promo, rules, behind, torn, requests, crashes>>
  BY DEF LoadOrg, Unlogged
<1> QED BY <1>4, <1>5, <1>6, <1>7, <1>8, Typed, MoveKeeps

\* The company's proposal is numbered after the records in view; unless the chain
\* forked, that is its place in the file.
LEMMA OrgProposeKeeps ==
  ASSUME ReviewInv, NEW p \in Processes, OrgPropose(p)
  PROVE  ReviewInv'
<1> DEFINE a == req[p]
           l == ledger[Org]
           n == Len(l) + 1
           i == Cardinality(a.view) + 1
           r == [a EXCEPT !.at = "orgevaluate", !.view = Seen(Org, a.view), !.promo = i]
<1>1. /\ a.op = "promote" /\ a.at = "orgpropose" /\ a \in Request
      /\ Formed(a, DOMAIN promo, Len(rules)) /\ Reads(a, ledger[File(a)])
      /\ req \in [Processes -> Request] /\ ledger \in [Owners -> Seq(LedgerRecord)]
      /\ Len(l) < MaxRecords
  BY DEF ReviewInv, TypeOK, RequestsOK, OrgPropose, At, Room
<1>2. /\ a.who \in Accounts /\ a.who \in Owners /\ Org \in Owners /\ Org \notin Accounts
      /\ MaxRecords \in Nat /\ File(a) = Org
  BY <1>1, ReviewAssumption DEF Formed, Owners, File
<1>3. /\ l \in Seq(LedgerRecord) /\ Len(l) \in Nat /\ DOMAIN l = 1..Len(l) /\ LedgerOK(Org, l)
      /\ \A k \in DOMAIN l : /\ k \in Nat /\ l[k].version \in Nat /\ l[k].version <= k
                             /\ l[k].id \in Nat /\ l[k].id <= k
  BY <1>2, Records
<1>4. PICK m \in 0..Len(l) : a.view = 1..m BY <1>1, <1>2 DEF Reads
<1>5. m \in Nat /\ i = m + 1
  <2>1. m \in Nat BY <1>3, <1>4
  <2>2. Cardinality(1..m) = m BY <2>1, FS_Interval
  <2> QED BY <1>4, <2>1, <2>2
<1>6. /\ req' = [req EXCEPT ![p] = r] /\ r.at = "orgevaluate" /\ r.view = a.view \cup {n}
      /\ r.promo = i /\ r.op = "promote" /\ r.who = a.who /\ r.id = a.id
  BY <1>1 DEF OrgPropose, Seen, Request
<1>7. r \in Request
  <2>1. Seen(Org, a.view) \in SUBSET Nat /\ i \in Nat BY <1>3, <1>4, <1>5 DEF Seen
  <2> HIDE DEF i
  <2> QED BY <1>1, <2>1 DEF Request
<1>8. Note(Org, a.view, i, "draft", a.who, a.who) BY DEF OrgPropose
<1> HIDE DEF a, l, n, i, r
<1>9. /\ a.view \in SUBSET DOMAIN l /\ a.view \in SUBSET (1..Len(l)) /\ \A k \in a.view : k <= m
      /\ i \in Ids /\ i <= Len(l) + 1
  BY <1>1, <1>2, <1>3, <1>4, <1>5 DEF Ids
<1>10. Tip(a.view) = m BY <1>3, <1>4, <1>9, TipIn
<1>11. Unforked(l) /\ Tip(a.view) = Len(l) =>
         Grounded(l, a.view, i, "draft", a.who, a.who)
  <2> SUFFICES ASSUME m = Len(l) PROVE Grounded(l, a.view, i, "draft", a.who, a.who) BY <1>10
  <2>1. a.view = DOMAIN l BY <1>3, <1>4
  <2>2. Of(l, a.view, i) = {} BY <1>3, <1>5, <1>9 DEF Of
  <2> QED BY <2>1, <2>2 DEF Grounded
<1>12. \E rec \in LedgerRecord : Writes(Org, a.view, i, "draft", a.who, a.who, rec)
  <2>1. "draft" \in States /\ l = ledger[Org] BY DEF States, l
  <2>2. \A k \in Of(l, a.view, i) : l[k].version < MaxRecords
    BY <1>1, <1>2, <1>3, <1>9 DEF Of
  <2>3. /\ ledger \in [Owners -> Seq(LedgerRecord)] /\ LedgerOK(Org, ledger[Org])
        /\ a.view \in SUBSET DOMAIN ledger[Org] /\ i <= Len(ledger[Org]) + 1
        /\ \A k \in Of(ledger[Org], a.view, i) : ledger[Org][k].version < MaxRecords
        /\ Unforked(ledger[Org]) /\ Tip(a.view) = Len(ledger[Org]) =>
             Grounded(ledger[Org], a.view, i, "draft", a.who, a.who)
    BY <1>1, <1>3, <1>9, <1>11, <2>1, <2>2
  <2>4. i \in Ids /\ (Org \in Accounts => a.who = Org) BY <1>2, <1>9
  <2> QED BY <1>2, <1>8, <2>1, <2>3, <2>4, NoteKeeps
<1>13. PICK rec \in LedgerRecord :
         /\ rec.id = i /\ rec.state = "draft" /\ rec.seen = m
         /\ ledger' = [ledger EXCEPT ![Org] = Append(@, rec)]
         /\ LedgerOK(Org, Append(l, rec))
  BY <1>10, <1>12 DEF Writes, l
<1> DEFINE t == Append(l, rec)
<1>14. /\ DOMAIN t = 1..n /\ t[n] = rec /\ n \in Nat /\ n = Len(l) + 1 BY <1>3, Appended DEF n
<1>15. ledger'[Org] = t BY <1>1, <1>2, <1>13 DEF l
<1> HIDE DEF t
<1>16. Reads(r, t)
  <2>1. r.view \subseteq DOMAIN t BY <1>3, <1>6, <1>9, <1>14
  <2>2. n \in Of(t, r.view, r.promo)
    BY <1>6, <1>13, <1>14 DEF Of
  <2>3. ASSUME Unforked(t)
        PROVE  /\ r.promo \in DOMAIN t /\ r.view = 1..r.promo
               /\ t[r.promo].id = r.promo /\ t[r.promo].state = "draft"
    <3>1. n \in DOMAIN t BY <1>3, <1>14
    <3>2. t[n].seen = n - 1 BY <2>3, <3>1 DEF Unforked
    <3>3. m = Len(l) /\ i = n
      <4>1. rec.seen = m /\ n = Len(l) + 1 /\ Len(l) \in Nat BY <1>3, <1>13, <1>14
      <4>2. m = n - 1 BY <1>14, <3>2, <4>1
      <4> QED BY <1>5, <4>1, <4>2
    <3>4. r.view = 1..n BY <1>3, <1>4, <1>6, <1>14, <3>3
    <3> QED BY <1>6, <1>13, <1>14, <3>1, <3>3, <3>4
  <2> QED BY <1>6, <2>1, <2>2, <2>3 DEF Reads
<1>17. File(r) = Org BY <1>6 DEF File
<1>18. Formed(r, DOMAIN promo, Len(rules)) BY <1>1, <1>2, <1>6 DEF Formed, Settling
<1>19. UNCHANGED <<row, promo, rules, behind, torn, requests, crashes>> BY DEF OrgPropose, Unlogged
<1> QED BY <1>2, <1>6, <1>7, <1>13, <1>15, <1>16, <1>17, <1>18, <1>19, AppendKeeps DEF l

\* Its evaluation follows its draft, unless the chain forked.
LEMMA OrgEvaluateKeeps ==
  ASSUME ReviewInv, NEW p \in Processes, NEW state \in {"evaluated", "evaluated_failed"},
         OrgEvaluate(p, state)
  PROVE  ReviewInv'
<1> DEFINE a == req[p]
           l == ledger[Org]
           i == a.promo
           r == [a EXCEPT !.at = "insert"]
<1>1. /\ a.op = "promote" /\ a.at = "orgevaluate" /\ a \in Request
      /\ Formed(a, DOMAIN promo, Len(rules)) /\ Reads(a, ledger[File(a)])
      /\ req \in [Processes -> Request] /\ ledger \in [Owners -> Seq(LedgerRecord)]
      /\ Len(l) < MaxRecords
  BY DEF ReviewInv, TypeOK, RequestsOK, OrgEvaluate, At, Room
<1>2. /\ a.who \in Accounts /\ a.who \in Owners /\ Org \in Owners /\ Org \notin Accounts
      /\ MaxRecords \in Nat /\ File(a) = Org
  BY <1>1, ReviewAssumption DEF Formed, Owners, File
<1>3. /\ l \in Seq(LedgerRecord) /\ Len(l) \in Nat /\ DOMAIN l = 1..Len(l) /\ LedgerOK(Org, l)
      /\ \A k \in DOMAIN l : /\ k \in Nat /\ l[k] \in LedgerRecord
                             /\ l[k].version \in Nat /\ l[k].version <= k
                             /\ l[k].id \in Nat /\ l[k].id <= k
  BY <1>2, Records
<1>4. /\ a.view \in SUBSET DOMAIN l /\ Of(l, a.view, i) # {}
      /\ Unforked(l) => /\ i \in DOMAIN l /\ a.view = 1..i
                        /\ l[i].id = i /\ l[i].state = "draft"
  BY <1>1, <1>2 DEF Reads
<1>5. /\ req' = [req EXCEPT ![p] = r] /\ r \in Request /\ r.at = "insert"
      /\ r.promo = i /\ r.op = "promote" /\ r.who = a.who /\ r.id = a.id
  BY <1>1 DEF OrgEvaluate, Move, Request
<1>6. Note(Org, a.view, i, state, a.who, a.who) BY DEF OrgEvaluate
<1> HIDE DEF a, l, i, r
<1>7. i \in Ids /\ i <= Len(l) + 1
  <2>1. PICK k \in DOMAIN l : l[k].id = i BY <1>4 DEF Of
  <2>2. i \in Ids BY <1>3, <2>1 DEF LedgerRecord
  <2>3. i \in Nat /\ i <= k /\ k <= Len(l) BY <1>3, <2>1
  <2> QED BY <1>3, <2>2, <2>3
<1>8. Unforked(l) /\ Tip(a.view) = Len(l) => Grounded(l, a.view, i, state, a.who, a.who)
  <2> SUFFICES ASSUME Unforked(l), Tip(a.view) = Len(l)
               PROVE  Grounded(l, a.view, i, state, a.who, a.who)
    OBVIOUS
  <2>1. /\ i \in DOMAIN l /\ a.view = 1..i /\ l[i].id = i /\ l[i].state = "draft"
        /\ i \in Nat /\ i <= Len(l) /\ i \in 0..Len(l)
    BY <1>3, <1>4
  <2>2. Tip(a.view) = i
    <3>1. a.view \in SUBSET (1..Len(l)) BY <1>3, <1>4
    <3> QED BY <1>3, <2>1, <3>1, TipIn
  <2>3. a.view = DOMAIN l BY <1>3, <2>1, <2>2
  <2>4. PICK k \in Of(l, a.view, i) : LatestIn(l, a.view, i) = l[k] BY <1>3, <1>4, LatestTops
  <2>5. k = i
    <3>1. k \in DOMAIN l /\ l[k].id = i /\ k \in 1..i BY <1>4, <2>1 DEF Of
    <3> QED BY <1>3, <2>1, <3>1
  <2> QED BY <1>4, <2>1, <2>3, <2>4, <2>5 DEF Grounded, Pending
<1>9. \E rec \in LedgerRecord : Writes(Org, a.view, i, state, a.who, a.who, rec)
  <2>1. state \in States /\ l = ledger[Org] BY DEF States, l
  <2>2. \A k \in Of(l, a.view, i) : l[k].version < MaxRecords
    BY <1>1, <1>2, <1>3, <1>4 DEF Of
  <2>3. /\ ledger \in [Owners -> Seq(LedgerRecord)] /\ LedgerOK(Org, ledger[Org])
        /\ a.view \in SUBSET DOMAIN ledger[Org] /\ i <= Len(ledger[Org]) + 1
        /\ \A k \in Of(ledger[Org], a.view, i) : ledger[Org][k].version < MaxRecords
        /\ Unforked(ledger[Org]) /\ Tip(a.view) = Len(ledger[Org]) =>
             Grounded(ledger[Org], a.view, i, state, a.who, a.who)
    BY <1>1, <1>3, <1>4, <1>7, <1>8, <2>1, <2>2
  <2>4. i \in Ids /\ (Org \in Accounts => a.who = Org) BY <1>2, <1>7
  <2> QED BY <1>2, <1>6, <2>1, <2>3, <2>4, NoteKeeps
<1>10. PICK rec \in LedgerRecord :
         /\ ledger' = [ledger EXCEPT ![Org] = Append(@, rec)]
         /\ LedgerOK(Org, Append(l, rec))
  BY <1>9 DEF Writes, l
<1>11. ledger'[Org] = Append(l, rec) BY <1>1, <1>2, <1>10 DEF l
<1>12. Of(l, DOMAIN l, i) # {} BY <1>4 DEF Of
<1>13. Of(Append(l, rec), DOMAIN Append(l, rec), i) # {} BY <1>3, <1>4, <1>12, AppendedViews
<1>14. Reads(r, ledger'[File(r)]) BY <1>5, <1>11, <1>13 DEF Reads, File
<1>15. File(r) \in Owners BY <1>2, <1>5 DEF File
<1>16. Formed(r, DOMAIN promo, Len(rules)) BY <1>1, <1>2, <1>5 DEF Formed, Settling
<1>17. UNCHANGED <<row, promo, rules, behind, torn, requests, crashes>> BY DEF OrgEvaluate, Unlogged
<1> QED BY <1>2, <1>5, <1>10, <1>14, <1>15, <1>16, <1>17, AppendKeeps DEF l

\* A promotion is recorded as requested, of a proposal the company's ledger holds.
LEMMA InsertPromotionKeeps ==
  ASSUME ReviewInv, NEW p \in Processes, InsertPromotion(p)
  PROVE  /\ ReviewInv'
         /\ promo' = Append(promo, [source |-> req[p].id, org |-> req[p].promo,
                                    state |-> "requested"])
         /\ DOMAIN promo' = 1..(Len(promo) + 1)
         /\ DOMAIN promo = 1..Len(promo) /\ Len(promo) \in Nat
         /\ promo'[Len(promo) + 1].state = "requested"
         /\ \A k \in DOMAIN promo : promo'[k] = promo[k]
<1> DEFINE a == req[p]
           e == [source |-> a.id, org |-> a.promo, state |-> "requested"]
<1>1. /\ a.op = "promote" /\ a.at = "insert" /\ a \in Request
      /\ Formed(a, DOMAIN promo, Len(rules)) /\ Reads(a, ledger[File(a)])
      /\ promo' = Append(promo, e) /\ req' = [req EXCEPT ![p] = NoRequest]
      /\ UNCHANGED <<ledger, row, rules, requests, behind, torn, crashes>>
  BY DEF ReviewInv, TypeOK, RequestsOK, InsertPromotion, At, End, Unlogged
<1>2. /\ a.id \in Ids /\ File(a) = Org /\ Org \in Owners BY <1>1 DEF Formed, File, Owners
<1>3. Has(ledger[Org], a.promo) BY <1>1, <1>2 DEF Reads, Has
<1>4. a.promo \in Ids
  <2>1. PICK k \in DOMAIN ledger[Org] : ledger[Org][k].id = a.promo BY <1>3 DEF Has, Of
  <2> QED BY <1>2, <2>1, Records DEF LedgerRecord
<1>5. e \in Promotion BY <1>2, <1>4 DEF Promotion
<1>6. e.org = a.promo /\ e.state = "requested" OBVIOUS
<1> HIDE DEF a, e
<1>7. /\ promo \in Seq(Promotion) /\ promo' \in Seq(Promotion) /\ Len(promo) \in Nat
      /\ DOMAIN promo = 1..Len(promo) /\ DOMAIN promo' = 1..(Len(promo) + 1)
      /\ promo'[Len(promo) + 1] = e /\ \A k \in DOMAIN promo : promo'[k] = promo[k]
  BY <1>1, <1>5, Typed
<1>8. DOMAIN promo \subseteq DOMAIN promo' BY <1>7
<1>9. rules' \in Seq(Rule(DOMAIN promo'))
  <2>1. Rule(DOMAIN promo) \subseteq Rule(DOMAIN promo') BY <1>8 DEF Rule
  <2>2. rules \in Seq(Rule(DOMAIN promo)) BY Typed
  <2> HIDE DEF Rule
  <2> QED BY <1>1, <2>1, <2>2
<1>10. \A k \in DOMAIN promo' : Has(ledger[Org], promo'[k].org)
  BY <1>3, <1>6, <1>7, Typed
<1>11. ReviewInv' BY <1>1, <1>7, <1>8, <1>9, <1>10, Typed, EndKeeps
<1> QED BY <1>1, <1>6, <1>7, <1>11 DEF a, e

\* A decision on a promotion is opened with the whole company ledger in view.
LEMMA SettleKeeps ==
  ASSUME ReviewInv, NEW p \in Processes, NEW who \in Accounts, NEW k \in DOMAIN promo,
         NEW op \in Settling, Settle(p, who, op, k)
  PROVE  ReviewInv'
<1> DEFINE i == promo[k].org
           r == [NoRequest EXCEPT !.op = op, !.at = "orgappend", !.who = who, !.id = i,
                                  !.promo = k, !.view = Whole(Org)]
<1>1. Org \in Owners /\ who \in Owners BY DEF Owners
<1>2. /\ Len(ledger[Org]) \in Nat /\ DOMAIN ledger[Org] = 1..Len(ledger[Org])
      /\ Whole(Org) = 1..Len(ledger[Org]) /\ Whole(Org) \in SUBSET Nat
  BY <1>1, Records DEF Whole
<1>3. Has(ledger[Org], i) /\ i \in Ids /\ k \in Nat
  <2>1. promo \in Seq(Promotion) /\ Has(ledger[Org], i) BY Typed
  <2>2. promo[k] \in Promotion /\ k \in Nat BY <2>1
  <2> QED BY <2>1, <2>2 DEF Promotion
<1>4. /\ r \in Request /\ r.op = op /\ r.at = "orgappend" /\ r.who = who /\ r.id = i
      /\ r.promo = k /\ r.view = 1..Len(ledger[Org])
  <2> HIDE DEF i
  <2>1. op \in {"settle_yes", "settle_no", "undo"} BY DEF Settling
  <2>2. r \in Request BY <1>1, <1>2, <1>3, <2>1, NoRequestOK DEF Request
  <2> QED BY <1>2, <2>2 DEF NoRequest
<1>5. op = "settle_yes" =>
        LET v == LatestIn(ledger[Org], 1..Len(ledger[Org]), i)
        IN v.state = "evaluated" /\ Independent(who, v.by)
  <2>1. Latest(Org, Whole(Org), i) = LatestIn(ledger[Org], 1..Len(ledger[Org]), i)
    BY <1>2, LatestIs
  <2>2. op = "settle_yes" => /\ Latest(Org, Whole(Org), i).state = "evaluated"
                             /\ Independent(who, Latest(Org, Whole(Org), i).by)
    BY DEF Settle, MaySettle
  <2> QED BY <2>1, <2>2
<1>6. /\ req' = [req EXCEPT ![p] = r] /\ UNCHANGED <<ledger, row, promo, rules, behind, crashes>>
      /\ torn' \subseteq torn \cup {k} /\ requests' = requests + 1
  BY DEF Settle, Begin
<1> HIDE DEF i, r
<1>7. Formed(r, DOMAIN promo, Len(rules)) BY <1>3, <1>4 DEF Formed, Settling
<1>8. Reads(r, ledger[File(r)])
  <2>1. File(r) = Org /\ Len(ledger[Org]) \in 0..Len(ledger[Org]) BY <1>2, <1>4 DEF File
  <2>2. Of(ledger[Org], r.view, r.id) # {} BY <1>2, <1>3, <1>4 DEF Has
  <2> QED BY <1>4, <1>5, <2>1, <2>2 DEF Reads
<1>9. /\ torn' \subseteq DOMAIN promo /\ behind' \subseteq Accounts
      /\ requests' \in Nat /\ crashes' \in Nat
  BY <1>6, Typed
<1> QED BY <1>4, <1>6, <1>7, <1>8, <1>9, MoveKeeps

\* The decision is appended; an approval was checked against the version in view.
LEMMA OrgAppendKeeps ==
  ASSUME ReviewInv, NEW p \in Processes, OrgAppend(p)
  PROVE  ReviewInv'
<1> DEFINE a == req[p]
           l == ledger[Org]
           i == a.id
           by == LatestIn(l, a.view, i).by
           place == CASE a.op = "settle_yes" -> "rule" [] a.op = "settle_no" -> "update"
                      [] a.op = "undo" -> "retire"
           state == OrgOutcome[a.op]
           r == [a EXCEPT !.at = place]
<1>1. /\ a.at = "orgappend" /\ a \in Request
      /\ Formed(a, DOMAIN promo, Len(rules)) /\ Reads(a, ledger[File(a)])
      /\ req \in [Processes -> Request] /\ ledger \in [Owners -> Seq(LedgerRecord)]
      /\ Len(l) < MaxRecords
  BY DEF ReviewInv, TypeOK, RequestsOK, OrgAppend, Room
<1>2. /\ a.who \in Accounts /\ a.who \in Owners /\ Org \in Owners /\ Org \notin Accounts
      /\ MaxRecords \in Nat /\ File(a) = Org /\ a.op \in Settling /\ i \in Ids
      /\ a.promo \in DOMAIN promo
  BY <1>1, ReviewAssumption DEF Formed, Owners, File
<1>3. /\ l \in Seq(LedgerRecord) /\ Len(l) \in Nat /\ DOMAIN l = 1..Len(l) /\ LedgerOK(Org, l)
      /\ \A k \in DOMAIN l : /\ k \in Nat /\ l[k] \in LedgerRecord
                             /\ l[k].version \in Nat /\ l[k].version <= k
                             /\ l[k].id \in Nat /\ l[k].id <= k
  BY <1>2, Records
<1>4. PICK m \in 0..Len(l) : a.view = 1..m BY <1>1, <1>2 DEF Reads
<1>5. /\ Of(l, a.view, i) # {} /\ a.view \in SUBSET DOMAIN l /\ a.view \in SUBSET (1..Len(l))
      /\ a.op = "settle_yes" =>
           LatestIn(l, a.view, i).state = "evaluated" /\ Independent(a.who, by)
  BY <1>1, <1>2, <1>3, <1>4 DEF Reads
<1>6. /\ state \in {"approved", "rejected", "rolled_back"}
      /\ state = "approved" => a.op = "settle_yes"
  BY <1>2 DEF OrgOutcome, Settling
<1>7. place = IF a.op = "settle_yes" THEN "rule"
              ELSE IF a.op = "undo" THEN "retire" ELSE "update"
  BY <1>2 DEF Settling
<1>8. Note(Org, a.view, i, state, by, a.who)
  <2>1. Note(Org, a.view, i, state, Latest(Org, a.view, i).by, a.who) BY DEF OrgAppend
  <2>2. Latest(Org, a.view, i) = LatestIn(l, a.view, i) BY LatestIs
  <2> QED BY <2>1, <2>2
<1>9. by \in Owners
  <2>1. PICK k \in Of(l, a.view, i) : LatestIn(l, a.view, i) = l[k] BY <1>3, <1>5, LatestTops
  <2>2. l[k] \in LedgerRecord BY <1>3, <1>5, <2>1 DEF Of
  <2> QED BY <2>1, <2>2 DEF LedgerRecord
<1> HIDE DEF place
<1>10. /\ req' = [req EXCEPT ![p] = r] /\ r \in Request /\ r.at = place
       /\ r.op = a.op /\ r.who = a.who /\ r.id = a.id /\ r.promo = a.promo
  <2>1. req' = [req EXCEPT ![p].at = place] BY DEF OrgAppend, Move, place
  <2> QED BY <1>1, <1>7, <2>1 DEF Request
<1> HIDE DEF a, l, i, by, state, r
<1>11. i <= Len(l) + 1
  <2>1. PICK k \in DOMAIN l : l[k].id = i BY <1>5 DEF Of
  <2> QED BY <1>3, <2>1
<1>12. Unforked(l) /\ Tip(a.view) = Len(l) => Grounded(l, a.view, i, state, by, a.who)
  <2> SUFFICES ASSUME Tip(a.view) = Len(l) PROVE Grounded(l, a.view, i, state, by, a.who)
    OBVIOUS
  <2>1. Tip(a.view) = m BY <1>3, <1>4, <1>5, TipIn
  <2>2. a.view = DOMAIN l BY <1>3, <1>4, <2>1
  <2>3. state \notin Pending BY <1>6 DEF Pending
  <2>4. state = "approved" => /\ LatestIn(l, a.view, i).state = "evaluated"
                              /\ Role[a.who] # Role[by]
    BY <1>5, <1>6 DEF Independent
  <2> QED BY <1>5, <2>2, <2>3, <2>4 DEF Grounded
<1>13. \E rec \in LedgerRecord : Writes(Org, a.view, i, state, by, a.who, rec)
  <2>1. state \in States /\ l = ledger[Org] BY <1>6 DEF States, l
  <2>2. \A k \in Of(l, a.view, i) : l[k].version < MaxRecords
    BY <1>1, <1>2, <1>3, <1>5 DEF Of
  <2>3. /\ ledger \in [Owners -> Seq(LedgerRecord)] /\ LedgerOK(Org, ledger[Org])
        /\ a.view \in SUBSET DOMAIN ledger[Org] /\ i <= Len(ledger[Org]) + 1
        /\ \A k \in Of(ledger[Org], a.view, i) : ledger[Org][k].version < MaxRecords
        /\ Unforked(ledger[Org]) /\ Tip(a.view) = Len(ledger[Org]) =>
             Grounded(ledger[Org], a.view, i, state, by, a.who)
    BY <1>1, <1>3, <1>5, <1>11, <1>12, <2>1, <2>2
  <2>4. i \in Ids /\ (Org \in Accounts => by = Org) BY <1>2
  <2> QED BY <1>2, <1>8, <1>9, <2>1, <2>3, <2>4, NoteKeeps
<1>14. PICK rec \in LedgerRecord :
         /\ ledger' = [ledger EXCEPT ![Org] = Append(@, rec)]
         /\ LedgerOK(Org, Append(l, rec))
  BY <1>13 DEF Writes, l
<1>15. Reads(r, ledger'[File(r)]) BY <1>7, <1>10 DEF Reads
<1>16. File(r) \in Owners BY <1>2, <1>7, <1>10 DEF File
<1>17. Formed(r, DOMAIN promo, Len(rules)) BY <1>2, <1>7, <1>10 DEF Formed, Settling, i
<1>18. UNCHANGED <<row, promo, rules, behind, torn, requests, crashes>> BY DEF OrgAppend, Unlogged
<1> QED BY <1>2, <1>10, <1>14, <1>15, <1>16, <1>17, <1>18, AppendKeeps DEF l

\* A request on a rule that goes on to its last step.
LEMMA ToUpdate ==
  ASSUME ReviewInv, NEW p \in Processes, req[p].op \in Settling
  PROVE  /\ [req[p] EXCEPT !.at = "update"] \in Request
         /\ \A size : Formed([req[p] EXCEPT !.at = "update"], DOMAIN promo, size)
         /\ \A l : Reads([req[p] EXCEPT !.at = "update"], l)
         /\ [req EXCEPT ![p].at = "update"] = [req EXCEPT ![p] = [req[p] EXCEPT !.at = "update"]]
<1> DEFINE a == req[p]
           r == [a EXCEPT !.at = "update"]
<1>1. /\ a \in Request /\ Formed(a, DOMAIN promo, Len(rules)) /\ a.op \in Settling
      /\ req \in [Processes -> Request]
  BY DEF ReviewInv, TypeOK, RequestsOK
<1>2. /\ r \in Request /\ r.at = "update" /\ r.op = a.op /\ r.who = a.who /\ r.id = a.id
      /\ r.promo = a.promo
  BY <1>1 DEF Request
<1> HIDE DEF r
<1>3. \A size : Formed(r, DOMAIN promo, size) BY <1>1, <1>2 DEF Formed, Settling
<1>4. \A l : Reads(r, l) BY <1>2 DEF Reads
<1> QED BY <1>1, <1>2, <1>3, <1>4 DEF r

\* The memory is loaded whole.
LEMMA LoadedRules ==
  ASSUME ReviewInv, NEW p \in Processes, NEW place \in {"record", "mark"},
         req[p].op = IF place = "record" THEN "settle_yes" ELSE "undo",
         req' = [req EXCEPT ![p].at = place, ![p].view = DOMAIN rules],
         UNCHANGED <<ledger, row, promo, rules, requests, behind, torn, crashes>>
  PROVE  ReviewInv'
<1> DEFINE a == req[p]
           r == [a EXCEPT !.at = place, !.view = DOMAIN rules]
<1>1. a \in Request /\ Formed(a, DOMAIN promo, Len(rules)) /\ a.op \in Settling
  BY Typed DEF ReviewInv, RequestsOK, Settling
<1>2. DOMAIN rules = 1..Len(rules) /\ Len(rules) \in Nat /\ DOMAIN rules \in SUBSET Nat
  <2>1. rules \in Seq(Rule(DOMAIN promo)) BY Typed
  <2> QED BY <2>1
<1>3. /\ req' = [req EXCEPT ![p] = r] /\ r \in Request /\ r.at = place /\ r.op = a.op
      /\ r.view = 1..Len(rules) /\ r.who = a.who /\ r.id = a.id /\ r.promo = a.promo
  BY <1>1, <1>2, Typed DEF Request
<1> HIDE DEF r
<1>4. Len(rules) \in 0..Len(rules) BY <1>2
<1>5. Formed(r, DOMAIN promo, Len(rules)) BY <1>1, <1>3, <1>4 DEF Formed, Settling
<1>6. Reads(r, ledger[File(r)]) BY <1>3 DEF Reads
<1> QED BY <1>3, <1>5, <1>6, Typed, MoveKeeps

\* An approval loads the memory.
LEMMA LoadRulesKeeps ==
  ASSUME ReviewInv, NEW p \in Processes, LoadRules(p)
  PROVE  ReviewInv'
BY LoadedRules DEF LoadRules, At, Unlogged

\* What a record is that a request appends to the memory it has loaded.
LEMMA NumberedIs ==
  ASSUME ReviewInv, NEW p \in Processes, req[p].at \in {"record", "mark"},
         NEW k \in {0} \cup DOMAIN promo, NEW target \in Nat
  PROVE  /\ req[p].view \subseteq DOMAIN rules
         /\ Numbered(req[p].view, k, target) \in Rule(DOMAIN promo)
         /\ Numbered(req[p].view, k, target).promo = k
         /\ Numbered(req[p].view, k, target).target = target
<1>1. PICK m \in 0..Len(rules) : req[p].view = 1..m
  BY DEF ReviewInv, RequestsOK, Formed
<1>2. rules \in Seq(Rule(DOMAIN promo)) BY Typed
<1>3. DOMAIN rules = 1..Len(rules) /\ Len(rules) \in Nat /\ m \in Nat BY <1>1, <1>2
<1>4. Cardinality(req[p].view) = m BY <1>1, <1>3, FS_Interval
<1>5. Cardinality(req[p].view) + 1 \in Nat \ {0} BY <1>3, <1>4
<1> QED BY <1>1, <1>3, <1>5 DEF Numbered, Rule

\* A request that has changed the memory goes on to its last step.
LEMMA RuleKeeps ==
  ASSUME ReviewInv, NEW p \in Processes, req[p].op \in Settling,
         rules' \in Seq(Rule(DOMAIN promo)), Len(rules) <= Len(rules'),
         req' = [req EXCEPT ![p].at = "update"],
         UNCHANGED <<ledger, row, promo, requests, behind, torn, crashes>>
  PROVE  ReviewInv'
<1> DEFINE r == [req[p] EXCEPT !.at = "update"]
<1>1. /\ r \in Request /\ Formed(r, DOMAIN promo, Len(rules')) /\ Reads(r, ledger[File(r)])
      /\ req' = [req EXCEPT ![p] = r]
  BY ToUpdate
<1> HIDE DEF r
<1>2. /\ row' \in Rows /\ promo' \in Seq(Promotion) /\ rules' \in Seq(Rule(DOMAIN promo'))
      /\ behind' \subseteq Accounts /\ torn' \subseteq DOMAIN promo'
      /\ requests' \in Nat /\ crashes' \in Nat
      /\ DOMAIN promo \subseteq DOMAIN promo'
  BY Typed
<1>3. /\ \A i \in Ids : row'[i] # NoRow => Has(ledger[row'[i].owner], i)
      /\ \A k \in DOMAIN promo' : Has(ledger[Org], promo'[k].org)
  BY DEF ReviewInv
<1> QED BY <1>1, <1>2, <1>3, StillKeeps DEF Rows, Promotion, Rule

\* A rule names the promotion it comes from.
LEMMA AddRuleKeeps ==
  ASSUME ReviewInv, NEW p \in Processes, AddRule(p)
  PROVE  /\ ReviewInv'
         /\ req[p].promo \in DOMAIN promo
         /\ Numbered(req[p].view, req[p].promo, 0) \in Rule(DOMAIN promo)
         /\ Numbered(req[p].view, req[p].promo, 0).promo = req[p].promo
         /\ Numbered(req[p].view, req[p].promo, 0).target = 0
<1> DEFINE e == Numbered(req[p].view, req[p].promo, 0)
<1>1. req[p].op \in Settling /\ req[p].promo \in DOMAIN promo /\ req[p].at = "record"
  BY DEF ReviewInv, RequestsOK, Formed, AddRule, At, Settling
<1>2. /\ rules' = Append(rules, e) /\ req' = [req EXCEPT ![p].at = "update"]
      /\ UNCHANGED <<ledger, row, promo, requests, behind, torn, crashes>>
  BY DEF AddRule, Move, Unlogged
<1>3. e \in Rule(DOMAIN promo) /\ e.promo = req[p].promo /\ e.target = 0
  BY <1>1, NumberedIs
<1> HIDE DEF e
<1>4. rules' \in Seq(Rule(DOMAIN promo)) /\ Len(rules) <= Len(rules') BY <1>2, <1>3, Typed
<1>5. ReviewInv' BY <1>1, <1>2, <1>4, RuleKeeps
<1> QED BY <1>1, <1>3, <1>5 DEF e

\* A rollback loads the memory and looks for the rule.
LEMMA LookUpKeeps ==
  ASSUME ReviewInv, NEW p \in Processes, LookUp(p)
  PROVE  ReviewInv'
<1>1. req[p].op = "undo" /\ UNCHANGED <<ledger, row, promo, rules, requests, behind, torn, crashes>>
  BY DEF LookUp, At, Unlogged
<1>2. CASE req' = [req EXCEPT ![p] = NoRequest] BY <1>1, <1>2, Typed, EndKeeps
<1>3. CASE req' = [req EXCEPT ![p].at = "update"]
  BY <1>1, <1>3, ToUpdate, Typed, MoveKeeps DEF Settling
<1>4. CASE req' = [req EXCEPT ![p].at = "mark", ![p].view = DOMAIN rules]
  BY <1>1, <1>4, LoadedRules
<1> QED BY <1>2, <1>3, <1>4 DEF LookUp, Move, End

\* A marker names the number of a rule of its promotion.
LEMMA RetireKeeps ==
  ASSUME ReviewInv, NEW p \in Processes, Retire(p)
  PROVE  /\ ReviewInv'
         /\ req[p].promo \in DOMAIN promo
         /\ \E c \in DOMAIN rules, e \in Rule(DOMAIN promo) :
              /\ rules[c].promo = req[p].promo
              /\ e.promo = 0 /\ e.target = rules[c].rid /\ rules' = Append(rules, e)
<1>1. req[p].op \in Settling /\ req[p].at = "mark" /\ req[p].promo \in DOMAIN promo
  BY DEF ReviewInv, RequestsOK, Formed, Retire, At, Settling
<1>2. /\ req' = [req EXCEPT ![p].at = "update"]
      /\ UNCHANGED <<ledger, row, promo, requests, behind, torn, crashes>>
  BY DEF Retire, Move, Unlogged
<1>3. PICK c \in Claims(req[p].promo, req[p].view) :
        rules' = Append(rules, Numbered(req[p].view, 0, rules[c].rid))
  BY DEF Retire
<1>4. c \in req[p].view /\ rules[c].promo = req[p].promo BY DEF Claims, Visible, Standing
<1>5. req[p].view \subseteq DOMAIN rules BY <1>1, NumberedIs
<1>6. rules[c].rid \in Nat
  <2>1. rules \in Seq(Rule(DOMAIN promo)) BY Typed
  <2>2. rules[c] \in Rule(DOMAIN promo) BY <1>4, <1>5, <2>1
  <2> QED BY <2>2 DEF Rule
<1> DEFINE e == Numbered(req[p].view, 0, rules[c].rid)
<1>7. e \in Rule(DOMAIN promo) /\ e.promo = 0 /\ e.target = rules[c].rid
  BY <1>1, <1>6, NumberedIs
<1> HIDE DEF e
<1>8. rules' = Append(rules, e) BY <1>3 DEF e
<1>9. rules' \in Seq(Rule(DOMAIN promo)) /\ Len(rules) <= Len(rules') BY <1>7, <1>8, Typed
<1>10. ReviewInv' BY <1>1, <1>2, <1>9, RuleKeeps
<1> QED BY <1>1, <1>4, <1>5, <1>7, <1>8, <1>10

\* The promotion takes the state of the decision; the others keep theirs.
LEMMA UpdatePromotionKeeps ==
  ASSUME ReviewInv, NEW p \in Processes, UpdatePromotion(p)
  PROVE  /\ ReviewInv'
         /\ req[p].op \in Settling /\ req[p].promo \in DOMAIN promo
         /\ DOMAIN promo' = DOMAIN promo
         /\ promo'[req[p].promo].state = OrgOutcome[req[p].op]
         /\ \A k \in DOMAIN promo \ {req[p].promo} : promo'[k] = promo[k]
<1> DEFINE a == req[p]
           k == a.promo
           e == [promo[k] EXCEPT !.state = OrgOutcome[a.op]]
<1>1. a.op \in Settling /\ k \in DOMAIN promo
  BY DEF ReviewInv, RequestsOK, Formed, UpdatePromotion
<1>2. /\ promo' = [promo EXCEPT ![k] = e] /\ req' = [req EXCEPT ![p] = NoRequest]
      /\ UNCHANGED <<ledger, row, rules, requests, behind, torn, crashes>>
  BY DEF UpdatePromotion, End, Unlogged
<1>3. promo \in Seq(Promotion) /\ promo[k] \in Promotion BY <1>1, Typed
<1>4. OrgOutcome[a.op] \in {"approved", "rejected", "rolled_back"}
  BY <1>1 DEF Settling, OrgOutcome
<1>5. e \in Promotion /\ e.state = OrgOutcome[a.op] /\ e.org = promo[k].org
  BY <1>3, <1>4 DEF Promotion
<1> HIDE DEF a, k, e
<1>6. /\ promo' \in Seq(Promotion) /\ DOMAIN promo' = DOMAIN promo /\ promo'[k] = e
      /\ \A j \in DOMAIN promo \ {k} : promo'[j] = promo[j]
  BY <1>1, <1>2, <1>3, <1>5
<1>7. \A j \in DOMAIN promo' : Has(ledger[Org], promo'[j].org) BY <1>1, <1>5, <1>6, Typed
<1>8. ReviewInv' BY <1>2, <1>6, <1>7, Typed, EndKeeps
<1> QED BY <1>1, <1>5, <1>6, <1>8 DEF a, k

\* A request that is cut off leaves files, rows and rules as they are.
LEMMA CrashKeeps ==
  ASSUME ReviewInv, NEW p \in Processes, Crash(p)
  PROVE  ReviewInv'
<1>1. Formed(req[p], DOMAIN promo, Len(rules)) BY DEF ReviewInv, RequestsOK
<1>2. behind' \subseteq Accounts BY <1>1, Typed DEF Crash, Formed
<1>3. torn' \subseteq DOMAIN promo BY <1>1, Typed DEF Crash, Formed
<1>4. /\ UNCHANGED <<ledger, row, promo, rules, requests>> /\ crashes' = crashes + 1
      /\ req' = [req EXCEPT ![p] = NoRequest]
  BY DEF Crash, End
<1>5. crashes' \in Nat BY <1>4, Typed
<1>6. /\ row' \in Rows /\ promo' \in Seq(Promotion) /\ rules' \in Seq(Rule(DOMAIN promo'))
      /\ requests' \in Nat /\ torn' \subseteq DOMAIN promo'
      /\ \A i \in Ids : row'[i] # NoRow => Has(ledger[row'[i].owner], i)
      /\ \A k \in DOMAIN promo' : Has(ledger[Org], promo'[k].org)
  BY <1>3, <1>4, Typed
<1> QED BY <1>2, <1>4, <1>5, <1>6, EndKeeps

\* The steps of a process, one by one.
LEMMA ReviewStep == ReviewInv /\ [Next]_vars => ReviewInv'
<1> SUFFICES ASSUME ReviewInv, [Next]_vars PROVE ReviewInv' OBVIOUS
<1>1. CASE UNCHANGED vars
  BY <1>1 DEF vars, ReviewInv, TypeOK, RequestsOK
<1>2. CASE Next
  <2>1. PICK p \in Processes :
          \/ \E who \in Accounts :
               \/ Propose(p, who) \/ Rebuild(p, who)
               \/ \E i \in Ids, op \in {"evaluate", "approve", "reject", "rollback", "promote"} :
                    Open(p, who, op, i)
               \/ \E k \in DOMAIN promo, op \in {"settle_yes", "settle_no", "undo"} :
                    Settle(p, who, op, k)
          \/ \E state \in States : AppendVersion(p, state)
          \/ Sync(p) \/ ListLedger(p) \/ Replay(p) \/ LoadOrg(p) \/ OrgPropose(p)
          \/ \E state \in {"evaluated", "evaluated_failed"} : OrgEvaluate(p, state)
          \/ InsertPromotion(p) \/ OrgAppend(p) \/ UpdatePromotion(p)
          \/ LoadRules(p) \/ AddRule(p) \/ LookUp(p) \/ Retire(p)
          \/ Crash(p)
    BY <1>2 DEF Next
  <2>2. CASE \E who \in Accounts :
               \/ Propose(p, who) \/ Rebuild(p, who)
               \/ \E i \in Ids, op \in {"evaluate", "approve", "reject", "rollback", "promote"} :
                    Open(p, who, op, i)
               \/ \E k \in DOMAIN promo, op \in {"settle_yes", "settle_no", "undo"} :
                    Settle(p, who, op, k)
    BY <2>2, ProposeKeeps, RebuildKeeps, OpenKeeps, SettleKeeps DEF Settling
  <2>3. CASE \E state \in States : AppendVersion(p, state) BY <2>3, AppendVersionKeeps
  <2>4. CASE Sync(p) \/ LoadOrg(p) BY <2>4, SyncKeeps, LoadOrgKeeps
  <2>10. CASE ListLedger(p) \/ Replay(p) BY <2>10, ListKeeps, ReplayKeeps
  <2>5. CASE OrgPropose(p) BY <2>5, OrgProposeKeeps
  <2>6. CASE \E state \in {"evaluated", "evaluated_failed"} : OrgEvaluate(p, state)
    BY <2>6, OrgEvaluateKeeps
  <2>7. CASE InsertPromotion(p) \/ OrgAppend(p) BY <2>7, InsertPromotionKeeps, OrgAppendKeeps
  <2>8. CASE LoadRules(p) \/ AddRule(p) BY <2>8, LoadRulesKeeps, AddRuleKeeps
  <2>11. CASE LookUp(p) \/ Retire(p) BY <2>11, LookUpKeeps, RetireKeeps
  <2>9. CASE UpdatePromotion(p) \/ Crash(p) BY <2>9, UpdatePromotionKeeps, CrashKeeps
  <2> QED BY <2>1, <2>2, <2>3, <2>4, <2>5, <2>6, <2>7, <2>8, <2>9, <2>10, <2>11
<1> QED BY <1>1, <1>2

\* In every behaviour the files hold what the requests take them to hold.
THEOREM ReviewHolds == Spec => []ReviewInv
BY ReviewInit, ReviewStep, PTL DEF Spec

\* Every file, row and request has the type the handlers give it, and a version is
\* chained to an earlier record of its file.
THEOREM ReviewTyped == Spec => []TypeOK
<1>1. ReviewInv => TypeOK BY DEF ReviewInv
<1> QED BY <1>1, ReviewHolds, PTL

\* An approval was earned, in every ledger that one process at a time appended to.
THEOREM ApprovalsAreEarned == Spec => []ApprovalsEarned
<1>1. ReviewInv => ApprovalsEarned
  <2> SUFFICES ASSUME ReviewInv, NEW o \in Owners, ~Forked(o), NEW n \in DOMAIN ledger[o],
                      ledger[o][n].state = "approved"
               PROVE  LET r == ledger[o][n]
                          before == {ledger[o][k] :
                                      k \in {j \in 1..(n - 1) : ledger[o][j].id = r.id}}
                      IN /\ Role[r.actor] # Role[r.by]
                         /\ \E q \in before : q.state = "evaluated" /\ q.version = r.version - 1
                         /\ \A q \in before : q.state \in {"draft", "evaluated"}
    BY DEF ApprovalsEarned
  <2>1. Unforked(ledger[o]) BY DEF Forked, Unforked
  <2>2. Earned(ledger[o]) BY <2>1 DEF ReviewInv, LedgerOK
  <2> QED BY <2>2 DEF Earned, Pending
<1> QED BY <1>1, ReviewHolds, PTL

-------------------------------------------------------------------------------
(* The projection.                                                          *)

\* A step that leaves the ledgers and the rows, and ends no projection that is due
\* unless the author is marked as behind.
LEMMA CurrentKept ==
  ASSUME Current, NEW p \in Processes, row' = row, \A a \in Accounts : ledger'[a] = ledger[a],
         \A q \in Processes \ {p} : req'[q] = req[q],
         behind \subseteq behind',
         req[p].at \in {"sync", "list", "replay"} => req[p].owner \in behind'
  PROVE  Current'
<1> SUFFICES ASSUME NEW o \in Accounts \ behind', NEW i \in Ids, Alone(ledger', o, i)
             PROVE  \/ RowIs(row[i], ledger'[o], o, i)
                    \/ \E q \in Processes : Projects(req'[q], ledger'[o], o, i)
  BY DEF Current, CurrentAt
<1>1. ledger'[o] = ledger[o] /\ Alone(ledger, o, i) BY DEF Alone
<1>2. RowIs(row[i], ledger[o], o, i) \/ \E q \in Processes : Projects(req[q], ledger[o], o, i)
  BY <1>1 DEF Current, CurrentAt
<1>3. ~Projects(req[p], ledger[o], o, i) BY DEF Projects
<1> QED BY <1>1, <1>2, <1>3

\* A version that is appended makes the row of its own proposal due, and no other.
LEMMA CurrentAppended ==
  ASSUME ReviewInv, Current, NEW p \in Processes, NEW state \in States, AppendVersion(p, state)
  PROVE  Current'
<1>1. PICK rec \in LedgerRecord :
        /\ rec.id = req[p].id /\ req[p].owner \in Owners
        /\ ledger' = [ledger EXCEPT ![req[p].owner] = Append(@, rec)]
  BY AppendVersionKeeps
<1>2. /\ req[p].at = "append" /\ UNCHANGED <<row, behind>>
      /\ req' = [req EXCEPT ![p].at = "sync", ![p].view = Seen(req[p].owner, req[p].view)]
  BY DEF AppendVersion, Unlogged
<1>3. ledger \in [Owners -> Seq(LedgerRecord)] /\ req \in [Processes -> Request]
      /\ req[p] \in Request
  BY DEF ReviewInv, TypeOK
<1>4. /\ req'[p].at = "sync" /\ req'[p].owner = req[p].owner /\ req'[p].id = req[p].id
      /\ \A q \in Processes \ {p} : req'[q] = req[q]
  BY <1>2, <1>3 DEF Request
<1> SUFFICES ASSUME NEW o \in Accounts \ behind, NEW i \in Ids, Alone(ledger', o, i)
             PROVE  \/ RowIs(row[i], ledger'[o], o, i)
                    \/ \E q \in Processes : Projects(req'[q], ledger'[o], o, i)
  BY <1>2 DEF Current, CurrentAt
<1>5. CASE o = req[p].owner /\ i = rec.id BY <1>1, <1>4, <1>5 DEF Projects
<1>6. CASE ~(o = req[p].owner /\ i = rec.id)
  <2> DEFINE l == ledger[o]
             t == Append(l, rec)
  <2>1. o \in Owners /\ l \in Seq(LedgerRecord) BY <1>3 DEF Owners
  <2>2. /\ t \in Seq(LedgerRecord) /\ DOMAIN l = 1..Len(l) /\ DOMAIN t = 1..(Len(l) + 1)
        /\ t[Len(l) + 1] = rec /\ \A n \in DOMAIN l : n \in DOMAIN t /\ t[n] = l[n]
        /\ Len(l) \in Nat
    BY <2>1, Appended
  <2>3. o # req[p].owner => ledger'[o] = l BY <1>1, <1>3, <2>1
  <2>4. o = req[p].owner => ledger'[o] = t BY <1>1, <1>3, <2>1
  <2> HIDE DEF t
  <2>5. /\ Of(ledger'[o], DOMAIN ledger'[o], i) = Of(l, DOMAIN l, i)
        /\ Has(ledger'[o], i) =>
             LatestIn(ledger'[o], DOMAIN ledger'[o], i) = LatestIn(l, DOMAIN l, i)
    <3>1. CASE o # req[p].owner BY <2>3, <3>1
    <3>2. CASE o = req[p].owner
      <4>1. \A n \in DOMAIN t : n \in DOMAIN l \/ n = Len(l) + 1 BY <2>2
      <4>2. Of(t, DOMAIN t, i) = Of(l, DOMAIN l, i) BY <1>6, <2>2, <3>2, <4>1 DEF Of
      <4>3. \A n \in Of(l, DOMAIN l, i) : t[n] = l[n] BY <2>2 DEF Of
      <4>4. DOMAIN t \in SUBSET DOMAIN t /\ DOMAIN l \in SUBSET DOMAIN l OBVIOUS
      <4>5. Of(t, DOMAIN t, i) # {} => LatestIn(t, DOMAIN t, i) = LatestIn(l, DOMAIN l, i)
        BY <2>1, <2>2, <4>2, <4>3, <4>4, LatestSame
      <4> QED BY <2>4, <3>2, <4>2, <4>5 DEF Has
    <3> QED BY <3>1, <3>2
  <2>6. \A a \in Accounts : Has(ledger[a], i) => Has(ledger'[a], i)
    <3> SUFFICES ASSUME NEW a \in Accounts, Has(ledger[a], i) PROVE Has(ledger'[a], i) OBVIOUS
    <3>1. a \in Owners /\ ledger[a] \in Seq(LedgerRecord) BY <1>3 DEF Owners
    <3>2. CASE a = req[p].owner
      <4>1. ledger'[a] = Append(ledger[a], rec) BY <1>1, <1>3, <3>1, <3>2
      <4>2. DOMAIN ledger[a] \in SUBSET DOMAIN ledger[a] OBVIOUS
      <4> QED BY <3>1, <4>1, <4>2, AppendedViews DEF Has
    <3>3. CASE a # req[p].owner BY <1>1, <1>3, <3>1, <3>3
    <3> QED BY <3>2, <3>3
  <2>7. Alone(ledger, o, i) BY <2>5, <2>6 DEF Alone, Has
  <2>8. RowIs(row[i], l, o, i) \/ \E q \in Processes : Projects(req[q], l, o, i)
    BY <2>7 DEF Current, CurrentAt
  <2>9. RowIs(row[i], l, o, i) => RowIs(row[i], ledger'[o], o, i) BY <2>5 DEF RowIs, Alone
  <2>10. ~Projects(req[p], l, o, i) BY <1>2 DEF Projects
  <2>11. ASSUME NEW q \in Processes, Projects(req[q], l, o, i)
         PROVE  Projects(req[q], ledger'[o], o, i)
    <3>1. req[q].at = "replay" => req[q].view \subseteq DOMAIN l
      <4>1. Reads(req[q], ledger[File(req[q])]) BY DEF ReviewInv, RequestsOK
      <4> QED BY <2>11, <4>1 DEF Projects, Reads, File
    <3>2. \A n \in DOMAIN l : ledger'[o][n] = l[n] BY <2>2, <2>3, <2>4
    <3> HIDE DEF l
    <3> QED BY <2>11, <3>1, <3>2 DEF Projects
  <2> QED BY <1>4, <2>8, <2>9, <2>10, <2>11
<1> QED BY <1>5, <1>6

\* A projection writes the row of its proposal, or leaves the author marked as behind.
LEMMA CurrentSynced ==
  ASSUME ReviewInv, Current, NEW p \in Processes, Sync(p)
  PROVE  Current'
<1> DEFINE r == req[p]
           rec == Latest(r.owner, r.view, r.id)
<1>1. /\ r.at = "sync" /\ r \in Request
      /\ Formed(r, DOMAIN promo, Len(rules)) /\ Reads(r, ledger[File(r)])
  BY DEF ReviewInv, TypeOK, RequestsOK, Sync
<1>2. r.owner \in Accounts /\ r.owner \in Owners /\ r.id \in Ids /\ File(r) = r.owner
  BY <1>1 DEF Formed, File, Owners
<1>3. r.view \in SUBSET DOMAIN ledger[r.owner] /\ Of(ledger[r.owner], r.view, r.id) # {}
  BY <1>1, <1>2 DEF Reads
<1>4. rec \in LedgerRecord BY <1>2, <1>3, LatestTyped
<1>5. /\ row' = Upserted(row, r.id, r.owner, rec) /\ behind \subseteq behind'
      /\ rec = Latest(r.owner, Whole(r.owner), r.id) \/ r.owner \in behind'
      /\ req' = [req EXCEPT ![p] = NoRequest] /\ UNCHANGED ledger
  BY DEF Sync, End
<1>6. Latest(r.owner, Whole(r.owner), r.id) =
        LatestIn(ledger[r.owner], DOMAIN ledger[r.owner], r.id)
  BY LatestIs DEF Whole
<1>7. \A q \in Processes \ {p} : req'[q] = req[q] BY <1>5, Typed
<1> HIDE DEF r, rec
<1>8. /\ row'[r.id] = [owner |-> IF row[r.id] = NoRow THEN r.owner ELSE row[r.id].owner,
                      state |-> rec.state, version |-> rec.version]
      /\ \A j \in Ids \ {r.id} : row'[j] = row[j]
  BY <1>2, <1>4, <1>5, Typed, UpsertedIs
<1>9. Has(ledger[r.owner], r.id) BY <1>3 DEF Has, Of
<1> SUFFICES ASSUME NEW o \in Accounts \ behind', NEW i \in Ids, Alone(ledger, o, i)
             PROVE  \/ RowIs(row'[i], ledger[o], o, i)
                    \/ \E q \in Processes : Projects(req'[q], ledger[o], o, i)
  BY <1>5 DEF Current, CurrentAt
<1>10. RowIs(row[i], ledger[o], o, i) \/ \E q \in Processes : Projects(req[q], ledger[o], o, i)
  BY <1>5 DEF Current, CurrentAt
<1>11. CASE i # r.id
  <2>1. ~Projects(req[p], ledger[o], o, i) BY <1>1, <1>11 DEF Projects, r
  <2> QED BY <1>7, <1>8, <1>10, <1>11, <2>1
<1>12. CASE i = r.id
  <2>1. o = r.owner BY <1>2, <1>9, <1>12 DEF Alone
  <2>2. row[i] # NoRow => row[i].owner = o
    <3>1. row[i] # NoRow => row[i].owner \in Accounts /\ Has(ledger[row[i].owner], i)
      BY Typed DEF Rows
    <3> QED BY <3>1 DEF Alone
  <2>3. rec = LatestIn(ledger[o], DOMAIN ledger[o], i) BY <1>5, <1>6, <1>12, <2>1
  <2> QED BY <1>8, <1>12, <2>1, <2>2, <2>3 DEF RowIs
<1> QED BY <1>11, <1>12

\* A rebuild takes the rows of one ledger away and is due to load it.
LEMMA CurrentRebuilding ==
  ASSUME ReviewInv, Current, NEW p \in Processes, NEW who \in Accounts, Rebuild(p, who)
  PROVE  Current'
<1>1. /\ row' = [i \in Ids |-> IF row[i] # NoRow /\ row[i].owner = who THEN NoRow ELSE row[i]]
      /\ req' = [req EXCEPT ![p] = [NoRequest EXCEPT !.op = "rebuild", !.at = "list",
                                                     !.who = who, !.owner = who]]
  BY DEF Rebuild, Begin, Idle, Unlogged
<1>2. Idle(p) /\ UNCHANGED <<ledger, behind>> BY DEF Rebuild, Begin, Unlogged
<1>3. req[p].at = "none"
  <2>1. Formed(req[p], DOMAIN promo, Len(rules)) BY DEF ReviewInv, RequestsOK
  <2> QED BY <1>2, <2>1 DEF Idle, Formed, NoRequest
<1>4. /\ req'[p].owner = who /\ req'[p].at = "list"
      /\ \A q \in Processes \ {p} : req'[q] = req[q]
  BY <1>1, Typed DEF NoRequest
<1> SUFFICES ASSUME NEW o \in Accounts \ behind, NEW i \in Ids, Alone(ledger, o, i)
             PROVE  \/ RowIs(row'[i], ledger[o], o, i)
                    \/ \E q \in Processes : Projects(req'[q], ledger[o], o, i)
  BY <1>2 DEF Current, CurrentAt
<1>5. CASE o = who BY <1>4, <1>5 DEF Projects
<1>6. CASE o # who
  <2>1. RowIs(row[i], ledger[o], o, i) \/ \E q \in Processes : Projects(req[q], ledger[o], o, i)
    BY DEF Current, CurrentAt
  <2>2. ~Projects(req[p], ledger[o], o, i) BY <1>3 DEF Projects
  <2>3. RowIs(row[i], ledger[o], o, i) => row'[i] = row[i] BY <1>1, <1>6 DEF RowIs
  <2> QED BY <1>4, <2>1, <2>2, <2>3
<1> QED BY <1>5, <1>6

\* The load makes every proposal of the ledger due, and the author is behind no longer.
LEMMA CurrentListed ==
  ASSUME ReviewInv, Current, NEW p \in Processes, ListLedger(p)
  PROVE  Current'
<1> DEFINE w == req[p].owner
           due == {Newest(w, Whole(w), i) : i \in Held(w)}
<1>1. /\ behind' = behind \ {w} /\ req[p].at = "list" /\ UNCHANGED <<ledger, row>>
      /\ IF due = {} THEN req' = [req EXCEPT ![p] = NoRequest]
         ELSE req' = [req EXCEPT ![p].at = "replay", ![p].view = due]
  BY DEF ListLedger, End
<1>2. w \in Accounts /\ w \in Owners
  BY <1>1 DEF ReviewInv, RequestsOK, Formed, Owners
<1>3. \A i : Has(ledger[w], i) => i \in Held(w) BY DEF Has, Of, Held, Whole
<1>4. \A i \in Held(w) : Newest(w, Whole(w), i) \in due
                        /\ ledger[w][Newest(w, Whole(w), i)].id = i
  BY <1>2, NewestIs
<1> HIDE DEF due
<1>5. /\ \A q \in Processes \ {p} : req'[q] = req[q]
      /\ due # {} => req'[p].at = "replay" /\ req'[p].view = due /\ req'[p].owner = w
  BY <1>1, Typed DEF Request
<1> HIDE DEF w
<1> SUFFICES ASSUME NEW o \in Accounts \ behind', NEW i \in Ids, Alone(ledger, o, i)
             PROVE  \/ RowIs(row[i], ledger[o], o, i)
                    \/ \E q \in Processes : Projects(req'[q], ledger[o], o, i)
  BY <1>1 DEF Current, CurrentAt
<1>6. CASE o = w
  <2>1. i \in Held(w) BY <1>3, <1>6 DEF Alone
  <2>2. Projects(req'[p], ledger[o], o, i) BY <1>4, <1>5, <1>6, <2>1 DEF Projects
  <2> QED BY <2>2
<1>7. CASE o # w
  <2>1. RowIs(row[i], ledger[o], o, i) \/ \E q \in Processes : Projects(req[q], ledger[o], o, i)
    BY <1>1, <1>7 DEF Current, CurrentAt
  <2>2. ~Projects(req[p], ledger[o], o, i) BY <1>7 DEF Projects, w
  <2> QED BY <1>5, <2>1, <2>2
<1> QED BY <1>6, <1>7

\* An upsert of the rebuild writes one row, or leaves the author marked as behind.
LEMMA CurrentReplayed ==
  ASSUME ReviewInv, Current, NEW p \in Processes, Replay(p)
  PROVE  Current'
<1> DEFINE r == req[p]
           w == r.owner
<1>1. /\ r.at = "replay" /\ r \in Request /\ UNCHANGED ledger
      /\ Formed(r, DOMAIN promo, Len(rules)) /\ Reads(r, ledger[File(r)])
  BY Typed DEF ReviewInv, RequestsOK, Replay
<1>2. w \in Accounts /\ w \in Owners /\ r.view \subseteq DOMAIN ledger[w]
  BY <1>1 DEF Formed, Owners, File, Reads
<1>3. PICK n \in r.view :
        /\ row' = Upserted(row, ledger[w][n].id, w, ledger[w][n]) /\ behind \subseteq behind'
        /\ \/ ledger[w][n] = Latest(w, Whole(w), ledger[w][n].id)
           \/ w \in behind'
        /\ IF r.view = {n} THEN req' = [req EXCEPT ![p] = NoRequest]
           ELSE req' = [req EXCEPT ![p].view = @ \ {n}]
  BY DEF Replay, End
<1> DEFINE rec == ledger[w][n]
           j == rec.id
<1>4. rec \in LedgerRecord /\ j \in Ids /\ Has(ledger[w], j)
  <2>1. rec \in LedgerRecord BY <1>2, Records
  <2> QED BY <1>2, <2>1 DEF LedgerRecord, Has, Of
<1>5. Latest(w, Whole(w), j) = LatestIn(ledger[w], DOMAIN ledger[w], j) BY LatestIs DEF Whole
<1>6. /\ \A q \in Processes \ {p} : req'[q] = req[q]
      /\ r.view # {n} => /\ req'[p].at = "replay" /\ req'[p].owner = w
                         /\ req'[p].view = r.view \ {n}
  BY <1>1, <1>3, Typed DEF Request
<1> HIDE DEF r, w, rec, j
<1>7. /\ row'[j] = [owner |-> IF row[j] = NoRow THEN w ELSE row[j].owner,
                    state |-> rec.state, version |-> rec.version]
      /\ \A i \in Ids \ {j} : row'[i] = row[i]
  BY <1>2, <1>3, <1>4, Typed, UpsertedIs DEF rec, j
<1> SUFFICES ASSUME NEW o \in Accounts \ behind', NEW i \in Ids, Alone(ledger, o, i)
             PROVE  \/ RowIs(row'[i], ledger[o], o, i)
                    \/ \E q \in Processes : Projects(req'[q], ledger[o], o, i)
  BY <1>1 DEF Current, CurrentAt
<1>8. RowIs(row[i], ledger[o], o, i) \/ \E q \in Processes : Projects(req[q], ledger[o], o, i)
  BY <1>3 DEF Current, CurrentAt
<1>9. CASE i # j
  <2>1. ASSUME Projects(req[p], ledger[o], o, i) PROVE Projects(req'[p], ledger[o], o, i)
    <3>1. o = w /\ \E m \in r.view : ledger[o][m].id = i BY <1>1, <2>1 DEF Projects, r, w
    <3>2. PICK m \in r.view : ledger[o][m].id = i BY <3>1
    <3>3. m # n BY <1>9, <3>1, <3>2 DEF j, rec
    <3> QED BY <1>6, <3>1, <3>2, <3>3 DEF Projects
  <2> QED BY <1>6, <1>7, <1>8, <1>9, <2>1
<1>10. CASE i = j
  <2>1. o = w BY <1>2, <1>4, <1>10 DEF Alone
  <2>2. row[i] # NoRow => row[i].owner = o
    <3>1. row[i] # NoRow => row[i].owner \in Accounts /\ Has(ledger[row[i].owner], i)
      BY Typed DEF Rows
    <3> QED BY <3>1 DEF Alone
  <2>3. rec = LatestIn(ledger[o], DOMAIN ledger[o], i)
    BY <1>3, <1>5, <1>10, <2>1 DEF rec, j
  <2> QED BY <1>7, <1>10, <2>1, <2>2, <2>3 DEF RowIs
<1> QED BY <1>9, <1>10

\* No step leaves a row out of date without a request that is about to write it.
LEMMA CurrentStep == ReviewInv /\ Current /\ [Next]_vars => Current'
<1> SUFFICES ASSUME ReviewInv, Current, [Next]_vars PROVE Current' OBVIOUS
<1>1. CASE UNCHANGED vars BY <1>1 DEF vars, Current
<1>2. CASE Next
  <2>1. PICK p \in Processes :
          \/ \E who \in Accounts :
               \/ Propose(p, who) \/ Rebuild(p, who)
               \/ \E i \in Ids, op \in {"evaluate", "approve", "reject", "rollback", "promote"} :
                    Open(p, who, op, i)
               \/ \E k \in DOMAIN promo, op \in {"settle_yes", "settle_no", "undo"} :
                    Settle(p, who, op, k)
          \/ \E state \in States : AppendVersion(p, state)
          \/ Sync(p) \/ ListLedger(p) \/ Replay(p) \/ LoadOrg(p) \/ OrgPropose(p)
          \/ \E state \in {"evaluated", "evaluated_failed"} : OrgEvaluate(p, state)
          \/ InsertPromotion(p) \/ OrgAppend(p) \/ UpdatePromotion(p)
          \/ LoadRules(p) \/ AddRule(p) \/ LookUp(p) \/ Retire(p)
          \/ Crash(p)
    BY <1>2 DEF Next
  <2>2. req \in [Processes -> Request] /\ ledger \in [Owners -> Seq(LedgerRecord)]
        /\ Formed(req[p], DOMAIN promo, Len(rules)) /\ Org \notin Accounts
    BY ReviewAssumption DEF ReviewInv, TypeOK, RequestsOK
  <2>3. Idle(p) => req[p].at = "none" BY <2>2 DEF Idle, Formed, NoRequest
  <2>4. CASE \E who \in Accounts : Rebuild(p, who) BY <2>4, CurrentRebuilding
  <2>5. CASE \E state \in States : AppendVersion(p, state) BY <2>5, CurrentAppended
  <2>6. CASE Sync(p) \/ ListLedger(p) \/ Replay(p)
    BY <2>6, CurrentSynced, CurrentListed, CurrentReplayed
  <2>7. CASE \/ \E who \in Accounts :
                  \/ Propose(p, who)
                  \/ \E i \in Ids, op \in {"evaluate", "approve", "reject", "rollback", "promote"} :
                       Open(p, who, op, i)
                  \/ \E k \in DOMAIN promo, op \in {"settle_yes", "settle_no", "undo"} :
                       Settle(p, who, op, k)
    <3>1. UNCHANGED <<ledger, row, behind>> /\ Idle(p)
      BY <2>7 DEF Propose, Open, Settle, Begin, Unlogged
    <3>2. \A q \in Processes \ {p} : req'[q] = req[q]
      BY <2>2, <2>7 DEF Propose, Open, Settle, Begin
    <3> QED BY <2>3, <3>1, <3>2, CurrentKept
  <2>8. CASE \/ LoadOrg(p) \/ InsertPromotion(p) \/ UpdatePromotion(p)
             \/ LoadRules(p) \/ AddRule(p) \/ LookUp(p) \/ Retire(p)
    <3>1. UNCHANGED <<ledger, row, behind>> /\ req[p].at \notin {"sync", "list", "replay"}
      BY <2>8 DEF LoadOrg, InsertPromotion, UpdatePromotion, LoadRules, AddRule, LookUp,
                          Retire, At, Unlogged
    <3>2. \A q \in Processes \ {p} : req'[q] = req[q]
      BY <2>2, <2>8 DEF LoadOrg, InsertPromotion, UpdatePromotion, LoadRules, AddRule, LookUp,
                        Retire, Move, End
    <3> QED BY <3>1, <3>2, CurrentKept
  <2>9. CASE \/ OrgPropose(p) \/ OrgAppend(p)
             \/ \E state \in {"evaluated", "evaluated_failed"} : OrgEvaluate(p, state)
    <3>1. UNCHANGED <<row, behind>> /\ req[p].at \notin {"sync", "list", "replay"}
      BY <2>9 DEF OrgPropose, OrgAppend, OrgEvaluate, At, Unlogged
    <3>2. \A a \in Accounts : ledger'[a] = ledger[a]
      BY <2>2, <2>9 DEF OrgPropose, OrgAppend, OrgEvaluate, Note, Owners
    <3>3. \A q \in Processes \ {p} : req'[q] = req[q]
      BY <2>2, <2>9 DEF OrgPropose, OrgAppend, OrgEvaluate, Move
    <3> QED BY <3>1, <3>2, <3>3, CurrentKept
  <2>10. CASE Crash(p)
    <3>1. UNCHANGED <<ledger, row>> /\ behind \subseteq behind'
          /\ (req[p].at \in {"sync", "list", "replay"} => req[p].owner \in behind')
      BY <2>10 DEF Crash
    <3>2. \A q \in Processes \ {p} : req'[q] = req[q] BY <2>2, <2>10 DEF Crash, End
    <3> QED BY <3>1, <3>2, CurrentKept
  <2> QED BY <2>1, <2>4, <2>5, <2>6, <2>7, <2>8, <2>9, <2>10
<1> QED BY <1>1, <1>2

\* Between requests the projection shows the latest version of every proposal whose
\* number no other author uses, unless a request for its ledger died or was overtaken.
THEOREM ProjectionFollows == Spec => []ProjectionFollowsUnlessShared
<1>1. Init => Current
  <2> SUFFICES ASSUME Init PROVE Current OBVIOUS
  <2>1. \A o \in Accounts : ledger[o] = <<>> BY DEF Init, Owners
  <2>2. \A o \in Accounts : \A i : ~Has(ledger[o], i) BY <2>1 DEF Has, Of
  <2> QED BY <2>2 DEF Current, CurrentAt, Alone
<1>2. ReviewInv /\ Current /\ [Next]_vars => Current' BY CurrentStep
<1>3. ReviewInv /\ Current => ProjectionFollowsUnlessShared
  <2> SUFFICES ASSUME ReviewInv, Current, Quiet, NEW o \in Accounts \ behind, NEW i \in Held(o),
                      \A a \in Accounts \ {o} : i \notin Held(a)
               PROVE  RowIsCurrent(o, i)
    BY DEF ProjectionFollowsUnlessShared
  <2>1. \A a \in Accounts : i \in Held(a) <=> Has(ledger[a], i) BY DEF Held, Has, Of, Whole
  <2>2. Alone(ledger, o, i) BY <2>1 DEF Alone
  <2>3. i \in Ids
    <3>1. o \in Owners BY DEF Owners
    <3>2. PICK n \in DOMAIN ledger[o] : ledger[o][n].id = i BY DEF Held, Whole
    <3> QED BY <3>1, <3>2, Records DEF LedgerRecord
  <2>4. \A q \in Processes : req[q].at = "none"
    BY DEF Quiet, Idle, ReviewInv, RequestsOK, Formed, NoRequest
  <2>5. RowIs(row[i], ledger[o], o, i)
    BY <2>2, <2>3, <2>4 DEF Current, CurrentAt, Projects
  <2>6. Latest(o, Whole(o), i) = LatestIn(ledger[o], DOMAIN ledger[o], i) BY LatestIs DEF Whole
  <2> QED BY <2>5, <2>6 DEF RowIsCurrent, RowIs
<1> QED BY <1>1, <1>2, <1>3, ReviewHolds, PTL DEF Spec

-------------------------------------------------------------------------------
(* The rules.                                                               *)

\* The company's memory is finite, and so is what stands of it.
LEMMA Entries ==
  ASSUME NEW known, NEW rs \in Seq(Rule(known))
  PROVE  /\ DOMAIN rs = 1..Len(rs) /\ Len(rs) \in Nat
         /\ IsFiniteSet(Kept(rs)) /\ Cardinality(Kept(rs)) \in Nat
         /\ \A n \in DOMAIN rs : n \in Nat /\ rs[n] \in Rule(known) /\ rs[n].rid # 0
<1>1. DOMAIN rs = 1..Len(rs) /\ Len(rs) \in Nat OBVIOUS
<1>2. IsFiniteSet(1..Len(rs)) BY <1>1, FS_Interval
<1>3. Kept(rs) \subseteq 1..Len(rs) BY <1>1 DEF Kept
<1>4. IsFiniteSet(Kept(rs)) BY <1>2, <1>3, FS_Subset
<1>5. \A n \in DOMAIN rs : n \in Nat /\ rs[n] \in Rule(known) BY <1>1
<1>6. \A n \in DOMAIN rs : rs[n].rid # 0 BY <1>5 DEF Rule
<1> QED BY <1>1, <1>4, <1>5, <1>6, FS_CardinalityType

\* A set that lost an element and won one is no smaller.
LEMMA Exchanged ==
  ASSUME NEW S, NEW T, IsFiniteSet(S), IsFiniteSet(T), NEW x \in S, NEW y, y \notin S,
         (S \ {x}) \cup {y} \subseteq T
  PROVE  Cardinality(S) <= Cardinality(T)
<1> DEFINE R == S \ {x}
<1>1. IsFiniteSet(R) /\ Cardinality(R) = Cardinality(S) - 1 /\ Cardinality(S) \in Nat
  BY FS_RemoveElement, FS_CardinalityType
<1>2. y \notin R OBVIOUS
<1> HIDE DEF R
<1>3. Cardinality(R \cup {y}) = Cardinality(R) + 1 BY <1>1, <1>2, FS_AddElement
<1>4. R \cup {y} \in SUBSET T BY DEF R
<1>5. Cardinality(R \cup {y}) <= Cardinality(T) BY <1>4, FS_Subset
<1> QED BY <1>1, <1>3, <1>5

\* A marker that is appended names a number that is borne.
Names(rs, e) == e.target # 0 => \E n \in DOMAIN rs : rs[n].rid = e.target

\* What an entry that is appended changes: a number that two entries bear stays so,
\* and the entry belongs to its promotion and retires the number it names.
Grown(rs, e, t) ==
  /\ DOMAIN t = DOMAIN rs \cup {Len(rs) + 1} /\ Len(rs) + 1 \notin DOMAIN rs
  /\ t[Len(rs) + 1] = e /\ \A n \in DOMAIN rs : t[n] = rs[n]
  /\ Borne(t)
  /\ \A k : Twin(rs, k) => Twin(t, k)
  /\ \A k : e.promo # k => Own(t, k) = Own(rs, k)
  /\ \A k : e.promo = k => Own(t, k) = Own(rs, k) \cup {Len(rs) + 1}
  /\ \A n \in DOMAIN rs : StruckIn(t, n) <=> StruckIn(rs, n) \/ e.target = rs[n].rid

\* An append does what it should.
LEMMA RuleAppended ==
  ASSUME NEW known, NEW rs \in Seq(Rule(known)), NEW e \in Rule(known), Borne(rs), Names(rs, e)
  PROVE  Grown(rs, e, Append(rs, e))
<1> DEFINE h == Len(rs) + 1
           t == Append(rs, e)
<1>1. /\ DOMAIN t = DOMAIN rs \cup {h} /\ h \notin DOMAIN rs
      /\ t[h] = e /\ \A n \in DOMAIN rs : t[n] = rs[n]
  OBVIOUS
<1> HIDE DEF h, t
<1>2. Borne(t)
  <2> SUFFICES ASSUME NEW m \in DOMAIN t, t[m].target # 0
               PROVE  \E n \in DOMAIN t : t[n].rid = t[m].target
    BY DEF Borne
  <2>1. CASE m \in DOMAIN rs
    <3>1. PICK n \in DOMAIN rs : rs[n].rid = rs[m].target BY <1>1, <2>1 DEF Borne
    <3> QED BY <1>1, <2>1, <3>1
  <2>2. CASE m = h
    <3>1. PICK n \in DOMAIN rs : rs[n].rid = e.target BY <1>1, <2>2 DEF Names
    <3> QED BY <1>1, <2>2, <3>1
  <2> QED BY <1>1, <2>1, <2>2
<1>3. \A k : Twin(rs, k) => Twin(t, k) BY <1>1 DEF Twin
<1>4. \A k : e.promo # k => Own(t, k) = Own(rs, k) BY <1>1 DEF Own
<1>5. \A k : e.promo = k => Own(t, k) = Own(rs, k) \cup {h} BY <1>1 DEF Own
<1>6. \A n \in DOMAIN rs : StruckIn(t, n) <=> StruckIn(rs, n) \/ e.target = rs[n].rid
  BY <1>1 DEF StruckIn
<1>7. Grown(rs, e, t) BY <1>1, <1>2, <1>3, <1>4, <1>5, <1>6 DEF h, Grown
<1> QED BY <1>7 DEF t

\* The memory never stands with fewer entries: a marker takes at most one away, and
\* stands itself, or bears a retired number and lets the entry that bore it before
\* stand again.
LEMMA KeptGrows ==
  ASSUME NEW known, NEW rs \in Seq(Rule(known)), NEW e \in Rule(known), Borne(rs), Names(rs, e),
         NEW t \in Seq(Rule(known)), t = Append(rs, e)
  PROVE  Cardinality(Kept(rs)) <= Cardinality(Kept(t))
<1> DEFINE h == Len(rs) + 1
           Last(n) == \A k \in DOMAIN rs : rs[k].rid = rs[n].rid => k <= n
<1>1. /\ DOMAIN t = DOMAIN rs \cup {h} /\ h \notin DOMAIN rs
      /\ t[h] = e /\ \A n \in DOMAIN rs : t[n] = rs[n]
      /\ \A n \in DOMAIN rs : StruckIn(t, n) <=> StruckIn(rs, n) \/ e.target = rs[n].rid
  BY RuleAppended DEF Grown
<1>2. /\ IsFiniteSet(Kept(rs)) /\ IsFiniteSet(Kept(t))
      /\ Len(rs) \in Nat /\ DOMAIN rs = 1..Len(rs)
      /\ \A n \in DOMAIN rs : n \in Nat /\ rs[n].rid # 0
  BY Entries
<1>3. h \in Nat /\ \A n \in DOMAIN rs : n < h BY <1>2
<1> HIDE DEF h
<1>4. \A n \in DOMAIN rs : n \in Dropped(rs) <=> StruckIn(rs, n) /\ Last(n) BY DEF Dropped
<1>5. \A n \in DOMAIN rs : n \in Dropped(t) => StruckIn(t, n) /\ Last(n) /\ rs[n].rid # e.rid
  <2> SUFFICES ASSUME NEW n \in DOMAIN rs, n \in Dropped(t)
               PROVE  StruckIn(t, n) /\ Last(n) /\ rs[n].rid # e.rid
    OBVIOUS
  <2>1. StruckIn(t, n) /\ \A k \in DOMAIN t : t[k].rid = t[n].rid => k <= n BY DEF Dropped
  <2>2. Last(n) BY <1>1, <2>1
  <2>3. rs[n].rid # e.rid
    <3> SUFFICES ASSUME rs[n].rid = e.rid PROVE FALSE OBVIOUS
    <3>1. h <= n BY <1>1, <2>1
    <3> QED BY <1>2, <1>3, <3>1
  <2> QED BY <2>1, <2>2, <2>3
<1>6. CASE Kept(rs) \subseteq Kept(t) BY <1>2, <1>6, FS_Subset
<1>7. CASE ~(Kept(rs) \subseteq Kept(t))
  <2>1. PICK x \in Kept(rs) : x \notin Kept(t) BY <1>7
  <2>2. x \in DOMAIN rs /\ x \in Dropped(t) /\ x \notin Dropped(rs) BY <1>1, <2>1 DEF Kept
  <2>3. Last(x) /\ rs[x].rid # e.rid /\ e.target = rs[x].rid BY <1>1, <1>4, <1>5, <2>2
  <2>4. ASSUME NEW n \in Kept(rs), n # x PROVE n \in Kept(t)
    <3> SUFFICES ASSUME n \notin Kept(t) PROVE FALSE OBVIOUS
    <3>1. n \in DOMAIN rs /\ n \in Dropped(t) /\ n \notin Dropped(rs) BY <1>1 DEF Kept
    <3>2. Last(n) /\ e.target = rs[n].rid BY <1>1, <1>4, <1>5, <3>1
    <3>3. n <= x /\ x <= n BY <2>2, <2>3, <3>1, <3>2
    <3> QED BY <1>2, <2>2, <2>4, <3>1, <3>3
  <2>5. CASE h \in Kept(t)
    <3>1. h \notin Kept(rs) BY <1>1 DEF Kept
    <3>2. (Kept(rs) \ {x}) \cup {h} \subseteq Kept(t) BY <2>4, <2>5
    <3> QED BY <1>2, <3>1, <3>2, Exchanged
  <2>6. CASE h \notin Kept(t)
    <3>1. StruckIn(t, h) BY <1>1, <2>6 DEF Kept, Dropped
    <3>2. PICK m \in DOMAIN t : t[m].target = e.rid BY <1>1, <3>1 DEF StruckIn
    <3>3. m # h BY <1>1, <2>3, <3>2
    <3>4. m \in DOMAIN rs /\ rs[m].target = e.rid BY <1>1, <3>2, <3>3
    <3>5. e.rid # 0 BY DEF Rule
    <3> DEFINE B == {n \in DOMAIN rs : rs[n].rid = e.rid}
    <3>6. B # {} BY <3>4, <3>5 DEF Borne
    <3>7. B \in SUBSET (0..Len(rs)) BY <1>2
    <3>8. PICK b \in B : \A n \in B : n <= b
      <4> HIDE DEF B
      <4> QED BY <1>2, <3>6, <3>7, LargestNumber
    <3>9. b \in DOMAIN rs /\ rs[b].rid = e.rid /\ Last(b) BY <3>8
    <3>10. StruckIn(rs, b) BY <3>4, <3>9 DEF StruckIn
    <3>11. b \notin Kept(rs) BY <1>4, <3>9, <3>10 DEF Kept
    <3>12. b \in Kept(t) BY <1>1, <1>5, <3>9 DEF Kept
    <3>13. (Kept(rs) \ {x}) \cup {b} \subseteq Kept(t) BY <2>4, <3>12
    <3> QED BY <1>2, <3>11, <3>13, Exchanged
  <2> QED BY <2>5, <2>6
<1> QED BY <1>6, <1>7

\* Of a promotion that no step of a request touches nothing changes, and the entries
\* that stand never become fewer.
LEMMA WorkKept ==
  ASSUME NEW rs, NEW ss, NEW k, Own(ss, k) = Own(rs, k),
         \A n \in Own(rs, k) : StruckIn(ss, n) <=> StruckIn(rs, n),
         Cardinality(Kept(rs)) \in Nat, Cardinality(Kept(ss)) \in Nat,
         Cardinality(Kept(rs)) <= Cardinality(Kept(ss)), NEW state, NEW r
  PROVE  /\ Resting(rs, k, state) => Resting(ss, k, state)
         /\ Working(rs, k, state, r) => Working(ss, k, state, r)
<1>1. Window \in Nat BY ReviewAssumption
<1>2. Gone(rs, k) => Gone(ss, k) BY <1>1 DEF Gone
<1>3. Single(rs, k) => Single(ss, k)
  <2> SUFFICES ASSUME NEW n, Own(rs, k) = {n}, ~StruckIn(rs, n) PROVE Single(ss, k) BY DEF Single
  <2>1. n \in DOMAIN ss /\ ~StruckIn(ss, n) BY DEF Own
  <2> QED BY <2>1 DEF Single
<1>4. Own(rs, k) = {} => Own(ss, k) = {} OBVIOUS
<1> QED BY <1>2, <1>3, <1>4 DEF Resting, Working

\* A step of a request that is not about the promotion.
LEMMA OthersKept ==
  ASSUME NEW k, NEW p \in Processes, PromotionOK(rules, promo[k].state, req, k),
         promo'[k].state = promo[k].state, \A q \in Processes \ {p} : req'[q] = req[q],
         \A state : \A r : /\ Resting(rules, k, state) => Resting(rules', k, state)
                           /\ Working(rules, k, state, r) => Working(rules', k, state, r),
         ~(req[p].op \in Settling /\ req[p].promo = k),
         ~(req'[p].op \in Settling /\ req'[p].promo = k)
  PROVE  PromotionOK(rules', promo'[k].state, req', k)
BY DEF PromotionOK

\* A step of the request that is.
LEMMA WorkerMoves ==
  ASSUME NEW k, NEW p \in Processes, PromotionOK(rules, promo[k].state, req, k),
         req[p].op \in Settling, req[p].promo = k,
         \A q \in Processes \ {p} : req'[q] = req[q],
         IF req'[p].op \in Settling
         THEN req'[p].promo = k /\ Working(rules', k, promo'[k].state, req'[p])
         ELSE Resting(rules', k, promo'[k].state)
  PROVE  PromotionOK(rules', promo'[k].state, req', k)
BY DEF PromotionOK

\* A step that changes neither the rules nor the promotions, and no request for one.
LEMMA RulesUntouched ==
  ASSUME RulesInv, NEW p \in Processes, UNCHANGED <<rules, promo>>, torn \subseteq torn',
         \A q \in Processes \ {p} : req'[q] = req[q],
         req[p].op \notin Settling, req'[p].op \notin Settling
  PROVE  RulesInv'
<1> SUFFICES ASSUME NEW k \in DOMAIN promo \ torn', ~Twin(rules, k)
             PROVE  PromotionOK(rules', promo'[k].state, req', k)
  BY DEF RulesInv
<1>1. PromotionOK(rules, promo[k].state, req, k) BY DEF RulesInv
<1> QED BY <1>1, OthersKept

\* A decision begins on a promotion nobody works on, or marks it.
LEMMA RulesSettle ==
  ASSUME ReviewInv, RulesInv, NEW p \in Processes, NEW who \in Accounts, NEW k \in DOMAIN promo,
         NEW op \in Settling, Settle(p, who, op, k)
  PROVE  RulesInv'
<1>1. /\ UNCHANGED <<promo, rules>> /\ torn \subseteq torn' /\ req[p].op = "none"
      /\ req'[p].op = op /\ req'[p].promo = k /\ req'[p].at = "orgappend"
      /\ \A q \in Processes \ {p} : req'[q] = req[q]
  BY Typed DEF Settle, Begin, Idle, NoRequest
<1>2. promo[k].state = IF op = "undo" THEN "approved" ELSE "requested"
  BY DEF Settle, MaySettle, Settling
<1>3. k \notin torn' => \A q \in Processes \ {p} : ~(req[q].op \in Settling /\ req[q].promo = k)
  BY DEF Settle, OrgOutcome, Settling
<1>4. ASSUME NEW j \in DOMAIN promo \ torn', ~Twin(rules, j)
      PROVE  PromotionOK(rules', promo'[j].state, req', j)
  <2>1. PromotionOK(rules, promo[j].state, req, j) BY <1>1, <1>4 DEF RulesInv
  <2>2. CASE j # k BY <1>1, <2>1, <2>2, OthersKept DEF Settling
  <2>3. CASE j = k
    <3>1. \A q \in Processes : ~(req[q].op \in Settling /\ req[q].promo = k)
      BY <1>1, <1>3, <2>3 DEF Settling
    <3>2. Resting(rules, k, promo[k].state) BY <2>1, <2>3, <3>1 DEF PromotionOK
    <3>3. Working(rules', k, promo'[k].state, req'[p]) BY <1>1, <1>2, <3>2 DEF Working
    <3>4. \A q \in Processes : req'[q].op \in Settling /\ req'[q].promo = k => q = p
      BY <1>1, <3>1
    <3> QED BY <1>1, <2>3, <3>3, <3>4 DEF PromotionOK
  <2> QED BY <2>2, <2>3
<1> QED BY <1>1, <1>4 DEF RulesInv

\* A step on the way to a decision that leaves the memory as it is.
LEMMA RulesMoved ==
  ASSUME RulesInv, NEW p \in Processes, req[p].op \in Settling,
         UNCHANGED <<promo, rules, torn>>,
         req'[p].op = req[p].op, req'[p].promo = req[p].promo,
         \A q \in Processes \ {p} : req'[q] = req[q],
         \A k : Working(rules, k, promo[k].state, req[p]) =>
                  Working(rules, k, promo[k].state, req'[p])
  PROVE  RulesInv'
<1> SUFFICES ASSUME NEW j \in DOMAIN promo \ torn, ~Twin(rules, j)
             PROVE  PromotionOK(rules', promo'[j].state, req', j)
  BY DEF RulesInv
<1>1. PromotionOK(rules, promo[j].state, req, j) BY DEF RulesInv
<1>2. CASE j # req[p].promo BY <1>1, <1>2, OthersKept
<1>3. CASE j = req[p].promo
  <2>1. Working(rules, j, promo[j].state, req'[p]) BY <1>1, <1>3 DEF PromotionOK
  <2> QED BY <1>1, <1>3, <2>1, WorkerMoves
<1> QED BY <1>2, <1>3

\* The ledger's record of a decision changes no rule.
LEMMA RulesOrgAppend ==
  ASSUME ReviewInv, RulesInv, NEW p \in Processes, OrgAppend(p)
  PROVE  RulesInv'
<1> DEFINE place == CASE req[p].op = "settle_yes" -> "rule" [] req[p].op = "settle_no" -> "update"
                      [] req[p].op = "undo" -> "retire"
<1>1. req[p].op \in Settling /\ req[p].at = "orgappend" /\ req[p] \in Request
  BY Typed DEF ReviewInv, RequestsOK, Formed, OrgAppend
<1>2. /\ UNCHANGED <<promo, rules, torn>> /\ req' = [req EXCEPT ![p].at = place]
  BY DEF OrgAppend, Move, Unlogged
<1>3. /\ req'[p].op = req[p].op /\ req'[p].promo = req[p].promo /\ req'[p].at = place
      /\ \A q \in Processes \ {p} : req'[q] = req[q]
  <2> HIDE DEF place
  <2> QED BY <1>1, <1>2, Typed DEF Request
<1>4. place = IF req[p].op = "settle_yes" THEN "rule"
              ELSE IF req[p].op = "undo" THEN "retire" ELSE "update"
  BY <1>1 DEF Settling
<1> HIDE DEF place
<1>5. ASSUME NEW k, Working(rules, k, promo[k].state, req[p])
      PROVE  Working(rules, k, promo[k].state, req'[p])
  BY <1>1, <1>3, <1>4, <1>5 DEF Working, Resting, Settling
<1> QED BY <1>1, <1>2, <1>3, <1>5, RulesMoved

\* Loading the memory changes none either.
LEMMA RulesLoad ==
  ASSUME ReviewInv, RulesInv, NEW p \in Processes, LoadRules(p)
  PROVE  RulesInv'
<1>1. /\ req[p].op = "settle_yes" /\ req[p].at = "rule" /\ UNCHANGED <<promo, rules, torn>>
      /\ req' = [req EXCEPT ![p].at = "record", ![p].view = DOMAIN rules]
  BY DEF LoadRules, At, Unlogged
<1>2. /\ req'[p].op = req[p].op /\ req'[p].promo = req[p].promo /\ req'[p].at = "record"
      /\ \A q \in Processes \ {p} : req'[q] = req[q]
  BY <1>1, Typed DEF Request
<1>3. ASSUME NEW k, Working(rules, k, promo[k].state, req[p])
      PROVE  Working(rules, k, promo[k].state, req'[p])
  BY <1>1, <1>2, <1>3 DEF Working
<1> QED BY <1>1, <1>2, <1>3, RulesMoved DEF Settling

\* The approval of a promotion adds its one rule; if no other entry bears the rule's
\* number, no marker names it.
LEMMA RulesAddRule ==
  ASSUME ReviewInv, RulesInv, NEW p \in Processes, AddRule(p)
  PROVE  RulesInv'
<1> DEFINE k == req[p].promo
           e == Numbered(req[p].view, req[p].promo, 0)
           h == Len(rules) + 1
<1>1. /\ req[p].op = "settle_yes" /\ req[p].at = "record" /\ k \in DOMAIN promo
      /\ req[p] \in Request /\ rules \in Seq(Rule(DOMAIN promo))
      /\ rules' = Append(rules, e)
      /\ req' = [req EXCEPT ![p].at = "update"] /\ UNCHANGED <<promo, torn>>
  BY Typed, AddRuleKeeps DEF AddRule, At, Move, Unlogged
<1>2. e \in Rule(DOMAIN promo) /\ e.promo = k /\ e.target = 0 BY AddRuleKeeps
<1>3. /\ req'[p].op = "settle_yes" /\ req'[p].promo = k /\ req'[p].at = "update"
      /\ \A q \in Processes \ {p} : req'[q] = req[q]
  BY <1>1, Typed DEF Request
<1> HIDE DEF e, k
<1>4. rules' \in Seq(Rule(DOMAIN promo)) BY <1>1, <1>2
<1>5. Borne(rules) BY DEF RulesInv
<1>6. /\ DOMAIN rules' = DOMAIN rules \cup {h} /\ h \notin DOMAIN rules
      /\ rules'[h] = e /\ \A n \in DOMAIN rules : rules'[n] = rules[n]
      /\ Borne(rules')
      /\ \A j : Twin(rules, j) => Twin(rules', j)
      /\ \A j : e.promo # j => Own(rules', j) = Own(rules, j)
      /\ \A j : e.promo = j => Own(rules', j) = Own(rules, j) \cup {h}
      /\ \A n \in DOMAIN rules :
           StruckIn(rules', n) <=> StruckIn(rules, n) \/ e.target = rules[n].rid
  <2>1. Names(rules, e) BY <1>2 DEF Names
  <2>2. Grown(rules, e, rules') BY <1>1, <1>2, <1>5, <2>1, RuleAppended
  <2> QED BY <2>2 DEF Grown
<1>7. /\ Cardinality(Kept(rules)) <= Cardinality(Kept(rules'))
      /\ Cardinality(Kept(rules)) \in Nat /\ Cardinality(Kept(rules')) \in Nat
  BY <1>1, <1>2, <1>4, <1>5, KeptGrows, Entries DEF Names
<1>8. \A n \in DOMAIN rules : rules[n].rid # 0 BY <1>1, Entries
<1> HIDE DEF h
<1>9. ASSUME NEW j \in DOMAIN promo \ torn, ~Twin(rules', j)
      PROVE  PromotionOK(rules', promo'[j].state, req', j)
  <2>1. PromotionOK(rules, promo[j].state, req, j) BY <1>6, <1>9 DEF RulesInv
  <2>2. CASE j # k
    <3>1. Own(rules', j) = Own(rules, j) BY <1>2, <1>6, <2>2
    <3>2. \A n \in Own(rules, j) : StruckIn(rules', n) <=> StruckIn(rules, n)
      BY <1>2, <1>6, <1>8 DEF Own
    <3>3. \A state : \A r : /\ Resting(rules, j, state) => Resting(rules', j, state)
                            /\ Working(rules, j, state, r) => Working(rules', j, state, r)
      BY <1>7, <3>1, <3>2, WorkKept
    <3> QED BY <1>1, <1>3, <2>1, <2>2, <3>3, OthersKept DEF k
  <2>3. CASE j = k
    <3>1. Working(rules, j, promo[j].state, req[p])
      BY <1>1, <2>1, <2>3 DEF PromotionOK, Settling, k
    <3>2. Own(rules, k) = {} BY <1>1, <2>3, <3>1 DEF Working, Resting
    <3>3. Own(rules', k) = {h} BY <1>2, <1>6, <3>2
    <3>4. ~StruckIn(rules', h)
      <4> SUFFICES ASSUME NEW m \in DOMAIN rules', rules'[m].target = e.rid PROVE FALSE
        BY <1>6 DEF StruckIn
      <4>1. e.rid # 0 BY <1>2 DEF Rule
      <4>2. m # h BY <1>2, <1>6, <4>1
      <4>3. m \in DOMAIN rules /\ rules[m].target = e.rid BY <1>6, <4>2
      <4>4. PICK n \in DOMAIN rules : rules[n].rid = e.rid BY <1>5, <4>1, <4>3 DEF Borne
      <4> QED BY <1>2, <1>6, <1>9, <2>3, <4>4 DEF Twin
    <3>5. Single(rules', k) BY <1>6, <3>3, <3>4 DEF Single
    <3>6. Working(rules', k, promo'[k].state, req'[p]) BY <1>3, <3>5 DEF Working
    <3> QED BY <1>1, <1>3, <2>1, <2>3, <3>6, WorkerMoves DEF k, Settling
  <2> QED BY <2>2, <2>3
<1> QED BY <1>1, <1>6, <1>9 DEF RulesInv

\* A rollback that finds no rule to retire is done: there is none, or more stands
\* than is looked through.
LEMMA RulesLookUp ==
  ASSUME ReviewInv, RulesInv, NEW p \in Processes, LookUp(p)
  PROVE  RulesInv'
<1> DEFINE k == req[p].promo
           found == Claims(k, DOMAIN rules)
<1>1. /\ req[p].op = "undo" /\ req[p].at = "retire" /\ k \in DOMAIN promo
      /\ req[p] \in Request /\ rules \in Seq(Rule(DOMAIN promo))
      /\ UNCHANGED <<promo, rules, torn>>
  BY Typed DEF LookUp, At, ReviewInv, RequestsOK, Formed, Settling, Unlogged
<1>2. IF Cardinality(found) > 1 THEN req' = [req EXCEPT ![p] = NoRequest]
      ELSE IF \A n \in found : Struck(n, DOMAIN rules) THEN req' = [req EXCEPT ![p].at = "update"]
      ELSE req' = [req EXCEPT ![p].at = "mark", ![p].view = DOMAIN rules]
  BY DEF LookUp, Move, End
<1>3. /\ IsFiniteSet(Kept(rules)) /\ Cardinality(Kept(rules)) \in Nat
      /\ \A n : Struck(n, DOMAIN rules) <=> StruckIn(rules, n)
      /\ Standing(DOMAIN rules) = Kept(rules)
  BY <1>1, Entries DEF Struck, StruckIn, Standing, Deleted, Kept, Dropped
<1>4. found \subseteq Own(rules, k) BY DEF Claims, Visible, Standing, Own
<1>5. \A q \in Processes \ {p} : req'[q] = req[q] BY <1>2, Typed
<1>6. CASE req' = [req EXCEPT ![p] = NoRequest]
  <2>1. Cardinality(found) > 1 \/ ~(req'[p] = NoRequest)
    BY <1>1, <1>2, Typed DEF NoRequest, Request
  <2> HIDE DEF k, found
  <2>2. req'[p] = NoRequest /\ NoRequest.op \notin Settling BY <1>6, Typed DEF NoRequest, Settling
  <2>3. ASSUME NEW j \in DOMAIN promo \ torn, ~Twin(rules, j)
        PROVE  PromotionOK(rules', promo'[j].state, req', j)
    <3>1. PromotionOK(rules, promo[j].state, req, j) BY <2>3 DEF RulesInv
    <3>2. CASE j # k BY <1>1, <1>5, <2>2, <3>1, <3>2, OthersKept DEF k
    <3>3. CASE j = k
      <4>1. Single(rules, k)
        BY <1>1, <3>1, <3>3 DEF PromotionOK, Working, Resting, Settling, k
      <4>2. PICK n : Own(rules, k) = {n} BY <4>1 DEF Single
      <4>3. IsFiniteSet({n}) /\ Cardinality({n}) = 1 BY FS_Singleton
      <4>4. Cardinality(found) <= 1 BY <1>4, <4>2, <4>3, FS_Subset
      <4>5. Cardinality(found) \in Nat BY <1>4, <4>2, <4>3, FS_Subset, FS_CardinalityType
      <4> QED BY <2>1, <2>2, <4>4, <4>5
    <3> QED BY <3>2, <3>3
  <2> QED BY <1>1, <2>3 DEF RulesInv
<1>7. CASE req' = [req EXCEPT ![p].at = "update"] /\ \A n \in found : Struck(n, DOMAIN rules)
  <2>1. req'[p].op = "undo" /\ req'[p].promo = k /\ req'[p].at = "update"
    BY <1>1, <1>7, Typed DEF Request
  <2>2. ASSUME Single(rules, k) PROVE Gone(rules, k)
    <3>1. PICK n \in DOMAIN rules : Own(rules, k) = {n} /\ ~StruckIn(rules, n)
      BY <2>2 DEF Single
    <3> DEFINE later == {m \in Standing(DOMAIN rules) : n <= m}
    <3>2. n \in Standing(DOMAIN rules) /\ rules[n].promo = k
      BY <1>3, <3>1 DEF Kept, Dropped, Own
    <3>3. n \notin found BY <1>3, <1>7, <3>1
    <3>4. ~(Cardinality(later) <= Window) BY <3>2, <3>3 DEF Claims, Visible
    <3>5. later \subseteq Kept(rules) BY <1>3
    <3>6. Cardinality(later) <= Cardinality(Kept(rules)) /\ Cardinality(later) \in Nat
      BY <1>3, <3>5, FS_Subset, FS_CardinalityType
    <3>7. Window \in Nat BY ReviewAssumption
    <3> HIDE DEF later
    <3> QED BY <1>3, <3>4, <3>6, <3>7 DEF Gone
  <2> HIDE DEF k, found
  <2>3. ASSUME NEW j \in DOMAIN promo \ torn, ~Twin(rules, j)
        PROVE  PromotionOK(rules', promo'[j].state, req', j)
    <3>1. PromotionOK(rules, promo[j].state, req, j) BY <2>3 DEF RulesInv
    <3>2. CASE j # k BY <1>1, <1>5, <2>1, <3>1, <3>2, OthersKept DEF k
    <3>3. CASE j = k
      <4>1. Single(rules, k)
        BY <1>1, <3>1, <3>3 DEF PromotionOK, Working, Resting, Settling, k
      <4>2. Working(rules', k, promo'[k].state, req'[p]) BY <1>1, <2>1, <2>2, <4>1 DEF Working
      <4> QED BY <1>1, <1>5, <2>1, <3>1, <3>3, <4>2, WorkerMoves DEF k, Settling
    <3> QED BY <3>2, <3>3
  <2> QED BY <1>1, <2>3 DEF RulesInv
<1>8. CASE req' = [req EXCEPT ![p].at = "mark", ![p].view = DOMAIN rules]
  <2>1. /\ req'[p].op = req[p].op /\ req'[p].promo = req[p].promo /\ req'[p].at = "mark"
    BY <1>1, <1>8, Typed DEF Request
  <2>2. ASSUME NEW j, Working(rules, j, promo[j].state, req[p])
        PROVE  Working(rules, j, promo[j].state, req'[p])
    BY <1>1, <2>1, <2>2 DEF Working
  <2> QED BY <1>1, <1>5, <2>1, <2>2, RulesMoved DEF Settling
<1> QED BY <1>2, <1>6, <1>7, <1>8

\* A rollback retires the rule of its own promotion, and that of another one only if
\* the two bear one number.
LEMMA RulesRetire ==
  ASSUME ReviewInv, RulesInv, NEW p \in Processes, Retire(p)
  PROVE  RulesInv'
<1> DEFINE k == req[p].promo
<1>1. /\ req[p].op = "undo" /\ req[p].at = "mark" /\ k \in DOMAIN promo
      /\ req[p] \in Request /\ rules \in Seq(Rule(DOMAIN promo)) /\ UNCHANGED <<promo, torn>>
      /\ req' = [req EXCEPT ![p].at = "update"]
  BY Typed, RetireKeeps DEF Retire, At, Move, Unlogged
<1>2. PICK c \in DOMAIN rules, e \in Rule(DOMAIN promo) :
        /\ rules[c].promo = k /\ e.promo = 0 /\ e.target = rules[c].rid
        /\ rules' = Append(rules, e)
  BY RetireKeeps
<1>3. /\ req'[p].op = "undo" /\ req'[p].promo = k /\ req'[p].at = "update"
      /\ \A q \in Processes \ {p} : req'[q] = req[q]
  BY <1>1, Typed DEF Request
<1> HIDE DEF k
<1>4. rules' \in Seq(Rule(DOMAIN promo)) BY <1>1, <1>2
<1>5. Borne(rules) BY DEF RulesInv
<1>6. /\ DOMAIN rules \subseteq DOMAIN rules' /\ Borne(rules')
      /\ \A j : Twin(rules, j) => Twin(rules', j)
      /\ \A j : e.promo # j => Own(rules', j) = Own(rules, j)
      /\ \A n \in DOMAIN rules :
           StruckIn(rules', n) <=> StruckIn(rules, n) \/ e.target = rules[n].rid
  BY <1>1, <1>2, <1>5, RuleAppended DEF Grown, Names
<1>7. /\ Cardinality(Kept(rules)) <= Cardinality(Kept(rules'))
      /\ Cardinality(Kept(rules)) \in Nat /\ Cardinality(Kept(rules')) \in Nat
  BY <1>1, <1>2, <1>4, <1>5, KeptGrows, Entries DEF Names
<1>8. 0 \notin DOMAIN promo
  <2>1. promo \in Seq(Promotion) BY Typed
  <2> QED BY <2>1
<1>9. ASSUME NEW j \in DOMAIN promo \ torn, ~Twin(rules', j)
      PROVE  PromotionOK(rules', promo'[j].state, req', j)
  <2>1. PromotionOK(rules, promo[j].state, req, j) /\ ~Twin(rules, j)
    BY <1>6, <1>9 DEF RulesInv
  <2>2. Own(rules', j) = Own(rules, j) BY <1>2, <1>6, <1>8
  <2>3. CASE j # k
    <3>1. \A n \in Own(rules, j) : rules[n].rid # rules[c].rid
      BY <1>2, <2>1, <2>3 DEF Own, Twin
    <3>2. \A n \in Own(rules, j) : StruckIn(rules', n) <=> StruckIn(rules, n)
      BY <1>2, <1>6, <3>1 DEF Own
    <3>3. \A state : \A r : /\ Resting(rules, j, state) => Resting(rules', j, state)
                            /\ Working(rules, j, state, r) => Working(rules', j, state, r)
      BY <1>7, <2>2, <3>2, WorkKept
    <3> QED BY <1>1, <1>3, <2>1, <2>3, <3>3, OthersKept DEF k
  <2>4. CASE j = k
    <3>1. Single(rules, k)
      BY <1>1, <2>1, <2>4 DEF PromotionOK, Working, Resting, Settling, k
    <3>2. Own(rules, k) = {c} BY <1>2, <3>1 DEF Single, Own
    <3>3. StruckIn(rules', c) BY <1>2, <1>6
    <3>4. Gone(rules', k) BY <2>2, <2>4, <3>2, <3>3 DEF Gone
    <3>5. Working(rules', k, promo'[k].state, req'[p]) BY <1>3, <3>4 DEF Working
    <3> QED BY <1>1, <1>3, <2>1, <2>4, <3>5, WorkerMoves DEF k, Settling
  <2> QED BY <2>3, <2>4
<1> QED BY <1>1, <1>6, <1>9 DEF RulesInv

\* The state of the promotion follows its rules.
LEMMA RulesUpdate ==
  ASSUME ReviewInv, RulesInv, NEW p \in Processes, UpdatePromotion(p)
  PROVE  RulesInv'
<1> DEFINE k == req[p].promo
<1>1. /\ req[p].op \in Settling /\ k \in DOMAIN promo /\ DOMAIN promo' = DOMAIN promo
      /\ promo'[k].state = OrgOutcome[req[p].op]
      /\ \A j \in DOMAIN promo \ {k} : promo'[j] = promo[j]
  BY UpdatePromotionKeeps
<1>2. /\ req[p].at = "update" /\ UNCHANGED <<rules, torn>>
      /\ req' = [req EXCEPT ![p] = NoRequest]
  BY DEF UpdatePromotion, End, Unlogged
<1>3. req'[p].op = "none" /\ \A q \in Processes \ {p} : req'[q] = req[q]
  BY <1>2, Typed DEF NoRequest
<1> HIDE DEF k
<1>4. ASSUME NEW j \in DOMAIN promo \ torn, ~Twin(rules, j)
      PROVE  PromotionOK(rules', promo'[j].state, req', j)
  <2>1. PromotionOK(rules, promo[j].state, req, j) BY <1>4 DEF RulesInv
  <2>2. CASE j # k BY <1>1, <1>2, <1>3, <2>1, <2>2, OthersKept DEF k, Settling
  <2>3. CASE j = k
    <3>1. Working(rules, j, promo[j].state, req[p]) BY <1>1, <2>1, <2>3 DEF PromotionOK, k
    <3>2. Resting(rules', k, promo'[k].state)
      BY <1>1, <1>2, <2>3, <3>1 DEF Working, Resting, Settling, OrgOutcome
    <3> QED BY <1>1, <1>3, <2>1, <2>3, <3>2, WorkerMoves DEF k, Settling
  <2> QED BY <2>2, <2>3
<1> QED BY <1>1, <1>2, <1>4 DEF RulesInv

\* A new promotion has no rule.
LEMMA RulesInsert ==
  ASSUME ReviewInv, RulesInv, NEW p \in Processes, InsertPromotion(p)
  PROVE  RulesInv'
<1> DEFINE n == Len(promo) + 1
<1>1. /\ DOMAIN promo' = 1..n /\ DOMAIN promo = 1..Len(promo) /\ Len(promo) \in Nat
      /\ promo'[n].state = "requested" /\ \A k \in DOMAIN promo : promo'[k] = promo[k]
  BY InsertPromotionKeeps
<1>2. /\ req[p].op = "promote" /\ UNCHANGED <<rules, torn>>
      /\ req' = [req EXCEPT ![p] = NoRequest]
  BY DEF InsertPromotion, At, End, Unlogged
<1>3. req'[p].op = "none" /\ \A q \in Processes \ {p} : req'[q] = req[q]
  BY <1>2, Typed DEF NoRequest
<1>4. ASSUME NEW j \in DOMAIN promo' \ torn, ~Twin(rules, j)
      PROVE  PromotionOK(rules', promo'[j].state, req', j)
  <2>1. CASE j \in DOMAIN promo
    <3>1. PromotionOK(rules, promo[j].state, req, j) BY <1>4, <2>1 DEF RulesInv
    <3> QED BY <1>1, <1>2, <1>3, <2>1, <3>1, OthersKept DEF Settling
  <2>2. CASE j \notin DOMAIN promo
    <3>1. j = n BY <1>1, <2>2
    <3>2. \A q \in Processes : ~(req'[q].op \in Settling /\ req'[q].promo = j)
      <4>1. \A q \in Processes : req[q].op \in Settling => req[q].promo \in DOMAIN promo
        BY DEF ReviewInv, RequestsOK, Formed
      <4> QED BY <1>3, <2>2, <4>1 DEF Settling
    <3>3. Own(rules, j) = {}
      <4>1. \A m \in DOMAIN rules : rules[m] \in Rule(DOMAIN promo) BY Typed
      <4>2. \A m \in DOMAIN rules : rules[m].promo \in {0} \cup DOMAIN promo BY <4>1 DEF Rule
      <4>3. j # 0 BY <1>1, <3>1
      <4> QED BY <2>2, <4>2, <4>3 DEF Own
    <3>4. Resting(rules', j, promo'[j].state) BY <1>1, <1>2, <3>1, <3>3 DEF Resting
    <3> QED BY <3>2, <3>4 DEF PromotionOK
  <2> QED BY <2>1, <2>2
<1> QED BY <1>2, <1>4 DEF RulesInv

\* A request cut off before the ledger has its decision changed nothing; later it
\* leaves the promotion marked.
LEMMA RulesCrash ==
  ASSUME ReviewInv, RulesInv, NEW p \in Processes, Crash(p)
  PROVE  RulesInv'
<1> DEFINE k == req[p].promo
<1>1. /\ UNCHANGED <<promo, rules>> /\ torn \subseteq torn'
      /\ req[p].at \in {"rule", "record", "retire", "mark", "update"} => k \in torn'
      /\ req' = [req EXCEPT ![p] = NoRequest]
  BY DEF Crash, End
<1>2. req'[p].op = "none" /\ \A q \in Processes \ {p} : req'[q] = req[q]
  BY <1>1, Typed DEF NoRequest
<1>3. req[p].op \in Settling =>
        req[p].at \in {"orgappend", "rule", "record", "retire", "mark", "update"}
  BY DEF ReviewInv, RequestsOK, Formed
<1> HIDE DEF k
<1>4. ASSUME NEW j \in DOMAIN promo \ torn', ~Twin(rules, j)
      PROVE  PromotionOK(rules', promo'[j].state, req', j)
  <2>1. PromotionOK(rules, promo[j].state, req, j) BY <1>1, <1>4 DEF RulesInv
  <2>2. CASE ~(req[p].op \in Settling /\ j = k)
    BY <1>1, <1>2, <2>1, <2>2, OthersKept DEF k, Settling
  <2>3. CASE req[p].op \in Settling /\ j = k
    <3>1. req[p].at = "orgappend" BY <1>1, <1>3, <2>3
    <3>2. Working(rules, j, promo[j].state, req[p]) BY <2>1, <2>3 DEF PromotionOK, k
    <3>3. Resting(rules', j, promo'[j].state) BY <1>1, <3>1, <3>2 DEF Working
    <3> QED BY <1>2, <2>1, <2>3, <3>3, WorkerMoves DEF k, Settling
  <2> QED BY <2>2, <2>3
<1> QED BY <1>1, <1>4 DEF RulesInv

\* Every step keeps the rules of every promotion that is not marked.
LEMMA RulesStep == ReviewInv /\ RulesInv /\ [Next]_vars => RulesInv'
<1> SUFFICES ASSUME ReviewInv, RulesInv, [Next]_vars PROVE RulesInv' OBVIOUS
<1>1. CASE UNCHANGED vars
  <2>1. rules' = rules /\ promo' = promo /\ torn' = torn /\ req' = req BY <1>1 DEF vars
  <2> QED BY <2>1 DEF RulesInv
<1>2. CASE Next
  <2>1. PICK p \in Processes :
          \/ \E who \in Accounts :
               \/ Propose(p, who) \/ Rebuild(p, who)
               \/ \E i \in Ids, op \in {"evaluate", "approve", "reject", "rollback", "promote"} :
                    Open(p, who, op, i)
               \/ \E k \in DOMAIN promo, op \in {"settle_yes", "settle_no", "undo"} :
                    Settle(p, who, op, k)
          \/ \E state \in States : AppendVersion(p, state)
          \/ Sync(p) \/ ListLedger(p) \/ Replay(p) \/ LoadOrg(p) \/ OrgPropose(p)
          \/ \E state \in {"evaluated", "evaluated_failed"} : OrgEvaluate(p, state)
          \/ InsertPromotion(p) \/ OrgAppend(p) \/ UpdatePromotion(p)
          \/ LoadRules(p) \/ AddRule(p) \/ LookUp(p) \/ Retire(p)
          \/ Crash(p)
    BY <1>2 DEF Next
  <2>2. /\ req \in [Processes -> Request] /\ req[p] \in Request
        /\ Formed(req[p], DOMAIN promo, Len(rules))
    BY Typed DEF ReviewInv, RequestsOK
  <2>3. CASE \E who \in Accounts :
               \/ Propose(p, who) \/ Rebuild(p, who)
               \/ \E i \in Ids, op \in {"evaluate", "approve", "reject", "rollback", "promote"} :
                    Open(p, who, op, i)
    <3>1. UNCHANGED <<rules, promo, torn>> /\ req[p].op = "none"
      BY <2>3 DEF Propose, Rebuild, Open, Begin, Idle, Unlogged
    <3>2. \E r : r.op \notin Settling /\ req' = [req EXCEPT ![p] = r]
      <4>1. CASE \E who \in Accounts : Propose(p, who) \/ Rebuild(p, who)
        BY <4>1 DEF Propose, Rebuild, Begin, NoRequest, Settling
      <4>2. CASE \E who \in Accounts :
                   \E i \in Ids, op \in {"evaluate", "approve", "reject", "rollback", "promote"} :
                     Open(p, who, op, i)
        <5>1. PICK who \in Accounts, i \in Ids,
                   op \in {"evaluate", "approve", "reject", "rollback", "promote"} :
                Open(p, who, op, i)
          BY <4>2
        <5> DEFINE r == [NoRequest EXCEPT
                          !.op = op, !.at = IF op = "promote" THEN "load" ELSE "append",
                          !.who = who, !.owner = row[i].owner, !.id = i,
                          !.view = Whole(row[i].owner)]
        <5>2. req' = [req EXCEPT ![p] = r] BY <5>1 DEF Open, Begin
        <5>3. r.op = op BY DEF NoRequest
        <5> HIDE DEF r
        <5> QED BY <5>2, <5>3 DEF Settling
      <4> QED BY <2>3, <4>1, <4>2
    <3>3. req'[p].op \notin Settling /\ \A q \in Processes \ {p} : req'[q] = req[q]
      BY <2>2, <3>2
    <3> QED BY <3>1, <3>3, RulesUntouched DEF Settling
  <2>4. CASE \E who \in Accounts :
               \E k \in DOMAIN promo, op \in {"settle_yes", "settle_no", "undo"} :
                 Settle(p, who, op, k)
    BY <2>4, RulesSettle DEF Settling
  <2>5. CASE \/ \E state \in States : AppendVersion(p, state)
             \/ Sync(p) \/ ListLedger(p) \/ Replay(p) \/ LoadOrg(p) \/ OrgPropose(p)
             \/ \E state \in {"evaluated", "evaluated_failed"} : OrgEvaluate(p, state)
    <3>1. UNCHANGED <<rules, promo, torn>>
      BY <2>5 DEF AppendVersion, Sync, ListLedger, Replay, LoadOrg, OrgPropose, OrgEvaluate,
                  Unlogged
    <3>2. req[p].at \in {"append", "sync", "list", "replay", "load", "orgpropose", "orgevaluate"}
      BY <2>5 DEF AppendVersion, Sync, ListLedger, Replay, LoadOrg, OrgPropose, OrgEvaluate, At
    <3>3. req[p].op \notin Settling BY <2>2, <3>2 DEF Formed
    <3>4. req'[p].op \in {req[p].op, "none"} /\ \A q \in Processes \ {p} : req'[q] = req[q]
      BY <2>2, <2>5
      DEF AppendVersion, Sync, ListLedger, Replay, LoadOrg, OrgPropose, OrgEvaluate, Move, End,
          NoRequest, Request
    <3> QED BY <3>1, <3>3, <3>4, RulesUntouched DEF Settling
  <2>6. CASE InsertPromotion(p) \/ OrgAppend(p) BY <2>6, RulesInsert, RulesOrgAppend
  <2>7. CASE LoadRules(p) \/ AddRule(p) BY <2>7, RulesLoad, RulesAddRule
  <2>9. CASE LookUp(p) \/ Retire(p) BY <2>9, RulesLookUp, RulesRetire
  <2>8. CASE UpdatePromotion(p) \/ Crash(p) BY <2>8, RulesUpdate, RulesCrash
  <2> QED BY <2>1, <2>3, <2>4, <2>5, <2>6, <2>7, <2>8, <2>9
<1> QED BY <1>1, <1>2

\* Between requests a promotion that stands approved has one rule and any other has
\* none, with the exceptions the property names.
THEOREM RulesStandBetween == Spec => []RulesStand
<1>1. Init => RulesInv
  <2> SUFFICES ASSUME Init PROVE RulesInv OBVIOUS
  <2>1. DOMAIN promo = {} /\ DOMAIN rules = {} BY DEF Init
  <2> QED BY <2>1 DEF RulesInv, Borne
<1>2. ReviewInv /\ RulesInv /\ [Next]_vars => RulesInv' BY RulesStep
<1>3. ReviewInv /\ RulesInv => RulesStand
  <2> SUFFICES ASSUME ReviewInv, RulesInv, Quiet, NEW k \in DOMAIN promo \ torn, ~SharedRule(k)
               PROVE  LET standing == Standing(DOMAIN rules)
                          own == {n \in standing : rules[n].promo = k}
                      IN \/ promo[k].state = "approved" /\ Cardinality(own) = 1
                         \/ promo[k].state # "approved" /\ own = {}
                         \/ promo[k].state = "rolled_back" /\ Cardinality(standing) > Window
    BY DEF RulesStand
  <2> DEFINE own == {n \in Kept(rules) : rules[n].promo = k}
  <2>1. Standing(DOMAIN rules) = Kept(rules)
    BY DEF Standing, Deleted, Struck, Kept, Dropped, StruckIn
  <2>2. \A q \in Processes : ~(req[q].op \in Settling /\ req[q].promo = k)
    BY DEF Quiet, Idle, Settling
  <2>3. Resting(rules, k, promo[k].state) BY <2>2 DEF RulesInv, PromotionOK, SharedRule, Twin
  <2>4. own \subseteq Own(rules, k) BY DEF Own, Kept
  <2>5. CASE promo[k].state = "approved"
    <3>1. PICK n \in DOMAIN rules : Own(rules, k) = {n} /\ ~StruckIn(rules, n)
      BY <2>3, <2>5 DEF Resting, Single
    <3>2. own = {n} BY <2>4, <3>1 DEF Kept, Dropped, Own
    <3>3. Cardinality({n}) = 1 BY FS_Singleton
    <3> QED BY <2>1, <2>5, <3>2, <3>3
  <2>6. CASE promo[k].state = "rolled_back"
    <3>1. CASE Cardinality(Kept(rules)) > Window BY <2>1, <2>6, <3>1
    <3>2. CASE \A n \in Own(rules, k) : StruckIn(rules, n)
      <4>1. own = {}
        <5> SUFFICES ASSUME NEW n \in own PROVE FALSE OBVIOUS
        <5>1. n \in DOMAIN rules /\ rules[n].promo = k /\ StruckIn(rules, n)
          BY <2>4, <3>2 DEF Kept
        <5>2. PICK m \in DOMAIN rules : rules[m].rid = rules[n].rid /\ ~(m <= n)
          BY <5>1 DEF Kept, Dropped
        <5>3. m # n
          <6>1. rules \in Seq(Rule(DOMAIN promo)) BY Typed
          <6>2. n \in Nat BY <5>1, <6>1
          <6> QED BY <5>2, <6>2
        <5> QED BY <5>1, <5>2, <5>3 DEF SharedRule
      <4> QED BY <2>1, <2>6, <4>1
    <3> QED BY <2>3, <2>6, <3>1, <3>2 DEF Resting, Gone
  <2>7. CASE promo[k].state \notin {"approved", "rolled_back"}
    BY <2>1, <2>3, <2>4, <2>7 DEF Resting
  <2> QED BY <2>5, <2>6, <2>7
<1> QED BY <1>1, <1>2, <1>3, ReviewHolds, PTL DEF Spec
===============================================================================
