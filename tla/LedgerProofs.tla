---------------------------- MODULE LedgerProofs ----------------------------
(***************************************************************************)
(* The money side of the test services, for every number of handlers,      *)
(* orders, keys, faults and calls: the balance of an order, the refund a    *)
(* reply names, and the refinement of the abstract payment ledger.         *)
(***************************************************************************)
EXTENDS AnyAgentProofs, WellFoundedInduction

(***************************************************************************)
(* Sums of amounts.  Reserved is the library's fold over a set of rows; what *)
(* follows derives from its definition that it is a natural number, that any *)
(* row may be taken out of it, and that fewer rows never sum to more.  Each  *)
(* fact is shown by looking at a smallest set that would break it.          *)
(***************************************************************************)

\* A set of natural numbers has a least one.
LEMMA LeastElement ==
  ASSUME NEW T, T \subseteq Nat, T # {}
  PROVE  \E n \in T : \A m \in T : n <= m
<1>1. PICK n \in T : \A m \in T : ~ (<<m, n>> \in OpToRel(<,Nat))
  BY WFMin, NatLessThanWellFounded
<1>2. \A m, k \in Nat : m < k => <<m, k>> \in OpToRel(<,Nat)
  BY DEF OpToRel
<1>3. ASSUME NEW m \in T PROVE n <= m
  <2>1. ~ (m < n)
    BY <1>1, <1>2
  <2> QED BY <2>1
<1> QED BY <1>3

\* A set with a member but no smallest finite one does not exist.
LEMMA SmallestFinite ==
  ASSUME NEW U, \A s \in U : IsFiniteSet(s), U # {}
  PROVE  \E s \in U : \A t \in U : Cardinality(s) <= Cardinality(t)
<1> DEFINE sizes == {Cardinality(s) : s \in U}
<1>1. sizes \subseteq Nat /\ sizes # {}
  BY FS_CardinalityType
<1>2. PICK n \in sizes : \A m \in sizes : n <= m
  BY <1>1, LeastElement
<1> QED BY <1>2

\* Taking a member out of a finite set leaves a smaller one.
LEMMA Smaller ==
  ASSUME NEW s, IsFiniteSet(s), NEW x \in s
  PROVE  /\ IsFiniteSet(s \ {x}) 
         /\ ~ (Cardinality(s) <= Cardinality(s \ {x}))
<1>1. /\ IsFiniteSet(s \ {x}) /\ Cardinality(s \ {x}) = Cardinality(s) - 1
      /\ Cardinality(s) \in Nat
  BY FS_RemoveElement, FS_CardinalityType
<1> QED BY <1>1

Pick(s) == CHOOSE x \in s : TRUE

LEMMA PickIn == \A s : s # {} => Pick(s) \in s
BY DEF Pick

\* g sums the amounts of every set of rows in P.
Sums(g, rows, P) ==
  g = [s \in P |-> IF s = {} THEN 0 ELSE rows[Pick(s)].amount + g[s \ {Pick(s)}]]
SumsParts(g, rows, S) == Sums(g, rows, SUBSET S)
Total(rows, S) == (CHOOSE g : SumsParts(g, rows, S))[S]
Holding(rows, o) == {i \in DOMAIN rows : rows[i].order = o /\ rows[i].status # "failed"}

LEMMA ReservedTotal == \A rows, o : Reserved(rows, o) = Total(rows, Holding(rows, o))
BY DEF Reserved, MapThenSumSet, MapThenFoldSet, Total, SumsParts, Sums, Holding, Pick

UpTo(S, n) == {s \in SUBSET S : Cardinality(s) <= n}

LEMMA SumsExist ==
  ASSUME NEW rows, NEW S, IsFiniteSet(S)
  PROVE  \E g : Sums(g, rows, SUBSET S)
<1> DEFINE Bad == {n \in Nat : ~ \E g : Sums(g, rows, UpTo(S, n))}
<1>1. ASSUME NEW s \in SUBSET S PROVE IsFiniteSet(s) /\ Cardinality(s) \in Nat
  BY FS_Subset, FS_CardinalityType
<1>2. ASSUME Bad # {} PROVE FALSE
  <2>1. PICK n \in Bad : \A m \in Bad : n <= m
    BY <1>2, LeastElement
  <2>2. CASE n = 0
    <3> DEFINE g == [s \in UpTo(S, 0) |-> 0]
    <3>1. \A s \in UpTo(S, 0) : s = {}
      BY <1>1, FS_EmptySet DEF UpTo
    <3>2. Sums(g, rows, UpTo(S, 0))
      BY <3>1 DEF Sums
    <3> QED BY <3>2, <2>2
  <2>3. CASE n # 0
    <3>1. n - 1 \in Nat /\ n - 1 \notin Bad
      BY <2>1, <2>3
    <3>2. PICK g : Sums(g, rows, UpTo(S, n - 1))
      BY <3>1
    <3> DEFINE value(s, k) == IF s = {} THEN 0 ELSE rows[Pick(s)].amount + k[s \ {Pick(s)}]
               h == [s \in UpTo(S, n) |-> value(s, g)]
    <3>3. ASSUME NEW s \in UpTo(S, n - 1) PROVE s \in UpTo(S, n) /\ h[s] = g[s]
      <4>1. s \in UpTo(S, n)
        BY <1>1 DEF UpTo
      <4>2. g[s] = value(s, g)
        BY <3>2 DEF Sums
      <4> QED BY <4>1, <4>2
    <3>4. ASSUME NEW s \in UpTo(S, n), s # {} PROVE s \ {Pick(s)} \in UpTo(S, n - 1)
      <4>1. Pick(s) \in s /\ s \in SUBSET S
        BY <3>4, PickIn DEF UpTo
      <4>2. Cardinality(s \ {Pick(s)}) = Cardinality(s) - 1
        BY <1>1, <4>1, FS_RemoveElement
      <4> QED BY <1>1, <4>1, <4>2 DEF UpTo
    <3>5. ASSUME NEW s \in UpTo(S, n) PROVE value(s, g) = value(s, h)
      BY <3>3, <3>4
    <3>6. Sums(h, rows, UpTo(S, n))
      <4> HIDE DEF value
      <4>1. h = [s \in UpTo(S, n) |-> value(s, h)]
        BY <3>5
      <4> QED BY <4>1 DEF Sums, value
    <3> QED BY <3>6
  <2> QED BY <2>2, <2>3
<1>3. UpTo(S, Cardinality(S)) = SUBSET S
  <2>1. \A s \in SUBSET S : Cardinality(s) <= Cardinality(S)
    BY FS_Subset
  <2> QED BY <2>1 DEF UpTo
<1>4. Cardinality(S) \in Nat
  BY FS_CardinalityType
<1>5. Cardinality(S) \notin Bad
  BY <1>2
<1> QED BY <1>3, <1>4, <1>5

\* A total is what some such function gives to the whole set.
LEMMA TotalSums ==
  ASSUME NEW rows, NEW S, IsFiniteSet(S)
  PROVE  \E g : SumsParts(g, rows, S) /\ Total(rows, S) = g[S]
BY SumsExist DEF Total, SumsParts

\* The sum of a set does not depend on what surrounds it.
LEMMA SumsAgree ==
  ASSUME NEW S, NEW T, IsFiniteSet(S), NEW g, NEW h, NEW old, NEW new,
         SumsParts(g, old, S), SumsParts(h, new, T),
         T \subseteq S, \A x \in T : old[x].amount = new[x].amount
  PROVE  g[T] = h[T]
<1> DEFINE Bad == {s \in SUBSET T : g[s] # h[s]}
<1>1. \A s \in Bad : IsFiniteSet(s)
  BY FS_Subset
<1>2. ASSUME Bad # {} PROVE FALSE
  <2>1. PICK s \in Bad : \A t \in Bad : Cardinality(s) <= Cardinality(t)
    BY <1>1, <1>2, SmallestFinite
  <2>2. s \in SUBSET S /\ s \in SUBSET T
    OBVIOUS
  <2>3. /\ g[s] = IF s = {} THEN 0 ELSE old[Pick(s)].amount + g[s \ {Pick(s)}]
        /\ h[s] = IF s = {} THEN 0 ELSE new[Pick(s)].amount + h[s \ {Pick(s)}]
    BY <2>2 DEF SumsParts, Sums
  <2>4. s # {} /\ Pick(s) \in s
    BY <2>3, PickIn
  <2>5. s \ {Pick(s)} \notin Bad
    BY <1>1, <2>1, <2>4, Smaller
  <2> QED BY <2>3, <2>4, <2>5
<1> QED BY <1>2

LEMMA TotalSame ==
  ASSUME NEW S, IsFiniteSet(S), NEW old, NEW new, \A x \in S : old[x].amount = new[x].amount
  PROVE  Total(old, S) = Total(new, S)
<1>1. PICK g : SumsParts(g, old, S) /\ Total(old, S) = g[S]
  BY TotalSums
<1>2. PICK h : SumsParts(h, new, S) /\ Total(new, S) = h[S]
  BY TotalSums
<1> QED BY <1>1, <1>2, SumsAgree

LEMMA TotalPick ==
  ASSUME NEW rows, NEW S, IsFiniteSet(S)
  PROVE  Total(rows, S) = IF S = {} THEN 0
                          ELSE rows[Pick(S)].amount + Total(rows, S \ {Pick(S)})
<1>1. PICK g : SumsParts(g, rows, S) /\ Total(rows, S) = g[S]
  BY TotalSums
<1>2. CASE S = {}
  BY <1>1, <1>2 DEF SumsParts, Sums
<1>3. CASE S # {}
  <2> DEFINE R == S \ {Pick(S)}
  <2>1. IsFiniteSet(R)
    BY FS_Subset
  <2>2. PICK h : SumsParts(h, rows, R) /\ Total(rows, R) = h[R]
    BY <2>1, TotalSums
  <2>3. g[R] = h[R]
    <3> HIDE DEF R
    <3>1. R \subseteq S
      BY DEF R
    <3> QED BY <1>1, <2>2, <3>1, SumsAgree
  <2>4. g[S] = rows[Pick(S)].amount + g[R]
    BY <1>1, <1>3 DEF SumsParts, Sums
  <2> QED BY <1>1, <1>3, <2>2, <2>3, <2>4
<1> QED BY <1>2, <1>3

\* The sets of rows of a table all of whose amounts are natural numbers.
Countable(rows, S) == IsFiniteSet(S) /\ \A x \in S : rows[x].amount \in Nat

LEMMA TotalNat ==
  ASSUME NEW rows, NEW S, Countable(rows, S)
  PROVE  Total(rows, S) \in Nat
<1> DEFINE Bad == {s \in SUBSET S : Total(rows, s) \notin Nat}
<1>1. \A s \in SUBSET S : IsFiniteSet(s)
  BY FS_Subset DEF Countable
<1>2. ASSUME Bad # {} PROVE FALSE
  <2>1. PICK s \in Bad : \A t \in Bad : Cardinality(s) <= Cardinality(t)
    BY <1>1, <1>2, SmallestFinite
  <2>3. Total(rows, s) = IF s = {} THEN 0 ELSE rows[Pick(s)].amount + Total(rows, s \ {Pick(s)})
    BY <1>1, TotalPick
  <2>4. s # {} /\ Pick(s) \in s
    BY <2>3, PickIn
  <2>5. s \ {Pick(s)} \notin Bad
    BY <1>1, <2>1, <2>4, Smaller
  <2>6. rows[Pick(s)].amount \in Nat
    BY <2>4 DEF Countable
  <2> QED BY <2>3, <2>4, <2>5, <2>6
<1> QED BY <1>2

\* Any row may be counted last.
LEMMA TotalOut ==
  ASSUME NEW rows, NEW S, Countable(rows, S), NEW x \in S
  PROVE  Total(rows, S) = rows[x].amount + Total(rows, S \ {x})
<1> DEFINE Out(s, y) == Total(rows, s) = rows[y].amount + Total(rows, s \ {y})
           Bad == {s \in SUBSET S : \E y \in s : ~ Out(s, y)}
<1>1. \A s \in SUBSET S : IsFiniteSet(s) /\ Countable(rows, s)
  BY FS_Subset DEF Countable
<1>2. ASSUME Bad # {} PROVE FALSE
  <2>1. PICK s \in Bad : \A t \in Bad : Cardinality(s) <= Cardinality(t)
    <3> HIDE DEF Out
    <3> QED BY <1>1, <1>2, SmallestFinite
  <2>2. PICK y \in s : ~ Out(s, y)
    OBVIOUS
  <2> DEFINE p == Pick(s)
  <2>3. p \in s /\ Out(s, p)
    <3>1. p \in s
      BY <2>2, PickIn
    <3>2. Total(rows, s) = rows[p].amount + Total(rows, s \ {p})
      BY <1>1, <2>2, TotalPick
    <3> QED BY <3>1, <3>2
  <2>4. p # y
    BY <2>2, <2>3
  <2>5. s \ {p} \notin Bad /\ s \ {y} \notin Bad
    <3> HIDE DEF Out
    <3> QED BY <1>1, <2>1, <2>2, <2>3, Smaller
  <2>6. Out(s \ {p}, y) /\ Out(s \ {y}, p)
    <3> HIDE DEF Out, p
    <3> QED BY <2>2, <2>3, <2>4, <2>5
  <2> DEFINE rest == (s \ {p}) \ {y}
  <2>7. (s \ {y}) \ {p} = rest
    OBVIOUS
  <2>8. Total(rows, rest) \in Nat /\ rows[p].amount \in Nat /\ rows[y].amount \in Nat
    BY <1>1, <2>2, <2>3, TotalNat DEF Countable
  <2>9. /\ Total(rows, s \ {p}) = rows[y].amount + Total(rows, rest)
        /\ Total(rows, s \ {y}) = rows[p].amount + Total(rows, rest)
        /\ Total(rows, s) = rows[p].amount + Total(rows, s \ {p})
        /\ Total(rows, s) # rows[y].amount + Total(rows, s \ {y})
    BY <2>2, <2>3, <2>6, <2>7
  <2> HIDE DEF p, rest
  <2> QED BY <2>8, <2>9
<1> HIDE DEF Out
<1>3. Out(S, x)
  BY <1>2
<1> QED BY <1>3 DEF Out

\* Dropping rows never raises the total.
LEMMA TotalFewer ==
  ASSUME NEW old, NEW new, NEW S, NEW T, Countable(old, S), T \subseteq S,
         \A x \in T : old[x].amount = new[x].amount
  PROVE  Total(new, T) <= Total(old, S)
<1> DEFINE Kept(s) == Total(old, T \cap s) <= Total(old, s)
           Bad == {s \in SUBSET S : ~ Kept(s)}
<1>1. \A s \in SUBSET S : IsFiniteSet(s) /\ Countable(old, s) /\ Total(old, s) \in Nat
  BY FS_Subset, TotalNat DEF Countable
<1>2. ASSUME Bad # {} PROVE FALSE
  <2>1. PICK s \in Bad : \A t \in Bad : Cardinality(s) <= Cardinality(t)
    <3> HIDE DEF Kept
    <3> QED BY <1>1, <1>2, SmallestFinite
  <2>2. CASE s = {}
    <3>1. T \cap s = s
      BY <2>2
    <3>2. Total(old, s) <= Total(old, s)
      BY <1>1
    <3> QED BY <3>1, <3>2
  <2>3. CASE s # {}
    <3>1. PICK x \in s : TRUE
      BY <2>3
    <3>2. Kept(s \ {x})
      <4> HIDE DEF Kept
      <4> QED BY <1>1, <2>1, <3>1, Smaller
    <3>3. Total(old, s) = old[x].amount + Total(old, s \ {x})
      BY <1>1, <3>1, TotalOut
    <3>4. /\ Total(old, s \ {x}) \in Nat /\ Total(old, T \cap (s \ {x})) \in Nat
          /\ Total(old, T \cap s) \in Nat /\ old[x].amount \in Nat
      BY <1>1, <3>1 DEF Countable
    <3>7. /\ Total(old, T \cap (s \ {x})) <= Total(old, s \ {x})
          /\ ~ (Total(old, T \cap s) <= Total(old, s))
      BY <3>2
    <3>5. CASE x \in T
      <4>1. Total(old, T \cap s) = old[x].amount + Total(old, (T \cap s) \ {x})
        BY <1>1, <3>1, <3>5, TotalOut
      <4>2. (T \cap s) \ {x} = T \cap (s \ {x})
        OBVIOUS
      <4>3. Total(old, T \cap s) = old[x].amount + Total(old, T \cap (s \ {x}))
        BY <4>1, <4>2
      <4> HIDE DEF Kept, Bad
      <4> QED BY <3>3, <3>4, <3>7, <4>3
    <3>6. CASE x \notin T
      <4>1. T \cap s = T \cap (s \ {x})
        BY <3>6
      <4>2. Total(old, T \cap s) = Total(old, T \cap (s \ {x}))
        BY <4>1
      <4> HIDE DEF Kept, Bad
      <4> QED BY <3>3, <3>4, <3>7, <4>2
    <3> QED BY <3>5, <3>6
  <2> QED BY <2>2, <2>3
<1>3. Kept(S) /\ T \cap S = T
  <2> HIDE DEF Kept
  <2> QED BY <1>2
<1>4. Total(old, T) = Total(new, T)
  BY <1>1, TotalSame
<1> QED BY <1>3, <1>4

-----------------------------------------------------------------------------
(* The balance of an order. *)

\* The rows of the refunds table can be summed.
LEMMA RowsCountable ==
  ASSUME NEW rows \in Seq(Refund), NEW o
  PROVE  Countable(rows, Holding(rows, o))
<1>1. DOMAIN rows = 1..Len(rows) /\ Len(rows) \in Nat
  OBVIOUS
<1>2. IsFiniteSet(Holding(rows, o))
  <2>1. IsFiniteSet(DOMAIN rows)
    BY <1>1, FS_Interval
  <2>2. Holding(rows, o) \subseteq DOMAIN rows
    BY DEF Holding
  <2> QED BY <2>1, <2>2, FS_Subset
<1>3. \A i \in Holding(rows, o) : rows[i] \in Refund
  BY <1>1 DEF Holding
<1>4. \A i \in Holding(rows, o) : rows[i].amount \in Nat
  BY <1>3 DEF Refund
<1> QED BY <1>2, <1>4 DEF Countable

LEMMA InitBalance == Init => BalanceRespected
BY ServiceAssumption DEF ValidFixture, Init, BalanceRespected, Refunded

\* An accepted refund fits in what its order has left when it commits.
LEMMA CommitBalance ==
  ASSUME Consistent, BalanceRespected, NEW h \in Handlers, CommitRefund(h), TypeOK'
  PROVE  BalanceRespected'
<1> DEFINE a == call[h].req
           id == Len(refunds) + 1
           new == NewRefund(a)
<1>1. refunds \in Seq(Refund) /\ refunds' = Append(refunds, new) /\ TypeOK
  BY DEF Consistent, TypeOK, CommitRefund
<1>2. /\ DOMAIN refunds' = DOMAIN refunds \cup {id} /\ id \notin DOMAIN refunds
      /\ \A i \in DOMAIN refunds : refunds'[i] = refunds[i]
      /\ refunds'[id] = new
  BY <1>1
<1>3. new.order = a.order /\ new.amount = a.amount /\ new.status # "failed"
  BY ValidScenario DEF NewRefund
<1>4. ASSUME NEW o \in Orders PROVE Refunded(o)' <= OrderAmount[o]
  <2> DEFINE S == Holding(refunds, o)
             T == Holding(refunds', o)
  <2>1. Refunded(o) = Total(refunds, S) /\ Refunded(o)' = Total(refunds', T)
    BY ReservedTotal DEF Refunded
  <2>2. Total(refunds, S) <= OrderAmount[o]
    BY <2>1 DEF BalanceRespected
  <2>3. Countable(refunds, S) /\ Countable(refunds', T) /\ OrderAmount[o] \in Nat
    <3>1. refunds \in Seq(Refund) /\ refunds' \in Seq(Refund)
      BY <1>1 DEF TypeOK
    <3> QED BY <3>1, RowsCountable, ValidScenario
  <2>4. \A i \in S : refunds[i].amount = refunds'[i].amount
    BY <1>2 DEF Holding
  <2>5. CASE o # a.order
    <3>1. T = S
      BY <1>2, <1>3, <2>5 DEF Holding
    <3>2. Total(refunds', S) <= Total(refunds, S)
      BY <2>3, <2>4, TotalFewer
    <3>3. Total(refunds', S) \in Nat /\ Total(refunds, S) \in Nat
      BY <2>3, <3>1, TotalNat
    <3> QED BY <2>1, <2>2, <2>3, <3>1, <3>2, <3>3
  <2>6. CASE o = a.order
    <3>1. id \in T /\ T \ {id} = S
      BY <1>2, <1>3, <2>6 DEF Holding
    <3>2. Total(refunds', T) = a.amount + Total(refunds', S)
      BY <1>2, <1>3, <2>3, <3>1, TotalOut
    <3>3. Total(refunds', S) <= Total(refunds, S)
      BY <2>3, <2>4, TotalFewer
    <3>4. Total(refunds, S) + a.amount <= OrderAmount[o]
      BY <2>1, <2>6 DEF CommitRefund, Fits
    <3>5. Countable(refunds', S) /\ a.amount \in Nat
      <4>1. S \subseteq T
        BY <3>1
      <4>2. new.amount \in Nat
        BY <1>2, <2>3, <3>1 DEF Countable
      <4> QED BY <1>3, <2>3, <4>1, <4>2, FS_Subset DEF Countable
    <3>6. Total(refunds', S) \in Nat /\ Total(refunds, S) \in Nat
      BY <2>3, <3>5, TotalNat
    <3> QED BY <2>1, <2>3, <3>2, <3>3, <3>4, <3>5, <3>6
  <2> QED BY <2>5, <2>6
<1> QED BY <1>4 DEF BalanceRespected

\* Settling keeps every amount and at most lets rows fail.
LEMMA RestBalance ==
  ASSUME Consistent, BalanceRespected, NEW s \in Nat, Rest(s), TypeOK'
  PROVE  BalanceRespected'
<1>1. TypeOK /\ Sleep(s)
  BY DEF Consistent, Rest
<1>2. /\ DOMAIN refunds' = DOMAIN refunds
      /\ \A i \in DOMAIN refunds :
            \/ refunds'[i] = refunds[i]
            \/ /\ i \in Due(clock + s)
               /\ refunds'[i] = [refunds[i] EXCEPT !.status = TerminalStatus]
  BY <1>1, SleepRows
<1>3. \A i \in DOMAIN refunds :
         /\ refunds'[i].order = refunds[i].order
         /\ refunds'[i].amount = refunds[i].amount
         /\ refunds[i].status = "failed" => refunds'[i].status = "failed"
  <2> SUFFICES ASSUME NEW i \in DOMAIN refunds
               PROVE  /\ refunds'[i].order = refunds[i].order
                      /\ refunds'[i].amount = refunds[i].amount
                      /\ refunds[i].status = "failed" => refunds'[i].status = "failed"
    OBVIOUS
  <2>1. refunds[i] \in Refund
    BY <1>1, RefundRows
  <2>2. i \in Due(clock + s) => refunds[i].status = "pending"
    BY DEF Due
  <2> QED BY <1>2, <2>1, <2>2 DEF Refund
<1>4. ASSUME NEW o \in Orders PROVE Refunded(o)' <= OrderAmount[o]
  <2> DEFINE S == Holding(refunds, o)
             T == Holding(refunds', o)
  <2>1. Refunded(o) = Total(refunds, S) /\ Refunded(o)' = Total(refunds', T)
    BY ReservedTotal DEF Refunded
  <2>2. T \subseteq S /\ \A i \in T : refunds[i].amount = refunds'[i].amount
    <3> SUFFICES ASSUME NEW i \in T PROVE i \in S /\ refunds[i].amount = refunds'[i].amount
      OBVIOUS
    <3>1. i \in DOMAIN refunds /\ refunds'[i].order = o /\ refunds'[i].status # "failed"
      BY <1>2 DEF Holding
    <3>2. /\ refunds[i].order = o /\ refunds[i].status # "failed"
          /\ refunds[i].amount = refunds'[i].amount
      BY <1>3, <3>1
    <3> QED BY <3>1, <3>2 DEF Holding
  <2>3. Countable(refunds, S) /\ Countable(refunds', T) /\ OrderAmount[o] \in Nat
    <3>1. refunds \in Seq(Refund) /\ refunds' \in Seq(Refund)
      BY <1>1 DEF TypeOK
    <3> QED BY <3>1, RowsCountable, ValidScenario
  <2>4. Total(refunds', T) <= Total(refunds, S)
    BY <2>2, <2>3, TotalFewer
  <2>5. Total(refunds', T) \in Nat /\ Total(refunds, S) \in Nat
    BY <2>3, TotalNat
  <2> QED BY <2>1, <2>3, <2>4, <2>5 DEF BalanceRespected
<1> QED BY <1>4 DEF BalanceRespected

LEMMA NextBalance == Consistent /\ BalanceRespected /\ [AnyNext]_vars => BalanceRespected'
<1> SUFFICES ASSUME Consistent, BalanceRespected, [AnyNext]_vars PROVE BalanceRespected'
  OBVIOUS
<1>1. TypeOK'
  BY NextTypeOK DEF Consistent
<1>2. CASE UNCHANGED refunds
  BY <1>2 DEF BalanceRespected, Refunded
<1>3. ASSUME NEW h \in Handlers, AnyStep(h) PROVE BalanceRespected'
  <2>1. CASE CommitRefund(h)
    BY <1>1, <2>1, CommitBalance
  <2>2. CASE \E s \in Nat : Rest(s)
    BY <1>1, <2>2, RestBalance
  <2> QED BY <1>2, <1>3, <2>1, <2>2, OtherSteps DEF Consistent
<1> QED BY <1>2, <1>3 DEF AnyNext, vars, service

\* No order is ever refunded for more than was paid, whatever handlers commit in
\* between: _refund sums the accepted rows in the transaction that inserts, and
\* a settlement can only give money back.
THEOREM NoOverRefund == Spec => []BalanceRespected
BY InitBalance, NextBalance, ConsistentAlways, BoundedStep, PTL DEF Spec

-----------------------------------------------------------------------------
(* The refund a reply names. *)

\* Answering a call sets its reply and keeps its request.
LEMMA AnswerSet ==
  ASSUME TypeOK, NEW h \in Handlers, NEW reply, Finish(h, reply) \/ Commit(h, reply)
  PROVE  /\ call'[h].reply = reply /\ call'[h].req = call[h].req
         /\ \A g \in Handlers \ {h} : call'[g] = call[g]
<1>1. call[h] \in CallState /\ call \in [Handlers -> CallState]
  BY DEF TypeOK
<1>2. CASE Finish(h, reply)
  BY <1>1, <1>2 DEF Finish, CallState
<1>3. CASE Commit(h, reply)
  BY <1>1, <1>3 DEF Commit, CallState
<1> QED BY <1>2, <1>3

\* Only a create_refund that commits or finds its key names a refund; the
\* delivery of a response passes the reply on or empties it.
NamesNoRefund(h) ==
  \/ call'[h].pc \notin {"committed", "replied"}
  \/ call'[h].req.tool # "create_refund"
  \/ call'[h].reply.refund = 0

PassesOn(h) ==
  call[h].pc = "committed" /\ call'[h].req = call[h].req /\ call'[h].reply = call[h].reply

LEMMA EmptyReplies ==
  /\ OkReply.refund = 0
  /\ \A code, retry : ErrorReply(code, retry).refund = 0
  /\ \A t, e : TicketReply(t, e).refund = 0
  /\ \A s : [OkReply EXCEPT !.shape = s].refund = 0
  /\ \A r \in Reply : [r EXCEPT !.shape = "incomplete", !.refund = 0, !.status = "none"].refund = 0
BY DEF OkReply, ErrorReply, TicketReply, Reply

LEMMA OtherReplies ==
  ASSUME TypeOK, NEW h \in Handlers, AnyStep(h)
  PROVE  /\ \A g \in Handlers \ {h} : call'[g] = call[g]
         /\ \/ NamesNoRefund(h) \/ PassesOn(h)
            \/ CommitRefund(h) \/ ReuseRefund(h) \/ UNCHANGED call
<1> DEFINE Others == \A g \in Handlers \ {h} : call'[g] = call[g]
           Goal == /\ Others
                   /\ \/ NamesNoRefund(h) \/ PassesOn(h)
                      \/ CommitRefund(h) \/ ReuseRefund(h) \/ UNCHANGED call
<1> SUFFICES Goal
  OBVIOUS
<1>0. call \in [Handlers -> CallState] /\ call[h] \in CallState /\ call[h].reply \in Reply
  BY CallParts DEF TypeOK
<1>a. Idle \in CallState
  BY IdleType
<1>r. ASSUME NEW code, Refuse(h, code) PROVE Others /\ NamesNoRefund(h)
  BY <1>r, AnswerSet, EmptyReplies DEF Refuse, NamesNoRefund
<1>1. ASSUME NEW req \in Request, Call(h, req) PROVE Goal
  <2> DEFINE started == [Idle EXCEPT !.req = req, !.n = counts[req.tool] + 1]
  <2>1. CASE \E f \in Faults : call' = [call EXCEPT ![h] = [started EXCEPT !.pc = "replied",
                                                  !.reply = ErrorReply(f.action, f.retry)]]
    <3>1. PICK f \in Faults : call' = [call EXCEPT ![h] = [started EXCEPT !.pc = "replied",
                                                  !.reply = ErrorReply(f.action, f.retry)]]
      BY <2>1
    <3>2. call'[h].reply = ErrorReply(f.action, f.retry) /\ Others
      BY <1>0, <1>a, <3>1 DEF CallState
    <3> QED BY <3>2, EmptyReplies DEF NamesNoRefund
  <2>2. CASE \E pc \in {"barrier", "called"} : call' = [call EXCEPT ![h] = [started EXCEPT !.pc = pc]]
    <3>1. call'[h].pc \in {"barrier", "called"} /\ Others
      BY <1>0, <1>a, <2>2 DEF CallState
    <3> QED BY <3>1 DEF NamesNoRefund
  <2> QED BY <1>1, <2>1, <2>2 DEF Call, FaultsAt
<1>2. ASSUME NEW req \in Request, OverBudget(h, req) PROVE Goal
  <2>1. call'[h].reply = ErrorReply("budget_exceeded", 0) /\ Others
    BY <1>0, <1>2, <1>a DEF OverBudget, CallState
  <2> QED BY <2>1, EmptyReplies DEF NamesNoRefund
<1>3. CASE PassBarrier(h) \/ RateLimited(h)
  <2>1. call'[h].pc \in {"called", "limited"} /\ Others
    BY <1>0, <1>3 DEF PassBarrier, RateLimited, CallState
  <2> QED BY <2>1 DEF NamesNoRefund
<1>4. CASE BreakBarrier(h) \/ RefuseRefund(h)
  BY <1>4, <1>r DEF BreakBarrier, RefuseRefund
<1>5. CASE AnnounceRetry(h)
  BY <1>5, AnswerSet, EmptyReplies DEF AnnounceRetry, NamesNoRefund
<1>6. CASE CommitRefund(h) \/ ReuseRefund(h)
  <2>1. \E reply : Commit(h, reply)
    BY <1>6 DEF CommitRefund, ReuseRefund
  <2> QED BY <1>6, <2>1, AnswerSet
<1>7. CASE Read(h)
  <2>1. call[h].req.tool # "create_refund"
    BY <1>7 DEF Read, LookupTools
  <2>2. \E reply : Finish(h, reply) \/ Commit(h, reply)
    BY <1>7 DEF Read, Refuse
  <2> QED BY <2>1, <2>2, AnswerSet DEF NamesNoRefund
<1>8. CASE \/ GetTicket(h) \/ AppendNote(h) \/ UpdateTicket(h) \/ Escalate(h)
           \/ ReceiveEvents(h) \/ AckEvent(h)
  <2>1. call[h].req.tool # "create_refund"
    BY <1>8 DEF GetTicket, AppendNote, UpdateTicket, Escalate, ReceiveEvents, AckEvent, Serving
  <2>2. \E reply : Finish(h, reply) \/ Commit(h, reply)
    BY <1>8 DEF GetTicket, AppendNote, UpdateTicket, WriteTicket, Escalate, ReceiveEvents,
                AckEvent, Refuse
  <2> QED BY <2>1, <2>2, AnswerSet DEF NamesNoRefund
<1>9. CASE Respond(h)
  <2>1. CASE Refuse(h, "transport_timeout")
    BY <2>1, <1>r
  <2>2. CASE call' = [call EXCEPT ![h].pc = "hidden"]
    <3>1. call'[h].pc = "hidden" /\ Others
      BY <1>0, <2>2 DEF CallState
    <3> QED BY <3>1 DEF NamesNoRefund
  <2>3. CASE Finish(h, [OkReply EXCEPT !.shape = "empty"])
    <3>1. PICK reply : Finish(h, reply) /\ reply.refund = 0
      BY <2>3, EmptyReplies, ZenonT(30)
    <3> QED BY <3>1, AnswerSet DEF NamesNoRefund
  <2> DEFINE incomplete == [call[h].reply EXCEPT !.shape = "incomplete", !.refund = 0,
                                                !.status = "none"]
  <2>6. CASE Finish(h, incomplete)
    <3>1. incomplete.refund = 0
      BY <1>0, EmptyReplies
    <3> HIDE DEF incomplete
    <3> QED BY <2>6, <3>1, AnswerSet DEF NamesNoRefund
  <2>4. CASE Finish(h, call[h].reply)
    BY <1>9, <2>4, AnswerSet DEF PassesOn, Respond
  <2>5. \/ Refuse(h, "transport_timeout") \/ call' = [call EXCEPT ![h].pc = "hidden"]
        \/ Finish(h, [OkReply EXCEPT !.shape = "empty"])
        \/ Finish(h, incomplete) \/ Finish(h, call[h].reply)
    BY <1>9 DEF Respond
  <2> HIDE DEF Goal, incomplete
  <2> QED BY <2>1, <2>2, <2>3, <2>4, <2>5, <2>6
<1>10. CASE StaleRead(h)
  <2>1. CASE Refuse(h, "transport_timeout")
    BY <2>1, <1>r
  <2>2. CASE Finish(h, [OkReply EXCEPT !.shape = "empty"])
    <3>1. PICK reply : Finish(h, reply) /\ reply.refund = 0
      BY <2>2, EmptyReplies, ZenonT(30)
    <3> QED BY <3>1, AnswerSet DEF NamesNoRefund
  <2> QED BY <1>10, <2>1, <2>2 DEF StaleRead
<1>11. CASE Collect(h)
  <2>1. call'[h].pc = "idle" /\ Others
    BY <1>0, <1>11 DEF Collect, Idle
  <2> QED BY <2>1 DEF NamesNoRefund
<1>12. CASE \E s \in Nat : Rest(s)
  BY <1>12 DEF Rest, calls
<1> HIDE DEF Goal
<1>13. CASE Serve(h)
  BY <1>3, <1>4, <1>5, <1>6, <1>7, <1>8, <1>13 DEF Serve
<1>14. CASE \E req \in Request : Call(h, req) \/ OverBudget(h, req)
  BY <1>1, <1>2, <1>14
<1>15. CASE PassBarrier(h) \/ BreakBarrier(h) \/ Respond(h) \/ StaleRead(h) \/ Collect(h)
  BY <1>3, <1>4, <1>9, <1>10, <1>11, <1>15
<1> QED BY <1>12, <1>13, <1>14, <1>15 DEF AnyStep

\* A refund keeps the parameters a reply was made from.
Names(i, c, rows) ==
  i \in DOMAIN rows /\ rows[i].key = c.req.key /\ rows[i].amount = c.req.amount
                    /\ rows[i].order = c.req.order

LEMMA RowsKeepParameters ==
  ASSUME Consistent, [AnyNext]_vars, NEW i \in DOMAIN refunds
  PROVE  /\ i \in DOMAIN refunds'
         /\ refunds'[i].key = refunds[i].key /\ refunds'[i].amount = refunds[i].amount
         /\ refunds'[i].order = refunds[i].order /\ refunds'[i].request = refunds[i].request
<1>1. refunds \in Seq(Refund) /\ refunds[i] \in Refund /\ TypeOK
  BY RefundRows DEF Consistent, TypeOK
<1>2. CASE UNCHANGED refunds
  BY <1>2
<1>3. ASSUME NEW h \in Handlers, CommitRefund(h)
      PROVE  i \in DOMAIN refunds' /\ refunds'[i] = refunds[i]
  BY <1>1, <1>3 DEF CommitRefund
<1>4. ASSUME NEW s \in Nat, Rest(s)
      PROVE  /\ i \in DOMAIN refunds'
             /\ \/ refunds'[i] = refunds[i]
                \/ refunds'[i] = [refunds[i] EXCEPT !.status = TerminalStatus]
  BY <1>1, <1>4, SleepRows DEF Rest
<1>5. [refunds[i] EXCEPT !.status = TerminalStatus].key = refunds[i].key
  BY <1>1 DEF Refund
<1>6. /\ [refunds[i] EXCEPT !.status = TerminalStatus].amount = refunds[i].amount
      /\ [refunds[i] EXCEPT !.status = TerminalStatus].order = refunds[i].order
      /\ [refunds[i] EXCEPT !.status = TerminalStatus].request = refunds[i].request
  BY <1>1 DEF Refund
<1> QED BY <1>1, <1>2, <1>3, <1>4, <1>5, <1>6, OtherSteps DEF AnyNext, vars, service

LEMMA NextAnswers == Consistent /\ AnswersOwnRefund /\ [AnyNext]_vars => AnswersOwnRefund'
<1> SUFFICES ASSUME Consistent, AnswersOwnRefund, [AnyNext]_vars, NEW g \in Handlers,
                    call'[g].pc \in {"committed", "replied"},
                    call'[g].req.tool = "create_refund", call'[g].reply.refund # 0
             PROVE  Names(call'[g].reply.refund, call'[g], refunds')
  BY DEF AnswersOwnRefund, Names
<1> DEFINE Kept == Names(call[g].reply.refund, call[g], refunds)
                   /\ call'[g].req = call[g].req /\ call'[g].reply = call[g].reply
<1>1. Kept => Names(call'[g].reply.refund, call'[g], refunds')
  BY RowsKeepParameters DEF Names
<1>2. CASE UNCHANGED call
  BY <1>1, <1>2 DEF AnswersOwnRefund, Names
<1>3. ASSUME NEW h \in Handlers, AnyStep(h), h # g PROVE Names(call'[g].reply.refund, call'[g], refunds')
  <2>1. call'[g] = call[g]
    BY <1>3, OtherReplies DEF Consistent
  <2> QED BY <1>1, <2>1 DEF AnswersOwnRefund, Names
<1>4. ASSUME AnyStep(g) PROVE Names(call'[g].reply.refund, call'[g], refunds')
  <2>1. CASE NamesNoRefund(g)
    BY <2>1 DEF NamesNoRefund
  <2>2. CASE PassesOn(g)
    BY <1>1, <2>2 DEF PassesOn, AnswersOwnRefund, Names
  <2>3. CASE CommitRefund(g)
    <3> DEFINE a == call[g].req
               id == Len(refunds) + 1
    <3>1. call'[g].reply = RefundReply(id, RefundInitialStatus) /\ call'[g].req = a
      BY <2>3, AnswerSet DEF CommitRefund, Consistent
    <3>2. call'[g].reply.refund = id
      BY <3>1 DEF RefundReply, OkReply
    <3>3. refunds \in Seq(Refund) /\ refunds' = Append(refunds, NewRefund(a))
      BY <2>3 DEF Consistent, TypeOK, CommitRefund
    <3>4. id \in DOMAIN refunds' /\ refunds'[id] = NewRefund(a)
      BY <3>3
    <3> QED BY <3>1, <3>2, <3>4 DEF Names, NewRefund
  <2>4. CASE ReuseRefund(g)
    <3> DEFINE a == call[g].req
    <3>1. PICK e \in Registered(a.key) :
            SameParameters(e, a) /\ Commit(g, RefundReply(e.refund, refunds[e.refund].status))
      BY <2>4 DEF ReuseRefund
    <3>2. call'[g].reply.refund = e.refund /\ call'[g].req = a
      <4>1. /\ call'[g].reply = RefundReply(e.refund, refunds[e.refund].status)
            /\ call'[g].req = a
        BY <3>1, AnswerSet DEF Consistent
      <4> QED BY <4>1 DEF RefundReply, OkReply
    <3>3. /\ e.refund \in DOMAIN refunds /\ e = EntryOf(e.refund, refunds[e.refund])
          /\ e.key = a.key
      BY <3>1 DEF Registered, Consistent, RegistryConsistent
    <3>4. Names(e.refund, call[g], refunds) /\ refunds' = refunds
      BY <2>4, <3>1, <3>3 DEF Names, EntryOf, SameParameters, ReuseRefund, service
    <3> QED BY <3>2, <3>4 DEF Names
  <2> QED BY <1>2, <1>4, <2>1, <2>2, <2>3, <2>4, OtherReplies DEF Consistent
<1> QED BY <1>2, <1>3, <1>4 DEF AnyNext, vars, calls

\* The refund a create_refund call reports is its own, also when the key was
\* found in the idempotency table and whoever committed it.
THEOREM OwnRefundAnswered == Spec => []AnswersOwnRefund
<1>1. Init => AnswersOwnRefund
  BY DEF Init, AnswersOwnRefund, Idle
<1> QED BY <1>1, NextAnswers, ConsistentAlways, BoundedStep, PTL DEF Spec

-----------------------------------------------------------------------------
(***************************************************************************)
(* The refinement of PaymentLedger.  The ledger is a state function of the  *)
(* refunds table: the two actions that write the table map to Accept and    *)
(* Settle, every other step leaves the ledger alone.                        *)
(***************************************************************************)

\* What the ledger shows of a row.
Shown(r) == [order |-> r.order, amount |-> r.amount, request |-> r.request, state |-> r.status]

\* Each key shows its one row, or nothing.
LedgerShowsRows ==
  /\ PaidBy = [k \in Keys |-> PaidBy[k]]
  /\ \A i \in DOMAIN refunds : /\ refunds[i].key \in Keys /\ refunds[i] \in Refund
                               /\ PaidBy[refunds[i].key] = Shown(refunds[i])
  /\ \A k \in Keys : (\A i \in DOMAIN refunds : refunds[i].key # k) => PaidBy[k] = Ledger!NoEffect

LEMMA RowsShown == Consistent => LedgerShowsRows
<1> SUFFICES ASSUME Consistent PROVE LedgerShowsRows
  OBVIOUS
<1>1. PaidBy = [k \in Keys |-> PaidBy[k]]
  BY DEF PaidBy
<1>2. ASSUME NEW i \in DOMAIN refunds
      PROVE  /\ refunds[i].key \in Keys /\ refunds[i] \in Refund
             /\ PaidBy[refunds[i].key] = Shown(refunds[i])
  <2> DEFINE k == refunds[i].key
  <2>1. refunds[i] \in Refund /\ k \in Keys
    BY RefundRows DEF Consistent, Refund
  <2>2. Paid(k) = {i}
    BY DEF Consistent, OneRefundPerKey, Paid
  <2>3. Cardinality({i}) = 1 /\ ~ (1 > 1)
    BY FS_Singleton
  <2>4. (CHOOSE j \in {i} : TRUE) = i
    OBVIOUS
  <2> HIDE DEF k
  <2>5. PaidBy[k] = IF Paid(k) = {} THEN [state |-> "none"]
                    ELSE IF Cardinality(Paid(k)) > 1 THEN [state |-> "paid twice"]
                    ELSE Shown(refunds[CHOOSE j \in Paid(k) : TRUE])
    BY <2>1 DEF PaidBy, Shown
  <2>6. PaidBy[k] = Shown(refunds[i])
    BY <2>2, <2>3, <2>4, <2>5
  <2> QED BY <2>1, <2>6 DEF k
<1>3. ASSUME NEW k \in Keys, \A i \in DOMAIN refunds : refunds[i].key # k
      PROVE  PaidBy[k] = Ledger!NoEffect
  <2>1. Paid(k) = {}
    BY <1>3 DEF Paid
  <2> QED BY <2>1 DEF PaidBy, Ledger!NoEffect
<1> QED BY <1>1, <1>2, <1>3 DEF LedgerShowsRows

LEMMA ShownEffect == ASSUME NEW r \in Refund PROVE Shown(r) \in Ledger!Effect
BY DEF Refund, RefundStatuses, Shown, Ledger!Effect

LEMMA InitLedger == Init => Ledger!Init
<1> SUFFICES ASSUME Init PROVE PaidBy \in [Keys -> Ledger!Effect \cup {Ledger!NoEffect}]
  BY DEF Ledger!Init
<1>1. LedgerShowsRows
  BY InitConsistent, RowsShown
<1>2. ASSUME NEW k \in Keys PROVE PaidBy[k] \in Ledger!Effect \cup {Ledger!NoEffect}
  BY <1>1, ShownEffect DEF LedgerShowsRows
<1> QED BY <1>1, <1>2 DEF LedgerShowsRows

\* The commit of a new refund is Accept of its key.
LEMMA CommitAccepts ==
  ASSUME Consistent, LedgerShowsRows, LedgerShowsRows', NEW h \in Handlers, CommitRefund(h)
  PROVE  \E k \in Keys : Ledger!Accept(k)
<1> DEFINE a == call[h].req
           id == Len(refunds) + 1
           new == NewRefund(a)
           k == a.key
<1>1. a \in Request /\ a.tool = "create_refund"
  BY CallParts DEF Consistent, CommitRefund, Serving
<1>2. k \in Keys /\ new \in Refund /\ new.key = k /\ new.status # "failed"
  BY <1>1, RequestTypes, NewRefundType, ValidScenario DEF Consistent, NewRefund
<1>3. refunds \in Seq(Refund) /\ refunds' = Append(refunds, new)
  BY DEF Consistent, TypeOK, CommitRefund
<1>4. /\ DOMAIN refunds' = DOMAIN refunds \cup {id} /\ id \notin DOMAIN refunds
      /\ \A i \in DOMAIN refunds : refunds'[i] = refunds[i]
      /\ refunds'[id] = new
  BY <1>3
<1>5. \A i \in DOMAIN refunds : refunds[i].key # k
  <2> SUFFICES ASSUME NEW i \in DOMAIN refunds, refunds[i].key = k PROVE FALSE
    OBVIOUS
  <2>1. EntryOf(i, refunds[i]) \in Registered(k)
    BY DEF Consistent, RegistryConsistent, Registered, EntryOf
  <2> QED BY <2>1 DEF CommitRefund
<1> HIDE DEF new, k, id
<1>6. PaidBy[k] = Ledger!NoEffect
  BY <1>2, <1>5 DEF LedgerShowsRows
<1>7. PaidBy'[k] = Shown(new)
  BY <1>2, <1>4 DEF LedgerShowsRows
<1>8. ASSUME NEW j \in Keys, j # k PROVE PaidBy'[j] = PaidBy[j]
  <2>1. CASE \E i \in DOMAIN refunds : refunds[i].key = j
    BY <1>4, <2>1 DEF LedgerShowsRows
  <2>2. CASE \A i \in DOMAIN refunds : refunds[i].key # j
    <3>1. \A i \in DOMAIN refunds' : refunds'[i].key # j
      BY <1>2, <1>4, <1>8, <2>2
    <3> QED BY <2>2, <3>1 DEF LedgerShowsRows, Ledger!NoEffect
  <2> QED BY <2>1, <2>2
<1>9. PaidBy' = [PaidBy EXCEPT ![k] = PaidBy'[k]]
  BY <1>2, <1>8 DEF LedgerShowsRows
<1>10. PaidBy'[k] \in Ledger!Effect /\ PaidBy'[k].state # "failed"
  BY <1>2, <1>7, ShownEffect DEF Shown
<1> QED BY <1>2, <1>6, <1>9, <1>10 DEF Ledger!Accept

\* A clock advance is Settle of the keys whose transition is due.
LEMMA RestSettles ==
  ASSUME Consistent, LedgerShowsRows, LedgerShowsRows', NEW s \in Nat, Rest(s)
  PROVE  \E S \in SUBSET Keys : Ledger!Settle(S)
<1> DEFINE due == Due(clock + s)
           S == {refunds[i].key : i \in due}
<1>1. /\ DOMAIN refunds' = DOMAIN refunds
      /\ \A i \in DOMAIN refunds :
            /\ refunds'[i] = IF i \in due THEN [refunds[i] EXCEPT !.status = TerminalStatus]
                              ELSE refunds[i]
            /\ refunds'[i].key = refunds[i].key
  <2>1. Sleep(s)
    BY DEF Rest
  <2> QED BY <2>1, SleepRows DEF Consistent, Sleep
<1>2. /\ due \subseteq DOMAIN refunds
      /\ \A i \in due : refunds[i].status = "pending"
  BY DEF Due
<1>3. S \in SUBSET Keys
  BY <1>2 DEF LedgerShowsRows
<1>4. \A k \in S : PaidBy[k].state = "pending"
  <2> SUFFICES ASSUME NEW i \in due PROVE PaidBy[refunds[i].key].state = "pending"
    OBVIOUS
  <2>1. PaidBy[refunds[i].key] = Shown(refunds[i]) /\ refunds[i].status = "pending"
    BY <1>2 DEF LedgerShowsRows
  <2> QED BY <2>1 DEF Shown
<1>5. ASSUME NEW k \in Keys
      PROVE  PaidBy'[k] = IF k \in S THEN [PaidBy[k] EXCEPT !.state = TerminalStatus] ELSE PaidBy[k]
  <2>1. CASE \A i \in DOMAIN refunds : refunds[i].key # k
    <3>1. \A i \in DOMAIN refunds' : refunds'[i].key # k
      BY <1>1, <2>1
    <3>2. k \notin S
      BY <1>2, <2>1
    <3> QED BY <2>1, <3>1, <3>2 DEF LedgerShowsRows, Ledger!NoEffect
  <2>2. CASE \E i \in DOMAIN refunds : refunds[i].key = k
    <3>1. PICK i \in DOMAIN refunds : refunds[i].key = k
      BY <2>2
    <3>2. k \in S <=> i \in due
      BY <1>2, <3>1 DEF Consistent, OneRefundPerKey
    <3>3. PaidBy[k] = Shown(refunds[i]) /\ PaidBy'[k] = Shown(refunds'[i])
      BY <1>1, <3>1 DEF LedgerShowsRows
    <3>4. refunds[i] \in Refund
      BY <3>1 DEF LedgerShowsRows
    <3>5. Shown([refunds[i] EXCEPT !.status = TerminalStatus])
            = [Shown(refunds[i]) EXCEPT !.state = TerminalStatus]
      BY <3>4 DEF Shown, Refund
    <3> QED BY <1>1, <3>1, <3>2, <3>3, <3>5
  <2> QED BY <2>1, <2>2
<1> HIDE DEF S
<1>6. PaidBy' = [k \in Keys |-> IF k \in S THEN [PaidBy[k] EXCEPT !.state = TerminalStatus]
                                            ELSE PaidBy[k]]
  BY <1>5 DEF LedgerShowsRows
<1> QED BY <1>3, <1>4, <1>6 DEF Ledger!Settle

LEMMA NextLedger ==
  ASSUME Consistent, LedgerShowsRows, LedgerShowsRows', [AnyNext]_vars
  PROVE  [Ledger!Next]_PaidBy
<1>1. CASE UNCHANGED refunds
  BY <1>1 DEF PaidBy, Paid
<1>2. ASSUME NEW h \in Handlers, AnyStep(h) PROVE [Ledger!Next]_PaidBy
  <2>1. CASE CommitRefund(h)
    BY <2>1, CommitAccepts DEF Ledger!Next
  <2>2. CASE \E s \in Nat : Rest(s)
    BY <2>2, RestSettles DEF Ledger!Next
  <2> QED BY <1>1, <1>2, <2>1, <2>2, OtherSteps DEF Consistent
<1> QED BY <1>1, <1>2 DEF AnyNext, vars, service

\* TestPay implements the payment ledger under every agent, plan and fault: its
\* tables, calls and clock show of a key nothing but one payment, made once and
\* settled once.
THEOREM ServiceIsLedger == Spec => ImplementsLedger
<1>1. Init => Ledger!Init
  BY InitLedger
<1>2. Consistent /\ LedgerShowsRows /\ LedgerShowsRows' /\ [AnyNext]_vars => [Ledger!Next]_PaidBy
  BY NextLedger
<1>3. Spec => []LedgerShowsRows
  BY RowsShown, ConsistentAlways, PTL
<1> QED BY <1>1, <1>2, <1>3, ConsistentAlways, BoundedStep, PTL DEF Spec, ImplementsLedger, Ledger!Spec
=============================================================================
