------------------------- MODULE CreditLedgerProofs -------------------------
(***************************************************************************)
(* CreditLedger's invariants hold for every account: any finite number of  *)
(* payments, operations and other grants, any amounts, prices and periods. *)
(*                                                                         *)
(* The first part is about sums.  SumOver folds a set in the order CHOOSE  *)
(* happens to give; the lemmas show that it is defined by its recursion    *)
(* (SumRecursion), that the order does not matter (SumWithout), and what   *)
(* the accounting needs from that.  Induction over the subsets of a finite *)
(* set is the existence of a smallest counterexample (SubsetInduction).    *)
(***************************************************************************)
EXTENDS CreditLedger, FiniteSetTheorems, WellFoundedInduction, TLAPS

-----------------------------------------------------------------------------
(* Sums.                                                                   *)

\* A set of subsets that has every finite set whose one-smaller subsets it
\* has: it has all of them.
LEMMA SubsetInduction ==
  ASSUME NEW S, IsFiniteSet(S), NEW Good,
         \A s \in SUBSET S : (\A x \in s : s \ {x} \in Good) => s \in Good
  PROVE  SUBSET S \subseteq Good
<1> DEFINE Bad == {s \in SUBSET S : s \notin Good}
<1>1. SUFFICES ASSUME Bad # {} PROVE FALSE
  OBVIOUS
<1>2. IsWellFoundedOn(StrictSubsetOrdering(S), SUBSET S)
  BY FS_FiniteSubsetsOfFinite, FS_StrictSubsetOrderingWellFounded
<1>3. Bad \subseteq SUBSET S
  OBVIOUS
<1>4. PICK s \in Bad : \A t \in Bad : ~ (<<t, s>> \in StrictSubsetOrdering(S))
  <2> HIDE DEF Bad
  <2> QED BY <1>1, <1>2, <1>3, WFMin
<1>5. ASSUME NEW x \in s PROVE s \ {x} \in Good
  <2>1. s \ {x} \in SUBSET S /\ s \ {x} \subseteq s /\ s # s \ {x}
    OBVIOUS
  <2>2. <<s \ {x}, s>> \in StrictSubsetOrdering(S)
    BY <2>1 DEF StrictSubsetOrdering
  <2> QED BY <1>4, <2>1, <2>2
<1> QED BY <1>4, <1>5

\* A set of numbers that has 0 and the successor of each of its elements.
LEMMA NumberInduction ==
  ASSUME NEW Good, 0 \in Good, \A n \in Nat : n \in Good => n + 1 \in Good
  PROVE  Nat \subseteq Good
<1> DEFINE Bad == {n \in Nat : n \notin Good}
<1>1. SUFFICES ASSUME Bad # {} PROVE FALSE
  OBVIOUS
<1>2. Bad \subseteq Nat
  OBVIOUS
<1>3. PICK n \in Bad : \A m \in Bad : ~ (<<m, n>> \in OpToRel(<, Nat))
  <2> HIDE DEF Bad
  <2> QED BY <1>1, <1>2, WFMin, NatLessThanWellFounded
<1>4. \A m \in Nat : m < n => m \in Good
  BY <1>3 DEF OpToRel
<1>5. n \in Nat /\ n # 0 /\ n \notin Good
  BY <1>3
<1>6. n - 1 \in Nat /\ n - 1 < n /\ (n - 1) + 1 = n
  BY <1>5
<1> QED BY <1>4, <1>5, <1>6

\* One round of the fold: the element CHOOSE gives, and the rest.
SumStep(f, s, sum) ==
  IF s = {} THEN 0
  ELSE LET x == CHOOSE x \in s : TRUE IN f[x] + sum[s \ {x}]

\* sum is the fold of f on all subsets of S.
IsSum(sum, f, S) == sum = [s \in SUBSET S |-> SumStep(f, s, sum)]

\* SumOver is the fold of the community modules, written as a choice.
LEMMA SumIsFold ==
  ASSUME NEW f, NEW S
  PROVE  SumOver(f, S) = (CHOOSE sum : IsSum(sum, f, S))[S]
  BY DEF SumOver, MapThenSumSet, MapThenFoldSet, SumStep, IsSum

\* The fold exists: built up by the size of the subsets.
LEMMA SumExists ==
  ASSUME NEW f, NEW S, IsFiniteSet(S)
  PROVE  \E sum : IsSum(sum, f, S)
<1> DEFINE UpTo(n) == {s \in SUBSET S : Cardinality(s) <= n}
           IsPart(h, n) == h = [s \in UpTo(n) |-> SumStep(f, s, h)]
           Good == {n \in Nat : \E h : IsPart(h, n)}
<1>1. \A s \in SUBSET S : IsFiniteSet(s) /\ Cardinality(s) \in Nat
  BY FS_Subset, FS_CardinalityType
<1>2. \A s \in SUBSET S : Cardinality(s) = 0 <=> s = {}
  BY <1>1, FS_EmptySet
<1>3. 0 \in Good
  <2> DEFINE h == [s \in UpTo(0) |-> 0]
  <2>1. \A s \in UpTo(0) : s = {}
    BY <1>1, <1>2
  <2>2. \A s \in UpTo(0) : SumStep(f, s, h) = 0
    BY <2>1 DEF SumStep
  <2>3. IsPart(h, 0)
    BY <2>2
  <2> QED BY <2>3
<1>4. ASSUME NEW n \in Nat, n \in Good PROVE n + 1 \in Good
  <2>1. PICK h : IsPart(h, n)
    BY <1>4
  <2> HIDE DEF UpTo
  <2>0. PICK k : k = [s \in UpTo(n + 1) |-> SumStep(f, s, h)]
    OBVIOUS
  <2>2. ASSUME NEW s \in UpTo(n + 1) PROVE SumStep(f, s, k) = SumStep(f, s, h)
    <3>1. CASE s = {}
      BY <3>1 DEF SumStep
    <3>2. CASE s # {}
      <4> DEFINE x == CHOOSE x \in s : TRUE
      <4>1. x \in s /\ s \in SUBSET S
        BY <3>2 DEF UpTo
      <4>2. Cardinality(s \ {x}) = Cardinality(s) - 1
        BY <4>1, <1>1, FS_RemoveElement
      <4>3. s \ {x} \in UpTo(n) /\ s \ {x} \in UpTo(n + 1)
        BY <4>1, <4>2, <1>1 DEF UpTo
      <4>4. h[s \ {x}] = SumStep(f, s \ {x}, h)
        BY <4>3, <2>1
      <4>5. k[s \ {x}] = h[s \ {x}]
        BY <4>3, <4>4, <2>0
      <4> QED BY <4>5 DEF SumStep
    <3> QED BY <3>1, <3>2
  <2>3. IsPart(k, n + 1)
    BY <2>0, <2>2
  <2> QED BY <2>3
<1>5. Cardinality(S) \in Good
  <2> HIDE DEF Good
  <2> QED BY <1>1, <1>3, <1>4, NumberInduction
<1>6. UpTo(Cardinality(S)) = SUBSET S
  BY FS_Subset, FS_CardinalityType
<1> QED BY <1>5, <1>6 DEF IsSum

\* The folds on two sets agree on their common subsets.
LEMMA SumsAgree ==
  ASSUME NEW f, NEW S, NEW T, IsFiniteSet(S), T \subseteq S,
         NEW a, IsSum(a, f, S), NEW b, IsSum(b, f, T)
  PROVE  a[T] = b[T]
<1> DEFINE Good == {s \in SUBSET T : a[s] = b[s]}
<1>1. IsFiniteSet(T)
  BY FS_Subset
<1>2. ASSUME NEW s \in SUBSET T, \A x \in s : s \ {x} \in Good PROVE s \in Good
  <2>1. a[s] = SumStep(f, s, a) /\ b[s] = SumStep(f, s, b)
    BY DEF IsSum
  <2>2. CASE s = {}
    BY <2>1, <2>2 DEF SumStep
  <2>3. CASE s # {}
    <3>1. (CHOOSE x \in s : TRUE) \in s
      BY <2>3
    <3>2. a[s \ {CHOOSE x \in s : TRUE}] = b[s \ {CHOOSE x \in s : TRUE}]
      BY <1>2, <3>1
    <3> QED BY <2>1, <2>3, <3>2 DEF SumStep
  <2> QED BY <2>2, <2>3
<1>3. SUBSET T \subseteq Good
  <2> HIDE DEF Good
  <2> QED BY <1>1, <1>2, SubsetInduction
<1> QED BY <1>3

\* SumOver is what its recursion says.
LEMMA SumRecursion ==
  ASSUME NEW f, NEW S, IsFiniteSet(S)
  PROVE  SumOver(f, S) =
           IF S = {} THEN 0
           ELSE LET x == CHOOSE x \in S : TRUE IN f[x] + SumOver(f, S \ {x})
<1> DEFINE Fold(T) == CHOOSE sum : IsSum(sum, f, T)
<1>1. SumOver(f, S) = Fold(S)[S]
  BY SumIsFold
<1>2. IsSum(Fold(S), f, S)
  BY SumExists
<1>3. Fold(S)[S] = SumStep(f, S, Fold(S))
  <2> HIDE DEF Fold
  <2> QED BY <1>2 DEF IsSum
<1>4. CASE S = {}
  BY <1>1, <1>3, <1>4 DEF SumStep
<1>5. CASE S # {}
  <2> DEFINE x == CHOOSE x \in S : TRUE
             R == S \ {x}
  <2>1. R \subseteq S /\ IsFiniteSet(R)
    BY FS_RemoveElement
  <2>2. IsSum(Fold(R), f, R)
    BY <2>1, SumExists
  <2>3. Fold(S)[R] = Fold(R)[R]
    <3> HIDE DEF Fold, R
    <3> QED BY <1>2, <2>1, <2>2, SumsAgree
  <2>4. SumOver(f, R) = Fold(R)[R]
    BY SumIsFold
  <2>5. SumStep(f, S, Fold(S)) = f[x] + Fold(S)[R]
    BY <1>5 DEF SumStep
  <2> QED BY <1>1, <1>3, <1>5, <2>3, <2>4, <2>5
<1> QED BY <1>4, <1>5

\* The sum of nothing.
LEMMA SumEmpty ==
  ASSUME NEW f
  PROVE  SumOver(f, {}) = 0
BY SumRecursion, FS_EmptySet

\* A sum of integers is an integer.
LEMMA SumInt ==
  ASSUME NEW S, IsFiniteSet(S), NEW f, \A x \in S : f[x] \in Int
  PROVE  SumOver(f, S) \in Int
<1> DEFINE Good == {s \in SUBSET S : SumOver(f, s) \in Int}
<1>1. ASSUME NEW s \in SUBSET S, \A x \in s : s \ {x} \in Good PROVE s \in Good
  <2>1. IsFiniteSet(s)
    BY FS_Subset
  <2>2. CASE s = {}
    BY <2>2, SumEmpty
  <2>3. CASE s # {}
    <3> DEFINE c == CHOOSE x \in s : TRUE
    <3>1. c \in s
      BY <2>3
    <3>2. SumOver(f, s) = f[c] + SumOver(f, s \ {c})
      BY <2>1, <2>3, SumRecursion
    <3>3. SumOver(f, s \ {c}) \in Int
      BY <1>1, <3>1
    <3> QED BY <3>1, <3>2, <3>3
  <2> QED BY <2>2, <2>3
<1>2. SUBSET S \subseteq Good
  <2> HIDE DEF Good
  <2> QED BY <1>1, SubsetInduction
<1> QED BY <1>2

\* Any element may be taken out first: the order of the fold does not matter.
LEMMA SumWithout ==
  ASSUME NEW S, IsFiniteSet(S), NEW f, \A x \in S : f[x] \in Int, NEW e \in S
  PROVE  SumOver(f, S) = f[e] + SumOver(f, S \ {e})
<1> DEFINE Good == {s \in SUBSET S : \A x \in s : SumOver(f, s) = f[x] + SumOver(f, s \ {x})}
<1>1. ASSUME NEW s \in SUBSET S, \A x \in s : s \ {x} \in Good PROVE s \in Good
  <2>1. SUFFICES ASSUME NEW x \in s PROVE SumOver(f, s) = f[x] + SumOver(f, s \ {x})
    OBVIOUS
  <2> DEFINE c == CHOOSE y \in s : TRUE
             r == s \ {x, c}
  <2>2. c \in s /\ s # {}
    OBVIOUS
  <2>3. IsFiniteSet(s) /\ IsFiniteSet(r) /\ r \subseteq S
    BY FS_Subset
  <2>4. SumOver(f, s) = f[c] + SumOver(f, s \ {c})
    BY <2>2, <2>3, SumRecursion
  <2> HIDE DEF c
  <2>5. CASE c = x
    BY <2>4, <2>5
  <2>6. CASE c # x
    <3>1. x \in s \ {c} /\ c \in s \ {x} /\ (s \ {c}) \ {x} = r /\ (s \ {x}) \ {c} = r
      BY <2>2, <2>6
    <3>2. SumOver(f, s \ {c}) = f[x] + SumOver(f, r)
      BY <1>1, <2>2, <3>1
    <3>3. SumOver(f, s \ {x}) = f[c] + SumOver(f, r)
      BY <1>1, <3>1
    <3>4. SumOver(f, r) \in Int
      BY <2>3, SumInt
    <3>5. f[x] \in Int /\ f[c] \in Int
      BY <2>2
    <3> QED BY <2>4, <3>2, <3>3, <3>4, <3>5
  <2> QED BY <2>5, <2>6
<1>2. SUBSET S \subseteq Good
  <2> HIDE DEF Good
  <2> QED BY <1>1, SubsetInduction
<1> QED BY <1>2

\* Sums add up term by term.
LEMMA SumAdd ==
  ASSUME NEW S, IsFiniteSet(S), NEW f, NEW g, NEW h,
         \A x \in S : f[x] \in Int /\ g[x] \in Int /\ h[x] = f[x] + g[x]
  PROVE  SumOver(h, S) = SumOver(f, S) + SumOver(g, S)
<1> DEFINE Good == {s \in SUBSET S : SumOver(h, s) = SumOver(f, s) + SumOver(g, s)}
<1>1. ASSUME NEW s \in SUBSET S, \A x \in s : s \ {x} \in Good PROVE s \in Good
  <2>1. IsFiniteSet(s)
    BY FS_Subset
  <2>2. CASE s = {}
    BY <2>2, SumEmpty
  <2>3. CASE s # {}
    <3>1. PICK x \in s : TRUE
      BY <2>3
    <3> DEFINE r == s \ {x}
    <3>2. IsFiniteSet(r) /\ r \in SUBSET S
      BY <2>1, FS_RemoveElement
    <3>3. \A y \in s : f[y] \in Int /\ g[y] \in Int /\ h[y] \in Int
      OBVIOUS
    <3>4. SumOver(f, s) = f[x] + SumOver(f, r)
      BY <2>1, <3>3, SumWithout
    <3>5. SumOver(g, s) = g[x] + SumOver(g, r)
      BY <2>1, <3>3, SumWithout
    <3>6. SumOver(h, s) = h[x] + SumOver(h, r)
      BY <2>1, <3>3, SumWithout
    <3>7. SumOver(f, r) \in Int /\ SumOver(g, r) \in Int
      BY <3>2, <3>3, SumInt
    <3>8. SumOver(h, r) = SumOver(f, r) + SumOver(g, r)
      BY <1>1
    <3>9. h[x] = f[x] + g[x] /\ f[x] \in Int /\ g[x] \in Int
      OBVIOUS
    <3> HIDE DEF r
    <3> QED BY <3>4, <3>5, <3>6, <3>7, <3>8, <3>9
  <2> QED BY <2>2, <2>3
<1>2. SUBSET S \subseteq Good
  <2> HIDE DEF Good
  <2> QED BY <1>1, SubsetInduction
<1> QED BY <1>2

\* The only number that is twice itself.
LEMMA TwiceItself == \A n \in Int : n = n + n => n = 0
  OBVIOUS

\* Equal terms, equal sums.
LEMMA SumSame ==
  ASSUME NEW S, IsFiniteSet(S), NEW f, NEW g,
         \A x \in S : f[x] \in Int /\ f[x] = g[x]
  PROVE  SumOver(f, S) = SumOver(g, S)
<1> DEFINE z == [x \in S |-> 0]
<1>1. \A x \in S : z[x] \in Int /\ g[x] = f[x] + z[x] /\ z[x] = z[x] + z[x]
  OBVIOUS
<1>2. SumOver(z, S) = SumOver(z, S) + SumOver(z, S) /\ SumOver(z, S) \in Int
  <2> HIDE DEF z
  <2> QED BY <1>1, SumAdd, SumInt
<1>3. SumOver(g, S) = SumOver(f, S) + SumOver(z, S)
  <2> HIDE DEF z
  <2> QED BY <1>1, SumAdd
<1>4. SumOver(f, S) \in Int
  BY SumInt
<1>6. SumOver(z, S) = 0
  <2> HIDE DEF z
  <2> QED BY <1>2, TwiceItself
<1>7. SumOver(f, S) + 0 = SumOver(f, S)
  BY <1>4
<1> HIDE DEF z
<1> QED BY <1>3, <1>6, <1>7

\* A sum of zeros.
LEMMA SumZero ==
  ASSUME NEW S, IsFiniteSet(S), NEW f, \A x \in S : f[x] = 0
  PROVE  SumOver(f, S) = 0
<1>1. \A x \in S : f[x] \in Int /\ f[x] = f[x] + f[x]
  OBVIOUS
<1>2. SumOver(f, S) = SumOver(f, S) + SumOver(f, S) /\ SumOver(f, S) \in Int
  BY <1>1, SumAdd, SumInt
<1>3. \A n \in Int : n = n + n => n = 0
  OBVIOUS
<1> QED BY <1>2, <1>3

\* One term changes, the sum changes as much.
LEMMA SumChange ==
  ASSUME NEW S, IsFiniteSet(S), NEW f, NEW g, NEW e \in S,
         \A x \in S : f[x] \in Int, \A x \in S : g[x] \in Int,
         \A x \in S \ {e} : f[x] = g[x]
  PROVE  SumOver(g, S) = SumOver(f, S) - f[e] + g[e]
<1> DEFINE r == S \ {e}
<1>1. IsFiniteSet(r)
  BY FS_RemoveElement
<1>2. SumOver(f, S) = f[e] + SumOver(f, r) /\ SumOver(g, S) = g[e] + SumOver(g, r)
  BY SumWithout
<1>3. SumOver(f, r) = SumOver(g, r)
  BY <1>1, SumSame
<1>4. SumOver(f, r) \in Int
  BY <1>1, SumInt
<1>5. f[e] \in Int /\ g[e] \in Int
  OBVIOUS
<1> HIDE DEF r
<1> QED BY <1>2, <1>3, <1>4, <1>5

\* One more term.
LEMMA SumMore ==
  ASSUME NEW S, IsFiniteSet(S), NEW f, NEW e, e \notin S,
         \A x \in S \cup {e} : f[x] \in Int
  PROVE  SumOver(f, S \cup {e}) = SumOver(f, S) + f[e]
<1>1. IsFiniteSet(S \cup {e}) /\ (S \cup {e}) \ {e} = S
  BY FS_AddElement
<1>2. SumOver(f, S \cup {e}) = f[e] + SumOver(f, S)
  BY <1>1, SumWithout
<1>3. SumOver(f, S) \in Int /\ f[e] \in Int
  BY SumInt
<1> QED BY <1>2, <1>3

-----------------------------------------------------------------------------
(* The invariant.                                                          *)

\* What a lot offers was neither refunded nor expired; a payment that has not
\* come in offers nothing.
LotOK(lots, l) ==
  /\ lots[l].remaining <= Positive(Amount[l] - lots[l].expired - lots[l].refunded)
  /\ ~ lots[l].granted => lots[l].remaining = 0 /\ lots[l].expired = 0

LotsOK(lots) ==
  /\ lots \in [Lots -> LotType]
  /\ \A l \in Lots : LotOK(lots, l)

\* PeriodsNeverOverlap of any rows.
Apart(lots) ==
  \A l, m \in Lots :
    /\ lots[l].granted /\ lots[m].granted
    /\ Group[l] = Group[m] /\ Group[l] # NoGroup
    /\ lots[l].start < lots[m].start
    => lots[l].expires <= lots[m].start

\* EveryCreditAccounted of any rows.
Granted(lots) == [l \in Lots |-> IF lots[l].granted THEN Amount[l] ELSE 0]
TakenBack(lots, deb) == [l \in Lots |-> lots[l].expired + deb[l]]
Held(rows) == [o \in Ops |-> IF rows[o].state = "held" THEN rows[o].amount ELSE 0]

Books(bal, lots, other, held, charged, deb) ==
  bal = Opening + Total(Granted(lots)) + other - held - charged
          - Total(TakenBack(lots, deb))

HistoryTypeOK == spentTotal \in Nat /\ debited \in [Lots -> Nat]

\* Nothing is drawn on a payment that has not come in.
DrawnOnGranted == \A o \in Ops, l \in Lots : ~ lot[l].granted => alloc[o][l] = 0

IInv ==
  /\ TypeOK /\ HistoryTypeOK
  /\ LotsOK(lot) /\ DrawnOnGranted
  /\ PeriodsNeverOverlap
  /\ EveryCreditAccounted

-----------------------------------------------------------------------------
(* What the operators do to the rows.                                      *)

\* min and max(0, ...) of the code.
LEMMA LeastPositive ==
  /\ \A a, b \in Nat : /\ Least(a, b) \in Nat
                       /\ Least(a, b) <= a /\ Least(a, b) <= b
                       /\ Least(a, b) = a \/ Least(a, b) = b
  /\ \A a \in Int : /\ Positive(a) \in Nat
                    /\ a >= 0 => Positive(a) = a
                    /\ a <= 0 => Positive(a) = 0
BY DEF Least, Positive

\* A sum over the lots, or over the operations, of numbers is a number.
LEMMA TotalInt ==
  ASSUME NEW f, \A l \in Lots : f[l] \in Int
  PROVE  Total(f) \in Int
BY LedgerAssumption, SumInt DEF Total

\* Total adds up term by term.
LEMMA TotalAdd ==
  ASSUME NEW f, NEW g, NEW h,
         \A l \in Lots : f[l] \in Int /\ g[l] \in Int /\ h[l] = f[l] + g[l]
  PROVE  Total(h) = Total(f) + Total(g)
BY LedgerAssumption, SumAdd DEF Total

\* One lot changes, the total changes as much.
LEMMA TotalChange ==
  ASSUME NEW f, NEW g, NEW e \in Lots,
         \A l \in Lots : /\ f[l] \in Int /\ g[l] \in Int
                         /\ l # e => g[l] = f[l]
  PROVE  Total(g) = Total(f) - f[e] + g[e]
<1>1. (\A x \in Lots : f[x] \in Int) /\ (\A x \in Lots : g[x] \in Int)
  OBVIOUS
<1>2. \A x \in Lots \ {e} : f[x] = g[x]
  OBVIOUS
<1>3. IsFiniteSet(Lots)
  BY LedgerAssumption
<1>4. SumOver(g, Lots) = SumOver(f, Lots) - f[e] + g[e]
  BY <1>1, <1>2, <1>3, SumChange
<1> QED BY <1>4 DEF Total

\* Rows of which every lot is granted and expired alike make the same books.
LEMMA SameBooks ==
  ASSUME NEW lots \in [Lots -> LotType], NEW rows \in [Lots -> LotType],
         NEW deb \in [Lots -> Nat],
         \A l \in Lots : /\ rows[l].granted = lots[l].granted
                         /\ rows[l].expired = lots[l].expired
  PROVE  /\ Total(Granted(rows)) = Total(Granted(lots))
         /\ Total(TakenBack(rows, deb)) = Total(TakenBack(lots, deb))
<1>1. Granted(rows) = Granted(lots)
  BY DEF Granted
<1>2. TakenBack(rows, deb) = TakenBack(lots, deb)
  BY DEF TakenBack
<1> QED BY <1>1, <1>2

\* The numbers in the books are numbers.
LEMMA BooksInt ==
  ASSUME NEW lots \in [Lots -> LotType], NEW deb \in [Lots -> Nat]
  PROVE  Total(Granted(lots)) \in Int /\ Total(TakenBack(lots, deb)) \in Int
<1>1. \A l \in Lots : Granted(lots)[l] \in Int
  BY LedgerAssumption DEF Granted
<1>2. \A l \in Lots : TakenBack(lots, deb)[l] \in Int
  BY DEF TakenBack, LotType
<1> QED BY <1>1, <1>2, TotalInt

\* The sweep: what was left of an expired lot is expired, the rest stays.
LEMMA ExpireRows ==
  ASSUME clock \in Nat, NEW lots \in [Lots -> LotType]
  PROVE  /\ Expire(lots) \in [Lots -> LotType]
         /\ \A l \in Lots :
              /\ Expire(lots)[l].granted = lots[l].granted
              /\ Expire(lots)[l].refunded = lots[l].refunded
              /\ Expire(lots)[l].expires = lots[l].expires
              /\ Expire(lots)[l].start = lots[l].start
              /\ lots[l].expires <= clock =>
                   /\ Expire(lots)[l].remaining = 0
                   /\ Expire(lots)[l].expired = lots[l].expired + lots[l].remaining
              /\ lots[l].expires > clock => Expire(lots)[l] = lots[l]
<1>1. ASSUME NEW l \in Lots
      PROVE  /\ Expire(lots)[l] \in LotType
             /\ Expire(lots)[l].granted = lots[l].granted
             /\ Expire(lots)[l].refunded = lots[l].refunded
             /\ Expire(lots)[l].expires = lots[l].expires
             /\ Expire(lots)[l].start = lots[l].start
             /\ lots[l].expires <= clock =>
                  /\ Expire(lots)[l].remaining = 0
                  /\ Expire(lots)[l].expired = lots[l].expired + lots[l].remaining
             /\ lots[l].expires > clock => Expire(lots)[l] = lots[l]
  <2>1. lots[l] \in LotType
    OBVIOUS
  <2>2. CASE lots[l].expires <= clock
    <3>1. Expire(lots)[l] = [lots[l] EXCEPT !.expired = @ + lots[l].remaining, !.remaining = 0]
      BY <2>2 DEF Expire
    <3>2. lots[l].expired + lots[l].remaining \in Nat
      BY <2>1 DEF LotType
    <3>3. Expire(lots)[l] \in LotType
      <4>1. \A n \in Nat : [lots[l] EXCEPT !.expired = n, !.remaining = 0] \in LotType
        BY <2>1 DEF LotType
      <4> QED BY <3>1, <3>2, <4>1
    <3>4. /\ Expire(lots)[l].granted = lots[l].granted
          /\ Expire(lots)[l].refunded = lots[l].refunded
          /\ Expire(lots)[l].expires = lots[l].expires
          /\ Expire(lots)[l].start = lots[l].start
          /\ Expire(lots)[l].remaining = 0
          /\ Expire(lots)[l].expired = lots[l].expired + lots[l].remaining
      BY <2>1, <3>1 DEF LotType
    <3>5. ~ (lots[l].expires > clock)
      BY <2>1, <2>2 DEF LotType
    <3> QED BY <3>3, <3>4, <3>5
  <2>3. CASE ~ (lots[l].expires <= clock)
    <3>1. Expire(lots)[l] = lots[l]
      BY <2>3 DEF Expire
    <3> QED BY <2>1, <2>3, <3>1 DEF LotType
  <2> QED BY <2>2, <2>3
<1>2. Expire(lots) \in [Lots -> LotType]
  <2>1. Expire(lots) = [l \in Lots |-> Expire(lots)[l]]
    BY DEF Expire
  <2> QED BY <1>1, <2>1
<1> QED BY <1>1, <1>2

\* The sweep keeps lots sound and periods apart.
LEMMA ExpireKeeps ==
  ASSUME clock \in Nat, NEW lots, LotsOK(lots)
  PROVE  /\ LotsOK(Expire(lots))
         /\ Apart(lots) => Apart(Expire(lots))
<1>1. lots \in [Lots -> LotType]
  BY DEF LotsOK
<1>2. ASSUME NEW l \in Lots PROVE LotOK(Expire(lots), l)
  <2>1. LotOK(lots, l) /\ lots[l] \in LotType
    BY <1>1 DEF LotsOK
  <2>2. CASE lots[l].expires <= clock
    <3>1. /\ Expire(lots)[l].remaining = 0
          /\ Expire(lots)[l].expired = lots[l].expired + lots[l].remaining
          /\ Expire(lots)[l].granted = lots[l].granted
          /\ Expire(lots)[l] \in LotType
      BY <1>1, <2>2, ExpireRows
    <3>2. Positive(Amount[l] - Expire(lots)[l].expired - Expire(lots)[l].refunded) \in Nat
      BY <3>1, LeastPositive, LedgerAssumption DEF LotType
    <3>3. ~ lots[l].granted => Expire(lots)[l].expired = 0
      BY <2>1, <3>1 DEF LotOK
    <3> QED BY <3>1, <3>2, <3>3 DEF LotOK
  <2>3. CASE ~ (lots[l].expires <= clock)
    <3>1. Expire(lots)[l] = lots[l]
      BY <1>1, <2>1, <2>3, ExpireRows DEF LotType
    <3> QED BY <2>1, <3>1 DEF LotOK
  <2> QED BY <2>2, <2>3
<1>3. Expire(lots) \in [Lots -> LotType]
  BY <1>1, ExpireRows
<1>4. ASSUME Apart(lots) PROVE Apart(Expire(lots))
  BY <1>1, <1>4, ExpireRows DEF Apart
<1> QED BY <1>2, <1>3, <1>4 DEF LotsOK

\* ... and the books: what the sweep takes from the balance has expired.
LEMMA ExpireBooks ==
  ASSUME clock \in Nat, NEW lots \in [Lots -> LotType], NEW deb \in [Lots -> Nat]
  PROVE  /\ Forfeit(lots) \in Int
         /\ Total(Granted(Expire(lots))) = Total(Granted(lots))
         /\ Total(TakenBack(Expire(lots), deb)) = Total(TakenBack(lots, deb)) + Forfeit(lots)
<1> DEFINE lost == [l \in Lots |-> IF lots[l].expires <= clock THEN lots[l].remaining ELSE 0]
<1>1. Forfeit(lots) = Total(lost)
  BY DEF Forfeit
<1>2. ASSUME NEW l \in Lots
      PROVE  /\ lost[l] \in Int /\ TakenBack(lots, deb)[l] \in Int
             /\ TakenBack(Expire(lots), deb)[l] = TakenBack(lots, deb)[l] + lost[l]
  <2>1. lots[l] \in LotType /\ deb[l] \in Nat
    OBVIOUS
  <2>2. lost[l] = (IF lots[l].expires <= clock THEN lots[l].remaining ELSE 0)
    OBVIOUS
  <2>3. /\ TakenBack(lots, deb)[l] = lots[l].expired + deb[l]
        /\ TakenBack(Expire(lots), deb)[l] = Expire(lots)[l].expired + deb[l]
    BY DEF TakenBack
  <2> HIDE DEF lost
  <2>4. CASE lots[l].expires <= clock
    <3>1. Expire(lots)[l].expired = lots[l].expired + lots[l].remaining
      BY <2>4, ExpireRows
    <3> QED BY <2>1, <2>2, <2>3, <2>4, <3>1 DEF LotType
  <2>5. CASE ~ (lots[l].expires <= clock)
    <3>1. Expire(lots)[l] = lots[l]
      BY <2>1, <2>5, ExpireRows DEF LotType
    <3> QED BY <2>1, <2>2, <2>3, <2>5, <3>1 DEF LotType
  <2> QED BY <2>4, <2>5
<1> HIDE DEF lost
<1>3. Total(lost) \in Int
  BY <1>2, TotalInt
<1>4. Total(TakenBack(Expire(lots), deb)) = Total(TakenBack(lots, deb)) + Total(lost)
  BY <1>2, TotalAdd
<1>5. Granted(Expire(lots)) = Granted(lots)
  BY ExpireRows DEF Granted
<1> QED BY <1>1, <1>3, <1>4, <1>5

\* Drawing credits from the lots: nothing is granted, ended or expired by it.
LEMMA DrawKeeps ==
  ASSUME NEW lots, LotsOK(lots), NEW taken \in [Lots -> Nat], NEW rows,
         \A l \in Lots : taken[l] <= lots[l].remaining,
         rows = [l \in Lots |-> [lots[l] EXCEPT !.remaining = @ - taken[l]]]
  PROVE  /\ LotsOK(rows)
         /\ \A l \in Lots : /\ rows[l].granted = lots[l].granted
                            /\ rows[l].expired = lots[l].expired
                            /\ rows[l].start = lots[l].start
                            /\ rows[l].expires = lots[l].expires
                            /\ rows[l].remaining = lots[l].remaining - taken[l]
<1>1. ASSUME NEW l \in Lots
      PROVE  /\ rows[l] \in LotType /\ LotOK(rows, l)
             /\ rows[l].granted = lots[l].granted
             /\ rows[l].expired = lots[l].expired
             /\ rows[l].start = lots[l].start
             /\ rows[l].expires = lots[l].expires
             /\ rows[l].remaining = lots[l].remaining - taken[l]
  <2>1. lots[l] \in LotType /\ LotOK(lots, l) /\ taken[l] \in Nat /\ taken[l] <= lots[l].remaining
    BY DEF LotsOK
  <2>2. rows[l] = [lots[l] EXCEPT !.remaining = @ - taken[l]]
    OBVIOUS
  <2>3. /\ lots[l].remaining - taken[l] \in Nat
        /\ lots[l].remaining - taken[l] <= lots[l].remaining
        /\ lots[l].remaining = 0 => lots[l].remaining - taken[l] = 0
    BY <2>1 DEF LotType
  <2>4. rows[l] \in LotType
    BY <2>1, <2>2, <2>3 DEF LotType
  <2>5. /\ rows[l].granted = lots[l].granted
        /\ rows[l].expired = lots[l].expired
        /\ rows[l].refunded = lots[l].refunded
        /\ rows[l].start = lots[l].start
        /\ rows[l].expires = lots[l].expires
        /\ rows[l].remaining = lots[l].remaining - taken[l]
    BY <2>1, <2>2 DEF LotType
  <2>6. Positive(Amount[l] - lots[l].expired - lots[l].refunded) \in Nat
    BY <2>1, LeastPositive, LedgerAssumption DEF LotType
  <2>7. rows[l].remaining <= Positive(Amount[l] - rows[l].expired - rows[l].refunded)
    BY <2>1, <2>3, <2>5, <2>6 DEF LotOK, LotType
  <2>8. LotOK(rows, l)
    BY <2>1, <2>3, <2>5, <2>7 DEF LotOK
  <2> QED BY <2>4, <2>5, <2>8
<1>2. rows \in [Lots -> LotType]
  BY <1>1
<1> QED BY <1>1, <1>2 DEF LotsOK

\* What a release returns: at most the part that neither a refund nor expiry
\* has taken, to a swept lot.
LEMMA ReturnKeeps ==
  ASSUME clock \in Nat, alloc \in [Ops -> [Lots -> Nat]], NEW o \in Ops, NEW lots, LotsOK(lots),
         \A l \in Lots : lots[l].expires <= clock => lots[l].remaining = 0,
         \A l \in Lots : ~ lots[l].granted => alloc[o][l] = 0
  PROVE  /\ LotsOK(Return(lots, o))
         /\ \A l \in Lots :
              /\ Unrevoked(lots, o, l) \in Nat
              /\ Return(lots, o)[l].granted = lots[l].granted
              /\ Return(lots, o)[l].start = lots[l].start
              /\ Return(lots, o)[l].expires = lots[l].expires
              /\ lots[l].expires <= clock =>
                   /\ Return(lots, o)[l].expired = lots[l].expired + Unrevoked(lots, o, l)
                   /\ Return(lots, o)[l].remaining = 0
              /\ lots[l].expires > clock =>
                   Return(lots, o)[l].expired = lots[l].expired
<1>1. ASSUME NEW l \in Lots
      PROVE  /\ Return(lots, o)[l] \in LotType /\ LotOK(Return(lots, o), l)
             /\ Unrevoked(lots, o, l) \in Nat
             /\ Return(lots, o)[l].granted = lots[l].granted
             /\ Return(lots, o)[l].start = lots[l].start
             /\ Return(lots, o)[l].expires = lots[l].expires
             /\ lots[l].expires <= clock =>
                  /\ Return(lots, o)[l].expired = lots[l].expired + Unrevoked(lots, o, l)
                  /\ Return(lots, o)[l].remaining = 0
             /\ lots[l].expires > clock =>
                  Return(lots, o)[l].expired = lots[l].expired
  <2> DEFINE u == Unrevoked(lots, o, l)
             free == Amount[l] - lots[l].refunded - lots[l].expired - lots[l].remaining
             room == Amount[l] - lots[l].expired - lots[l].refunded
  <2>1. lots[l] \in LotType /\ LotOK(lots, l) /\ alloc[o][l] \in Nat /\ Amount[l] \in Nat
    BY LedgerAssumption DEF LotsOK
  <2>2. /\ lots[l].remaining \in Nat /\ lots[l].expired \in Nat /\ lots[l].refunded \in Nat
        /\ lots[l].expires \in Nat
    BY <2>1 DEF LotType
  <2>3. free \in Int /\ room \in Int /\ free = room - lots[l].remaining
    BY <2>1, <2>2
  <2>4. u = Least(alloc[o][l], Positive(free))
    BY DEF Unrevoked
  <2> HIDE DEF free
  <2>5. u \in Nat /\ u <= alloc[o][l] /\ u <= Positive(free)
    BY <2>1, <2>3, <2>4, LeastPositive
  <2> HIDE DEF u
  <2>6. lots[l].remaining <= Positive(room)
    BY <2>1 DEF LotOK
  <2> HIDE DEF room
  <2>7. lots[l].remaining + u <= Positive(room) \/ u = 0
    <3>1. CASE free <= 0
      <4>1. Positive(free) = 0
        BY <2>3, <3>1, LeastPositive
      <4> QED BY <2>5, <4>1
    <3>2. CASE ~ (free <= 0)
      <4>1. free >= 0 /\ room >= 0
        BY <2>2, <2>3, <3>2
      <4>2. Positive(free) = free /\ Positive(room) = room
        BY <2>3, <4>1, LeastPositive
      <4> QED BY <2>2, <2>3, <2>5, <4>2
    <3> QED BY <3>1, <3>2
  <2>8. ~ lots[l].granted => u = 0 /\ lots[l].remaining = 0 /\ lots[l].expired = 0
    BY <2>1, <2>5 DEF LotOK
  <2>9. CASE lots[l].expires <= clock
    <3>1. Return(lots, o)[l] = [lots[l] EXCEPT !.expired = @ + u]
      BY <2>9 DEF Return, u
    <3>2. lots[l].remaining = 0
      BY <2>9
    <3>3. lots[l].expired + u \in Nat /\ (u = 0 => lots[l].expired + u = lots[l].expired)
      BY <2>2, <2>5
    <3>4. Return(lots, o)[l] \in LotType
      BY <2>1, <3>1, <3>3 DEF LotType
    <3>5. /\ Return(lots, o)[l].granted = lots[l].granted
          /\ Return(lots, o)[l].refunded = lots[l].refunded
          /\ Return(lots, o)[l].start = lots[l].start
          /\ Return(lots, o)[l].expires = lots[l].expires
          /\ Return(lots, o)[l].remaining = 0
          /\ Return(lots, o)[l].expired = lots[l].expired + u
      BY <2>1, <3>1, <3>2 DEF LotType
    <3>6. Positive(Amount[l] - (lots[l].expired + u) - lots[l].refunded) \in Nat
      BY <2>1, <2>2, <2>5, LeastPositive
    <3>7. LotOK(Return(lots, o), l)
      BY <2>8, <3>3, <3>5, <3>6 DEF LotOK
    <3>8. ~ (lots[l].expires > clock)
      BY <2>2, <2>9
    <3> QED BY <2>5, <3>4, <3>5, <3>7, <3>8 DEF u
  <2>10. CASE ~ (lots[l].expires <= clock)
    <3>1. Return(lots, o)[l] = [lots[l] EXCEPT !.remaining = @ + u]
      BY <2>10 DEF Return, u
    <3>2. lots[l].remaining + u \in Nat /\ (u = 0 => lots[l].remaining + u = lots[l].remaining)
      BY <2>2, <2>5
    <3>3. Return(lots, o)[l] \in LotType
      BY <2>1, <3>1, <3>2 DEF LotType
    <3>4. /\ Return(lots, o)[l].granted = lots[l].granted
          /\ Return(lots, o)[l].refunded = lots[l].refunded
          /\ Return(lots, o)[l].start = lots[l].start
          /\ Return(lots, o)[l].expires = lots[l].expires
          /\ Return(lots, o)[l].remaining = lots[l].remaining + u
          /\ Return(lots, o)[l].expired = lots[l].expired
      BY <2>1, <3>1 DEF LotType
    <3>5. lots[l].remaining + u <= Positive(room)
      BY <2>6, <2>7, <3>2
    <3>6. LotOK(Return(lots, o), l)
      BY <2>8, <3>2, <3>4, <3>5 DEF LotOK, room
    <3> QED BY <2>5, <2>10, <3>3, <3>4, <3>6 DEF u
  <2> QED BY <2>9, <2>10
<1>2. Return(lots, o) \in [Lots -> LotType]
  <2>1. Return(lots, o) = [l \in Lots |-> Return(lots, o)[l]]
    BY DEF Return
  <2> QED BY <1>1, <2>1
<1> QED BY <1>1, <1>2 DEF LotsOK

\* What a release keeps back has expired.
LEMMA ReturnBooks ==
  ASSUME clock \in Nat, alloc \in [Ops -> [Lots -> Nat]], NEW o \in Ops, NEW lots, LotsOK(lots),
         \A l \in Lots : lots[l].expires <= clock => lots[l].remaining = 0,
         \A l \in Lots : ~ lots[l].granted => alloc[o][l] = 0,
         NEW deb \in [Lots -> Nat]
  PROVE  \E kept \in Int :
           /\ Returned(lots, o) = reservation[o].amount - kept
           /\ Total(Granted(Return(lots, o))) = Total(Granted(lots))
           /\ Total(TakenBack(Return(lots, o), deb)) = Total(TakenBack(lots, deb)) + kept
<1> DEFINE late == [l \in Lots |-> IF lots[l].expires <= clock THEN Unrevoked(lots, o, l) ELSE 0]
<1>1. Returned(lots, o) = reservation[o].amount - Total(late)
  BY DEF Returned
<1>2. ASSUME NEW l \in Lots
      PROVE  /\ late[l] \in Int /\ TakenBack(lots, deb)[l] \in Int
             /\ TakenBack(Return(lots, o), deb)[l] = TakenBack(lots, deb)[l] + late[l]
  <2>1. /\ lots[l] \in LotType /\ deb[l] \in Nat
    BY DEF LotsOK
  <2>2. lots[l].expired \in Nat /\ lots[l].expires \in Nat
    BY <2>1 DEF LotType
  <2>3. late[l] = (IF lots[l].expires <= clock THEN Unrevoked(lots, o, l) ELSE 0)
    OBVIOUS
  <2>4. /\ TakenBack(lots, deb)[l] = lots[l].expired + deb[l]
        /\ TakenBack(Return(lots, o), deb)[l] = Return(lots, o)[l].expired + deb[l]
    BY DEF TakenBack
  <2>5. Unrevoked(lots, o, l) \in Nat
    BY ReturnKeeps
  <2> HIDE DEF late
  <2>6. CASE lots[l].expires <= clock
    <3>1. Return(lots, o)[l].expired = lots[l].expired + Unrevoked(lots, o, l)
      BY <2>6, ReturnKeeps
    <3> QED BY <2>1, <2>2, <2>3, <2>4, <2>5, <2>6, <3>1
  <2>7. CASE ~ (lots[l].expires <= clock)
    <3>1. lots[l].expires > clock
      BY <2>2, <2>7
    <3>2. Return(lots, o)[l].expired = lots[l].expired
      BY <3>1, ReturnKeeps
    <3> QED BY <2>1, <2>2, <2>3, <2>4, <2>7, <3>2
  <2> QED BY <2>6, <2>7
<1> HIDE DEF late
<1>3. Total(late) \in Int
  BY <1>2, TotalInt
<1>4. Total(TakenBack(Return(lots, o), deb)) = Total(TakenBack(lots, deb)) + Total(late)
  BY <1>2, TotalAdd
<1>5. Granted(Return(lots, o)) = Granted(lots)
  BY ReturnKeeps DEF Granted
<1> QED BY <1>1, <1>3, <1>4, <1>5

Revoked(lots, e, target) ==
  [lots EXCEPT ![e].remaining = @ - Least(NewDebit(lots, e, target), lots[e].remaining),
               ![e].refunded = target]

\* A refund takes back what expiry has not taken, from what the lot offers.
LEMMA RevokeKeeps ==
  ASSUME NEW lots, LotsOK(lots), NEW e \in Lots, lots[e].granted, NEW target \in Nat,
         target > lots[e].refunded,
         NEW rows, rows = Revoked(lots, e, target)
  PROVE  /\ NewDebit(lots, e, target) \in Nat
         /\ LotsOK(rows)
         /\ \A l \in Lots : /\ rows[l].granted = lots[l].granted
                            /\ rows[l].expired = lots[l].expired
                            /\ rows[l].start = lots[l].start
                            /\ rows[l].expires = lots[l].expires
                            /\ rows[l].remaining <= lots[l].remaining
<1> DEFINE debit == NewDebit(lots, e, target)
           cut == Least(debit, lots[e].remaining)
           whole == Amount[e] - lots[e].expired
           unexpired == Positive(whole)
<1>1. lots \in [Lots -> LotType] /\ lots[e] \in LotType /\ LotOK(lots, e) /\ Amount[e] \in Nat
  BY LedgerAssumption DEF LotsOK
<1>2. lots[e].remaining \in Nat /\ lots[e].expired \in Nat /\ lots[e].refunded \in Nat
  BY <1>1 DEF LotType
<1>3. whole \in Int /\ unexpired \in Nat
  <2>1. whole \in Int
    BY <1>1, <1>2
  <2> HIDE DEF whole
  <2> QED BY <2>1, LeastPositive
<1>4. debit = Positive(Least(target, unexpired) - Least(lots[e].refunded, unexpired))
  BY DEF NewDebit
<1>5. lots[e].remaining <= Positive(whole - lots[e].refunded)
  BY <1>1 DEF LotOK
<1> HIDE DEF whole, debit
<1>6. /\ debit \in Nat /\ cut \in Nat /\ cut <= lots[e].remaining
      /\ lots[e].remaining - cut \in Nat
  <2>1. Least(target, unexpired) - Least(lots[e].refunded, unexpired) \in Int
    BY <1>2, <1>3, LeastPositive
  <2>2. debit \in Nat
    BY <1>4, <2>1, LeastPositive
  <2>3. cut \in Nat /\ cut <= lots[e].remaining
    BY <1>2, <2>2, LeastPositive
  <2> HIDE DEF cut
  <2> QED BY <1>2, <2>2, <2>3
<1>7. lots[e].remaining - cut <= Positive(whole - target)
  BY <1>2, <1>3, <1>4, <1>5 DEF Least, Positive
<1> HIDE DEF cut
<1>8. rows[e] = [lots[e] EXCEPT !.remaining = lots[e].remaining - cut, !.refunded = target]
  BY <1>1 DEF debit, cut, Revoked
<1>9. rows[e] \in LotType
  <2>1. \A n \in Nat : [lots[e] EXCEPT !.remaining = n, !.refunded = target] \in LotType
    BY <1>1 DEF LotType
  <2> QED BY <1>6, <1>8, <2>1
<1>10. /\ rows[e].granted = lots[e].granted
       /\ rows[e].expired = lots[e].expired
       /\ rows[e].start = lots[e].start
       /\ rows[e].expires = lots[e].expires
       /\ rows[e].refunded = target
       /\ rows[e].remaining = lots[e].remaining - cut
  BY ZenonT(40), <1>1, <1>8 DEF LotType
<1>11. LotOK(rows, e)
  BY <1>7, <1>10 DEF LotOK, whole
<1>12. \A l \in Lots : l # e => rows[l] = lots[l]
  BY <1>1 DEF Revoked
<1>13. LotsOK(rows)
  <2>1. rows \in [Lots -> LotType]
    <3>1. rows = [l \in Lots |-> rows[l]]
      BY <1>1 DEF Revoked
    <3> QED BY <1>1, <1>9, <1>12, <3>1
  <2>2. \A l \in Lots : LotOK(lots, l)
    BY DEF LotsOK
  <2>3. \A l \in Lots : l # e => LotOK(rows, l)
    BY <1>12, <2>2 DEF LotOK
  <2> QED BY <1>11, <2>1, <2>3 DEF LotsOK
<1>14. rows[e].remaining <= lots[e].remaining
  BY <1>2, <1>6, <1>10
<1>15. ASSUME NEW l \in Lots
       PROVE  /\ rows[l].granted = lots[l].granted
              /\ rows[l].expired = lots[l].expired
              /\ rows[l].start = lots[l].start
              /\ rows[l].expires = lots[l].expires
              /\ rows[l].remaining <= lots[l].remaining
  <2>1. lots[l].remaining \in Nat
    BY <1>1 DEF LotType
  <2>2. CASE l = e
    BY <1>10, <1>14, <2>2
  <2>3. CASE l # e
    <3>1. rows[l] = lots[l]
      BY <1>12, <2>3
    <3>2. lots[l].remaining <= lots[l].remaining
      BY <2>1
    <3> QED BY <3>1, <3>2
  <2> QED BY <2>2, <2>3
<1> QED BY <1>6, <1>13, <1>15 DEF debit

\* Periods that end sooner.
LEMMA ShortenKeeps ==
  ASSUME NEW lots, LotsOK(lots), NEW rows, NEW end \in Nat,
         rows = [l \in Lots |-> rows[l]],
         \A l \in Lots :
           \/ rows[l] = lots[l]
           \/ rows[l] = [lots[l] EXCEPT !.expires = end] /\ lots[l].expires > end
  PROVE  /\ LotsOK(rows)
         /\ \A l \in Lots : /\ rows[l].granted = lots[l].granted
                            /\ rows[l].remaining = lots[l].remaining
                            /\ rows[l].expired = lots[l].expired
                            /\ rows[l].start = lots[l].start
                            /\ rows[l].expires <= lots[l].expires
         /\ Apart(lots) => Apart(rows)
<1>1. ASSUME NEW l \in Lots
      PROVE  /\ rows[l] \in LotType /\ LotOK(rows, l)
             /\ rows[l].granted = lots[l].granted
             /\ rows[l].remaining = lots[l].remaining
             /\ rows[l].expired = lots[l].expired
             /\ rows[l].start = lots[l].start
             /\ rows[l].expires <= lots[l].expires
  <2>1. lots[l] \in LotType /\ LotOK(lots, l)
    BY DEF LotsOK
  <2>2. CASE rows[l] = lots[l]
    BY <2>1, <2>2 DEF LotOK, LotType
  <2>3. CASE rows[l] = [lots[l] EXCEPT !.expires = end] /\ lots[l].expires > end
    <3>1. rows[l] \in LotType
      BY <2>1, <2>3 DEF LotType
    <3>2. /\ rows[l].granted = lots[l].granted
          /\ rows[l].remaining = lots[l].remaining
          /\ rows[l].expired = lots[l].expired
          /\ rows[l].refunded = lots[l].refunded
          /\ rows[l].start = lots[l].start
          /\ rows[l].expires = end
      BY <2>1, <2>3 DEF LotType
    <3>3. end <= lots[l].expires
      BY <2>1, <2>3 DEF LotType
    <3>4. LotOK(rows, l)
      BY <2>1, <3>2 DEF LotOK
    <3> QED BY <3>1, <3>2, <3>3, <3>4
  <2> QED BY <2>2, <2>3
<1>2. LotsOK(rows)
  <2>1. rows \in [Lots -> LotType]
    BY <1>1
  <2> QED BY <1>1, <2>1 DEF LotsOK
<1>3. ASSUME Apart(lots) PROVE Apart(rows)
  <2>1. SUFFICES ASSUME NEW l \in Lots, NEW m \in Lots,
                        rows[l].granted, rows[m].granted,
                        Group[l] = Group[m], Group[l] # NoGroup,
                        rows[l].start < rows[m].start
                 PROVE  rows[l].expires <= rows[m].start
    BY DEF Apart
  <2>2. lots[l].expires <= lots[m].start
    BY <1>1, <1>3, <2>1 DEF Apart
  <2>3. /\ rows[l].expires \in Nat /\ rows[m].start \in Nat /\ lots[l].expires \in Nat
        /\ rows[l].expires <= lots[l].expires /\ rows[m].start = lots[m].start
    BY <1>1, <2>1 DEF LotType, LotsOK
  <2> QED BY <2>2, <2>3
<1> QED BY <1>1, <1>2, <1>3

Added(lots, e, start, end) ==
  [EndEarlier(lots, e, start) EXCEPT
    ![e] = [NoLot EXCEPT !.granted = TRUE, !.remaining = Amount[e],
                         !.expires = end, !.start = start]]

\* A payment's period ends the earlier ones of its subscription and itself
\* where a later one begins.
LEMMA GrantKeeps ==
  ASSUME NEW lots, LotsOK(lots), Apart(lots),
         NEW e \in Lots, ~ lots[e].granted, NEW start \in Nat, NEW expires \in Nat,
         NEW end \in Ends(lots, e, start, expires),
         \A x \in Ends(lots, e, start, expires) : end <= x,
         NEW rows, rows = Added(lots, e, start, end)
  PROVE  /\ LotsOK(rows) /\ Apart(rows)
         /\ rows[e].granted /\ rows[e].expired = 0
         /\ \A l \in Lots : l # e =>
              /\ rows[l].granted = lots[l].granted
              /\ rows[l].remaining = lots[l].remaining
              /\ rows[l].expired = lots[l].expired
              /\ rows[l].expires <= lots[l].expires
<1> DEFINE early == EndEarlier(lots, e, start)
           new == [NoLot EXCEPT !.granted = TRUE, !.remaining = Amount[e],
                                !.expires = end, !.start = start]
<1>1. lots \in [Lots -> LotType] /\ \A l \in Lots : LotOK(lots, l)
  BY DEF LotsOK
<1>2. early = [l \in Lots |-> early[l]]
  BY DEF EndEarlier
<1>3. \A l \in Lots : \/ early[l] = lots[l]
                      \/ early[l] = [lots[l] EXCEPT !.expires = start] /\ lots[l].expires > start
  BY DEF EndEarlier
<1>4. ASSUME NEW l \in Lots, l # e, lots[l].granted, Group[l] = Group[e], Group[l] # NoGroup,
             lots[l].start < start
      PROVE  early[l].expires <= start
  <2>1. lots[l] \in LotType
    BY <1>1
  <2>2. CASE lots[l].expires > start
    <3>1. early[l] = [lots[l] EXCEPT !.expires = start]
      BY <1>4, <2>2 DEF EndEarlier
    <3> QED BY <2>1, <3>1 DEF LotType
  <2>3. CASE ~ (lots[l].expires > start)
    <3>1. early[l] = lots[l]
      BY <1>4, <2>3 DEF EndEarlier
    <3> QED BY <2>1, <2>3, <3>1 DEF LotType
  <2> QED BY <2>2, <2>3
<1>5. /\ LotsOK(early) /\ Apart(early)
      /\ \A l \in Lots : /\ early[l].granted = lots[l].granted
                         /\ early[l].remaining = lots[l].remaining
                         /\ early[l].expired = lots[l].expired
                         /\ early[l].start = lots[l].start
                         /\ early[l].expires <= lots[l].expires
  <2> HIDE DEF early
  <2> QED BY <1>2, <1>3, ShortenKeeps
<1>6. early \in [Lots -> LotType] /\ \A l \in Lots : LotOK(early, l)
  BY <1>5 DEF LotsOK
<1>7. end \in Nat
  BY <1>1 DEF Ends, LotType
<1>8. /\ new \in LotType
      /\ new.granted = TRUE /\ new.remaining = Amount[e] /\ new.expired = 0
      /\ new.refunded = 0 /\ new.expires = end /\ new.start = start
  <2>1. NoLot \in LotType /\ NoLot.expired = 0 /\ NoLot.refunded = 0
    BY LedgerAssumption DEF NoLot, LotType
  <2>2. Amount[e] \in Nat
    BY LedgerAssumption
  <2> QED BY <1>7, <2>1, <2>2 DEF LotType
<1> HIDE DEF early, new
<1>9. rows = [early EXCEPT ![e] = new]
  BY DEF early, new, Added
<1>10. rows[e] = new /\ (\A l \in Lots : l # e => rows[l] = early[l]) /\ rows \in [Lots -> LotType]
  BY <1>6, <1>8, <1>9
<1>11. LotOK(rows, e)
  <2>1. Amount[e] \in Nat /\ Amount[e] - 0 - 0 = Amount[e] /\ Amount[e] <= Amount[e]
    BY LedgerAssumption
  <2>2. Positive(Amount[e]) = Amount[e]
    BY SMTT(40), <2>1, LeastPositive
  <2>3. /\ rows[e].granted = TRUE /\ rows[e].remaining = Amount[e]
        /\ rows[e].expired = 0 /\ rows[e].refunded = 0
    BY <1>8, <1>10
  <2>4. rows[e].remaining <= Positive(Amount[e] - rows[e].expired - rows[e].refunded)
    BY <2>1, <2>2, <2>3
  <2> QED BY <2>3, <2>4 DEF LotOK
<1>12. LotsOK(rows)
  <2>1. \A l \in Lots : l # e => LotOK(rows, l)
    BY <1>6, <1>10 DEF LotOK
  <2> QED BY <1>10, <1>11, <2>1 DEF LotsOK
<1>13. Apart(rows)
  <2>1. SUFFICES ASSUME NEW l \in Lots, NEW m \in Lots,
                        rows[l].granted, rows[m].granted,
                        Group[l] = Group[m], Group[l] # NoGroup,
                        rows[l].start < rows[m].start
                 PROVE  rows[l].expires <= rows[m].start
    BY DEF Apart
  <2>2. CASE l # e /\ m # e
    BY <1>5, <1>10, <2>1, <2>2 DEF Apart
  <2>3. CASE l = e /\ m # e
    <3>1. /\ rows[l].expires = end /\ rows[l].start = start
          /\ rows[m].granted = lots[m].granted /\ rows[m].start = lots[m].start
      BY <1>5, <1>8, <1>10, <2>3
    <3>2. lots[m].start > start
      BY <1>1, <2>1, <3>1 DEF LotType
    <3>3. lots[m].start \in Ends(lots, e, start, expires)
      BY <2>1, <2>3, <3>1, <3>2 DEF Ends
    <3> QED BY <3>1, <3>3
  <2>4. CASE l # e /\ m = e
    <3>1. /\ rows[m].start = start /\ rows[l] = early[l]
          /\ early[l].granted = lots[l].granted /\ early[l].start = lots[l].start
      BY <1>5, <1>8, <1>10, <2>4
    <3> QED BY <1>4, <2>1, <2>4, <3>1
  <2>5. CASE l = m
    BY <1>10, <2>1, <2>5 DEF LotType
  <2> QED BY <2>2, <2>3, <2>4, <2>5
<1>14. rows[e].granted /\ rows[e].expired = 0
  BY <1>8, <1>10
<1> QED BY <1>5, <1>10, <1>12, <1>13, <1>14

\* ... and the books gain its credits.
LEMMA GrantBooks ==
  ASSUME NEW lots \in [Lots -> LotType], NEW rows \in [Lots -> LotType], NEW e \in Lots,
         ~ lots[e].granted, lots[e].expired = 0, rows[e].granted, rows[e].expired = 0,
         \A l \in Lots : l # e => /\ rows[l].granted = lots[l].granted
                                  /\ rows[l].expired = lots[l].expired,
         NEW deb \in [Lots -> Nat]
  PROVE  /\ Total(Granted(rows)) = Total(Granted(lots)) + Amount[e]
         /\ Total(TakenBack(rows, deb)) = Total(TakenBack(lots, deb))
<1>1. TakenBack(rows, deb) = TakenBack(lots, deb)
  BY DEF TakenBack
<1>2. \A l \in Lots : /\ Granted(lots)[l] \in Int /\ Granted(rows)[l] \in Int
                      /\ l # e => Granted(rows)[l] = Granted(lots)[l]
  BY LedgerAssumption DEF Granted
<1>3. Granted(lots)[e] = 0 /\ Granted(rows)[e] = Amount[e]
  BY DEF Granted
<1>4. Total(Granted(rows)) = Total(Granted(lots)) - Granted(lots)[e] + Granted(rows)[e]
  BY <1>2, TotalChange
<1>5. Total(Granted(lots)) \in Int /\ Amount[e] \in Int
  BY <1>2, TotalInt, LedgerAssumption
<1> QED BY <1>1, <1>3, <1>4, <1>5

\* A refund's debit is on the books.
LEMMA DebitBooks ==
  ASSUME NEW lots \in [Lots -> LotType], NEW deb \in [Lots -> Nat], NEW e \in Lots, NEW n \in Nat
  PROVE  Total(TakenBack(lots, [deb EXCEPT ![e] = @ + n])) = Total(TakenBack(lots, deb)) + n
<1> DEFINE more == [deb EXCEPT ![e] = @ + n]
           f == TakenBack(lots, deb)
           g == TakenBack(lots, more)
<1>1. \A l \in Lots : lots[l].expired \in Nat /\ deb[l] \in Nat
  BY DEF LotType
<1>2. /\ more[e] = deb[e] + n /\ \A l \in Lots : l # e => more[l] = deb[l]
  OBVIOUS
<1> HIDE DEF more
<1>3. \A l \in Lots : f[l] = lots[l].expired + deb[l] /\ g[l] = lots[l].expired + more[l]
  BY DEF TakenBack
<1> HIDE DEF f, g
<1>4. \A l \in Lots : f[l] \in Int /\ (l # e => g[l] = f[l])
  BY <1>1, <1>2, <1>3
<1>5. g[e] = f[e] + n /\ g[e] \in Int
  BY <1>1, <1>2, <1>3
<1>6. \A l \in Lots : f[l] \in Int /\ g[l] \in Int
  BY <1>4, <1>5
<1>7. Total(g) = Total(f) - f[e] + g[e]
  BY <1>4, <1>6, TotalChange
<1>8. Total(f) \in Int
  BY <1>6, TotalInt
<1>9. Total(g) = Total(f) + n
  BY <1>4, <1>5, <1>7, <1>8
<1> QED BY <1>9 DEF f, g, more

\* What a reservation holds, and no longer holds.
LEMMA HoldBooks ==
  ASSUME NEW rows \in [Ops -> [state : States, amount : Nat, attempt : Nat]], NEW o \in Ops,
         NEW row \in [state : States, amount : Nat, attempt : Nat]
  PROVE  /\ SumOver(Held(rows), Ops) \in Int
         /\ SumOver(Held([rows EXCEPT ![o] = row]), Ops) =
              SumOver(Held(rows), Ops)
                - (IF rows[o].state = "held" THEN rows[o].amount ELSE 0)
                + (IF row.state = "held" THEN row.amount ELSE 0)
<1> DEFINE after == [rows EXCEPT ![o] = row]
<1>1. /\ \A p \in Ops : Held(rows)[p] \in Int
      /\ \A p \in Ops : Held(after)[p] \in Int
      /\ \A p \in Ops \ {o} : Held(rows)[p] = Held(after)[p]
  BY DEF Held
<1>2. /\ Held(rows)[o] = (IF rows[o].state = "held" THEN rows[o].amount ELSE 0)
      /\ Held(after)[o] = (IF row.state = "held" THEN row.amount ELSE 0)
  BY DEF Held
<1> HIDE DEF after
<1>3. SumOver(Held(after), Ops) = SumOver(Held(rows), Ops) - Held(rows)[o] + Held(after)[o]
  BY <1>1, SumChange, LedgerAssumption
<1>4. SumOver(Held(rows), Ops) \in Int
  BY <1>1, SumInt, LedgerAssumption
<1> QED BY <1>2, <1>3, <1>4 DEF after

-----------------------------------------------------------------------------
(* The invariant holds.                                                    *)

\* The parts of the invariant as facts about the rows.
Sound(now, bal, lots, rec, rows, drawn, charged, deb) ==
  /\ now \in Nat /\ LotsOK(lots) /\ Apart(lots)
  /\ rec \subseteq References
  /\ rows \in [Ops -> [state : States, amount : Nat, attempt : Nat]]
  /\ drawn \in [Ops -> [Lots -> Nat]]
  /\ charged \in Nat /\ deb \in [Lots -> Nat]
  /\ \A o \in Ops, l \in Lots : ~ lots[l].granted => drawn[o][l] = 0
  /\ Books(bal, lots, SumOver(Bonus, rec), SumOver(Held(rows), Ops), charged, deb)

\* What is held is a number.
LEMMA HeldInt ==
  ASSUME NEW rows \in [Ops -> [state : States, amount : Nat, attempt : Nat]]
  PROVE  SumOver(Held(rows), Ops) \in Int
<1>1. \A o \in Ops : Held(rows)[o] \in Int
  BY DEF Held
<1> QED BY <1>1, SumInt, LedgerAssumption

\* So is what else was granted.
LEMMA BonusInt ==
  ASSUME NEW rec, rec \subseteq References
  PROVE  IsFiniteSet(rec) /\ SumOver(Bonus, rec) \in Int
<1>1. IsFiniteSet(rec)
  BY FS_Subset, LedgerAssumption
<1>2. \A r \in rec : Bonus[r] \in Int
  BY LedgerAssumption
<1> QED BY <1>1, <1>2, SumInt

\* The numbers of sound books.
LEMMA SoundBooks ==
  ASSUME NEW now, NEW bal, NEW lots, NEW rec, NEW rows, NEW drawn, NEW charged, NEW deb,
         Sound(now, bal, lots, rec, rows, drawn, charged, deb)
  PROVE  /\ bal \in Int /\ charged \in Nat /\ Opening \in Nat
         /\ Total(Granted(lots)) \in Int /\ Total(TakenBack(lots, deb)) \in Int
         /\ SumOver(Bonus, rec) \in Int /\ SumOver(Held(rows), Ops) \in Int
         /\ bal = Opening + Total(Granted(lots)) + SumOver(Bonus, rec) - SumOver(Held(rows), Ops)
                    - charged - Total(TakenBack(lots, deb))
<1>1. Total(Granted(lots)) \in Int /\ Total(TakenBack(lots, deb)) \in Int
  BY BooksInt DEF Sound, LotsOK
<1>2. SumOver(Bonus, rec) \in Int /\ SumOver(Held(rows), Ops) \in Int
  BY HeldInt, BonusInt DEF Sound
<1>3. charged \in Nat /\ Opening \in Nat
  BY LedgerAssumption DEF Sound
<1>4. bal = Opening + Total(Granted(lots)) + SumOver(Bonus, rec) - SumOver(Held(rows), Ops)
              - charged - Total(TakenBack(lots, deb))
  BY DEF Sound, Books
<1>5. bal \in Int
  BY <1>1, <1>2, <1>3, <1>4
<1> QED BY <1>1, <1>2, <1>3, <1>4, <1>5

\* The invariant is that the rows of the moment are sound.
LEMMA IInvIsSound ==
  IInv <=> Sound(clock, balance, lot, recorded, reservation, alloc, spentTotal, debited)
<1>1. EveryCreditAccounted <=>
        Books(balance, lot, SumOver(Bonus, recorded), SumOver(Held(reservation), Ops),
              spentTotal, debited)
  BY DEF EveryCreditAccounted, Books, HeldAmount, Held, Granted, TakenBack
<1>2. PeriodsNeverOverlap <=> Apart(lot)
  BY DEF PeriodsNeverOverlap, Apart
<1>3. IInv => Sound(clock, balance, lot, recorded, reservation, alloc, spentTotal, debited)
  BY <1>1, <1>2 DEF IInv, Sound, TypeOK, RowTypeOK, HistoryTypeOK, DrawnOnGranted
<1>4. ASSUME Sound(clock, balance, lot, recorded, reservation, alloc, spentTotal, debited)
      PROVE  IInv
  <2>1. balance \in Int
    BY <1>4, SoundBooks
  <2>2. EveryCreditAccounted /\ PeriodsNeverOverlap
    BY <1>1, <1>2, <1>4 DEF Sound
  <2>3. TypeOK
    BY <1>4, <2>1 DEF TypeOK, RowTypeOK, Sound, LotsOK
  <2>4. HistoryTypeOK /\ DrawnOnGranted /\ LotsOK(lot)
    BY <1>4 DEF HistoryTypeOK, DrawnOnGranted, Sound
  <2> QED BY <2>2, <2>3, <2>4 DEF IInv
<1> QED BY <1>3, <1>4

\* The account as lock_balance leaves it.
LEMMA LockedSound ==
  ASSUME IInv
  PROVE  /\ Sound(clock, LockedBalance, Locked, recorded, reservation, alloc, spentTotal, debited)
         /\ \A l \in Lots :
              /\ Locked[l].granted = lot[l].granted
              /\ Locked[l].expires = lot[l].expires
              /\ Locked[l].remaining <= lot[l].remaining
              /\ lot[l].expires <= clock => Locked[l].remaining = 0
<1>1. Sound(clock, balance, lot, recorded, reservation, alloc, spentTotal, debited)
  BY IInvIsSound
<1>2. clock \in Nat /\ LotsOK(lot) /\ Apart(lot) /\ lot \in [Lots -> LotType]
  BY <1>1 DEF Sound, LotsOK
<1>3. LotsOK(Locked) /\ Apart(Locked)
  BY <1>2, ExpireKeeps DEF Locked
<1>4. /\ Forfeit(lot) \in Int
      /\ Total(Granted(Locked)) = Total(Granted(lot))
      /\ Total(TakenBack(Locked, debited)) = Total(TakenBack(lot, debited)) + Forfeit(lot)
  BY <1>1, <1>2, ExpireBooks DEF Locked, Sound
<1>5. Books(LockedBalance, Locked, SumOver(Bonus, recorded), SumOver(Held(reservation), Ops),
            spentTotal, debited)
  <2>1. Total(Granted(lot)) \in Int /\ Total(TakenBack(lot, debited)) \in Int
    BY <1>1, <1>2, BooksInt DEF Sound
  <2>2. SumOver(Bonus, recorded) \in Int /\ SumOver(Held(reservation), Ops) \in Int
    BY <1>1, HeldInt, BonusInt DEF Sound
  <2>3. spentTotal \in Nat /\ Opening \in Nat
    BY <1>1, LedgerAssumption DEF Sound
  <2>4. balance = Opening + Total(Granted(lot)) + SumOver(Bonus, recorded)
                    - SumOver(Held(reservation), Ops) - spentTotal - Total(TakenBack(lot, debited))
    BY <1>1 DEF Sound, Books
  <2> QED BY <1>4, <2>1, <2>2, <2>3, <2>4 DEF Books, LockedBalance
<1>6. ASSUME NEW l \in Lots
      PROVE  /\ Locked[l].granted = lot[l].granted
             /\ Locked[l].expires = lot[l].expires
             /\ Locked[l].remaining <= lot[l].remaining
             /\ lot[l].expires <= clock => Locked[l].remaining = 0
  <2>1. lot[l].remaining \in Nat /\ lot[l].expires \in Nat
    BY <1>2 DEF LotType
  <2>2. /\ Locked[l].granted = lot[l].granted
        /\ Locked[l].expires = lot[l].expires
        /\ lot[l].expires <= clock => Locked[l].remaining = 0
        /\ lot[l].expires > clock => Locked[l].remaining = lot[l].remaining
    BY <1>2, ExpireRows DEF Locked
  <2>3. lot[l].expires <= clock \/ lot[l].expires > clock
    BY <1>2, <2>1
  <2> QED BY <2>1, <2>2, <2>3
<1>7. Sound(clock, LockedBalance, Locked, recorded, reservation, alloc, spentTotal, debited)
  BY <1>1, <1>3, <1>5, <1>6 DEF Sound
<1> QED BY <1>6, <1>7

\* reserve keeps the invariant.
LEMMA ReserveKeeps ==
  ASSUME IInv, NEW o \in Ops, NEW amount \in Prices, NEW reopen \in BOOLEAN,
         Reserve(o, amount, reopen)
  PROVE  Sound(clock', balance', lot', recorded', reservation', alloc', spentTotal', debited')
<1> DEFINE r == reservation[o]
           cost == IF reopen \/ r.state = "none" THEN amount ELSE r.amount
           row == [state |-> "held", amount |-> cost, attempt |-> r.attempt + 1]
<1>1. Sound(clock, LockedBalance, Locked, recorded, reservation, alloc, spentTotal, debited)
  BY LockedSound
<1>2. r \in [state : States, amount : Nat, attempt : Nat] /\ LotsOK(Locked)
  BY <1>1 DEF Sound
<1>3. cost \in Nat /\ r.state # "held" /\ r.attempt \in Nat
  BY <1>2, LedgerAssumption DEF Reserve
<1> HIDE DEF cost
<1>4. PICK taken \in Allocations(Locked, cost) :
        /\ lot' = [l \in Lots |-> [Locked[l] EXCEPT !.remaining = @ - taken[l]]]
        /\ alloc' = [alloc EXCEPT ![o] = taken]
  BY DEF Reserve, cost
<1>5. taken \in [Lots -> Nat] /\ \A l \in Lots : taken[l] <= Locked[l].remaining
  BY <1>3, <1>4 DEF Allocations
<1>6. /\ LotsOK(lot')
      /\ \A l \in Lots : /\ lot'[l].granted = Locked[l].granted
                         /\ lot'[l].expired = Locked[l].expired
                         /\ lot'[l].start = Locked[l].start
                         /\ lot'[l].expires = Locked[l].expires
  <2>1. LotsOK(Locked)
    BY <1>2
  <2>2. taken \in [Lots -> Nat]
    BY <1>5
  <2>3. \A l \in Lots : taken[l] <= Locked[l].remaining
    BY <1>5
  <2>4. lot' = [l \in Lots |-> [Locked[l] EXCEPT !.remaining = @ - taken[l]]]
    BY <1>4
  <2> QED BY <2>1, <2>2, <2>3, <2>4, DrawKeeps
<1>7. row \in [state : States, amount : Nat, attempt : Nat]
  BY <1>3 DEF States
<1>8. balance' = LockedBalance - cost /\ reservation' = [reservation EXCEPT ![o] = row]
  BY DEF Reserve, cost
<1>9. UNCHANGED <<clock, recorded, spentTotal, debited>>
  BY DEF Reserve
<1>10. SumOver(Held(reservation'), Ops) = SumOver(Held(reservation), Ops) + cost
  <2>1. SumOver(Held(reservation'), Ops) = SumOver(Held(reservation), Ops)
          - (IF r.state = "held" THEN r.amount ELSE 0) + (IF row.state = "held" THEN row.amount ELSE 0)
    <3> HIDE DEF row
    <3> QED BY <1>1, <1>7, <1>8, HoldBooks DEF Sound
  <2>2. row.state = "held" /\ row.amount = cost
    OBVIOUS
  <2>3. SumOver(Held(reservation), Ops) \in Int
    BY <1>1, SoundBooks
  <2> HIDE DEF row
  <2> QED BY <1>3, <2>1, <2>2, <2>3
<1>11. /\ Total(Granted(lot')) = Total(Granted(Locked))
       /\ Total(TakenBack(lot', debited)) = Total(TakenBack(Locked, debited))
  BY <1>1, <1>2, <1>6, SameBooks DEF LotsOK, Sound
<1>12. Books(balance', lot', SumOver(Bonus, recorded'), SumOver(Held(reservation'), Ops),
             spentTotal', debited')
  BY <1>1, <1>3, <1>8, <1>9, <1>10, <1>11, SoundBooks DEF Books
<1>13. Apart(lot')
  BY <1>1, <1>6 DEF Apart, Sound
<1>14. ASSUME NEW p \in Ops, NEW l \in Lots, ~ lot'[l].granted PROVE alloc'[p][l] = 0
  <2>1. alloc[p][l] = 0 /\ Locked[l].remaining = 0
    BY <1>1, <1>6, <1>14 DEF Sound, LotsOK, LotOK
  <2>2. taken[l] = 0
    BY <1>5, <2>1
  <2>3. alloc'[p] = alloc[p] \/ alloc'[p] = taken
    BY <1>1, <1>4 DEF Sound
  <2> QED BY <2>1, <2>2, <2>3
<1>15. alloc' \in [Ops -> [Lots -> Nat]]
  BY <1>1, <1>4, <1>5 DEF Sound
<1>16. reservation' \in [Ops -> [state : States, amount : Nat, attempt : Nat]]
  <2> HIDE DEF row
  <2> QED BY <1>1, <1>7, <1>8 DEF Sound
<1> QED BY <1>1, <1>6, <1>9, <1>12, <1>13, <1>14, <1>15, <1>16 DEF Sound

\* finish of a reservation that is charged keeps it.
LEMMA SettleKeeps ==
  ASSUME IInv, NEW o \in Ops, Settle(o)
  PROVE  Sound(clock', balance', lot', recorded', reservation', alloc', spentTotal', debited')
<1> DEFINE row == [reservation[o] EXCEPT !.state = "settled"]
<1>1. Sound(clock, LockedBalance, Locked, recorded, reservation, alloc, spentTotal, debited)
  BY LockedSound
<1>2. reservation[o] \in [state : States, amount : Nat, attempt : Nat]
  BY <1>1 DEF Sound
<1>3. reservation[o].state = "held" /\ reservation[o].amount \in Nat
  BY <1>2 DEF Settle
<1>4. /\ lot' = Locked /\ balance' = LockedBalance
      /\ reservation' = [reservation EXCEPT ![o] = row]
      /\ alloc' = [alloc EXCEPT ![o] = [l \in Lots |-> 0]]
      /\ spentTotal' = spentTotal + reservation[o].amount
      /\ UNCHANGED <<clock, recorded, debited>>
  BY DEF Settle
<1>5. row \in [state : States, amount : Nat, attempt : Nat] /\ row.state = "settled"
  BY <1>2 DEF States
<1> HIDE DEF row
<1>6. SumOver(Held(reservation'), Ops) = SumOver(Held(reservation), Ops) - reservation[o].amount
  <2>1. SumOver(Held(reservation'), Ops) = SumOver(Held(reservation), Ops)
          - (IF reservation[o].state = "held" THEN reservation[o].amount ELSE 0)
          + (IF row.state = "held" THEN row.amount ELSE 0)
    BY <1>1, <1>4, <1>5, HoldBooks DEF Sound
  <2>2. SumOver(Held(reservation), Ops) \in Int
    BY <1>1, SoundBooks
  <2> QED BY <1>3, <1>5, <2>1, <2>2
<1>7. Books(balance', lot', SumOver(Bonus, recorded'), SumOver(Held(reservation'), Ops),
            spentTotal', debited')
  BY <1>1, <1>3, <1>4, <1>6, SoundBooks DEF Books
<1>8. /\ alloc' \in [Ops -> [Lots -> Nat]]
      /\ \A p \in Ops, l \in Lots : ~ lot'[l].granted => alloc'[p][l] = 0
  BY <1>1, <1>4 DEF Sound
<1>9. reservation' \in [Ops -> [state : States, amount : Nat, attempt : Nat]]
  BY <1>1, <1>4, <1>5 DEF Sound
<1>10. spentTotal' \in Nat
  BY <1>1, <1>3, <1>4 DEF Sound
<1> QED BY <1>1, <1>4, <1>7, <1>8, <1>9, <1>10 DEF Sound

\* finish of one that is returned keeps it.
LEMMA ReleaseKeeps ==
  ASSUME IInv, NEW o \in Ops, Release(o)
  PROVE  Sound(clock', balance', lot', recorded', reservation', alloc', spentTotal', debited')
<1> DEFINE row == [reservation[o] EXCEPT !.state = "released"]
<1>1. Sound(clock, LockedBalance, Locked, recorded, reservation, alloc, spentTotal, debited)
  BY LockedSound
<1>2. reservation[o] \in [state : States, amount : Nat, attempt : Nat]
  BY <1>1 DEF Sound
<1>3. reservation[o].state = "held" /\ reservation[o].amount \in Nat
  BY <1>2 DEF Release
<1>4. /\ lot' = Return(Locked, o) /\ balance' = LockedBalance + Returned(Locked, o)
      /\ reservation' = [reservation EXCEPT ![o] = row]
      /\ alloc' = [alloc EXCEPT ![o] = [l \in Lots |-> 0]]
      /\ UNCHANGED <<clock, recorded, spentTotal, debited>>
  BY DEF Release
<1>5. row \in [state : States, amount : Nat, attempt : Nat] /\ row.state = "released"
  BY <1>2 DEF States
<1> HIDE DEF row
<1>6. /\ clock \in Nat /\ LotsOK(Locked) /\ alloc \in [Ops -> [Lots -> Nat]]
      /\ debited \in [Lots -> Nat]
      /\ \A l \in Lots : Locked[l].expires <= clock => Locked[l].remaining = 0
      /\ \A l \in Lots : ~ Locked[l].granted => alloc[o][l] = 0
  BY <1>1, LockedSound DEF Sound
<1>7. /\ LotsOK(lot')
      /\ \A l \in Lots : /\ lot'[l].granted = Locked[l].granted
                         /\ lot'[l].start = Locked[l].start
                         /\ lot'[l].expires = Locked[l].expires
  BY <1>4, <1>6, ReturnKeeps
<1>8. PICK kept \in Int :
        /\ Returned(Locked, o) = reservation[o].amount - kept
        /\ Total(Granted(lot')) = Total(Granted(Locked))
        /\ Total(TakenBack(lot', debited)) = Total(TakenBack(Locked, debited)) + kept
  BY <1>4, <1>6, ReturnBooks
<1>9. SumOver(Held(reservation'), Ops) = SumOver(Held(reservation), Ops) - reservation[o].amount
  <2>1. SumOver(Held(reservation'), Ops) = SumOver(Held(reservation), Ops)
          - (IF reservation[o].state = "held" THEN reservation[o].amount ELSE 0)
          + (IF row.state = "held" THEN row.amount ELSE 0)
    BY <1>1, <1>4, <1>5, HoldBooks DEF Sound
  <2>2. SumOver(Held(reservation), Ops) \in Int
    BY <1>1, SoundBooks
  <2> QED BY <1>3, <1>5, <2>1, <2>2
<1>10. Books(balance', lot', SumOver(Bonus, recorded'), SumOver(Held(reservation'), Ops),
             spentTotal', debited')
  BY <1>1, <1>3, <1>4, <1>8, <1>9, SoundBooks DEF Books
<1>11. Apart(lot')
  BY <1>1, <1>7 DEF Apart, Sound
<1>12. /\ alloc' \in [Ops -> [Lots -> Nat]]
       /\ \A p \in Ops, l \in Lots : ~ lot'[l].granted => alloc'[p][l] = 0
  BY <1>1, <1>4, <1>7 DEF Sound
<1>13. reservation' \in [Ops -> [state : States, amount : Nat, attempt : Nat]]
  BY <1>1, <1>4, <1>5 DEF Sound
<1> QED BY <1>1, <1>4, <1>7, <1>10, <1>11, <1>12, <1>13 DEF Sound

\* credits.grant keeps it.
LEMMA GrantPermanentKeeps ==
  ASSUME IInv, NEW r \in References, GrantPermanent(r)
  PROVE  Sound(clock', balance', lot', recorded', reservation', alloc', spentTotal', debited')
<1>1. Sound(clock, LockedBalance, Locked, recorded, reservation, alloc, spentTotal, debited)
  BY LockedSound
<1>2. /\ r \notin recorded /\ recorded' = recorded \cup {r}
      /\ lot' = Locked /\ balance' = LockedBalance + Bonus[r]
      /\ UNCHANGED <<clock, reservation, alloc, spentTotal, debited>>
  BY DEF GrantPermanent
<1>3. Bonus[r] \in Nat /\ \A x \in recorded \cup {r} : Bonus[x] \in Int
  BY <1>1, LedgerAssumption DEF Sound
<1>4. SumOver(Bonus, recorded') = SumOver(Bonus, recorded) + Bonus[r]
  <2>1. IsFiniteSet(recorded)
    BY <1>1, BonusInt DEF Sound
  <2> QED BY <1>2, <1>3, <2>1, SumMore
<1>5. Books(balance', lot', SumOver(Bonus, recorded'), SumOver(Held(reservation'), Ops),
            spentTotal', debited')
  BY <1>1, <1>2, <1>3, <1>4, SoundBooks DEF Books
<1> QED BY <1>1, <1>2, <1>5 DEF Sound

\* sync_payment keeps it.
LEMMA GrantStepKeeps ==
  ASSUME IInv, NEW e \in Lots, NEW start \in 0..MaxTime, NEW expires \in 0..Never,
         Grant(e, start, expires)
  PROVE  /\ Sound(clock', balance', lot', recorded', reservation', alloc', spentTotal', debited')
         /\ \A l \in Lots : lot[l].granted /\ lot[l].expires <= clock => lot'[l].remaining = 0
<1>1. Sound(clock, LockedBalance, Locked, recorded, reservation, alloc, spentTotal, debited)
  BY LockedSound
<1>2. PICK end \in Ends(Locked, e, start, expires) :
        /\ \A x \in Ends(Locked, e, start, expires) : end <= x
        /\ LET new == [NoLot EXCEPT !.granted = TRUE, !.remaining = Amount[e],
                                    !.expires = end, !.start = start]
               added == [EndEarlier(Locked, e, start) EXCEPT ![e] = new]
           IN  /\ lot' = Expire(added)
               /\ balance' = LockedBalance + Amount[e] - Forfeit(added)
  BY DEF Grant
<1>3. PICK added :
        /\ added = Added(Locked, e, start, end)
        /\ lot' = Expire(added) /\ balance' = LockedBalance + Amount[e] - Forfeit(added)
  BY <1>2 DEF Added
<1>4. ~ lot[e].granted /\ UNCHANGED <<clock, recorded, reservation, alloc, spentTotal, debited>>
  BY DEF Grant
<1>5. start \in Nat /\ expires \in Nat
  BY LedgerAssumption DEF Never
<1>6. LotsOK(Locked) /\ Apart(Locked) /\ ~ Locked[e].granted
  BY <1>1, <1>4, LockedSound DEF Sound
<1>7. /\ LotsOK(added) /\ Apart(added) /\ added[e].granted /\ added[e].expired = 0
      /\ \A l \in Lots : l # e => /\ added[l].granted = Locked[l].granted
                                  /\ added[l].remaining = Locked[l].remaining
                                  /\ added[l].expired = Locked[l].expired
                                  /\ added[l].expires <= Locked[l].expires
  <2>1. \A x \in Ends(Locked, e, start, expires) : end <= x
    BY <1>2
  <2>2. end \in Ends(Locked, e, start, expires)
    OBVIOUS
  <2> QED BY <1>3, <1>5, <1>6, <2>1, <2>2, GrantKeeps
<1>8. clock \in Nat /\ debited \in [Lots -> Nat] /\ Amount[e] \in Nat
  BY <1>1, LedgerAssumption DEF Sound
<1>9. added \in [Lots -> LotType] /\ Locked \in [Lots -> LotType] /\ Locked[e].expired = 0
  BY <1>6, <1>7 DEF LotsOK, LotOK
<1>10. /\ Total(Granted(added)) = Total(Granted(Locked)) + Amount[e]
       /\ Total(TakenBack(added, debited)) = Total(TakenBack(Locked, debited))
  BY <1>6, <1>7, <1>8, <1>9, GrantBooks
<1>11. /\ Forfeit(added) \in Int
       /\ Total(Granted(lot')) = Total(Granted(added))
       /\ Total(TakenBack(lot', debited)) = Total(TakenBack(added, debited)) + Forfeit(added)
  BY <1>3, <1>8, <1>9, ExpireBooks
<1>12. LotsOK(lot') /\ Apart(lot')
  BY <1>3, <1>7, <1>8, ExpireKeeps
<1>13. Books(balance', lot', SumOver(Bonus, recorded'), SumOver(Held(reservation'), Ops),
             spentTotal', debited')
  BY <1>1, <1>3, <1>4, <1>8, <1>10, <1>11, SoundBooks DEF Books
<1>14. ASSUME NEW o \in Ops, NEW l \in Lots, ~ lot'[l].granted PROVE alloc[o][l] = 0
  <2>1. ~ added[l].granted
    BY <1>3, <1>8, <1>9, <1>14, ExpireRows
  <2>2. ~ Locked[l].granted
    BY <1>6, <1>7, <2>1
  <2> QED BY <1>1, <2>2 DEF Sound
<1>15. ASSUME NEW l \in Lots, lot[l].granted, lot[l].expires <= clock PROVE lot'[l].remaining = 0
  <2>1. l # e /\ Locked[l].expires <= clock
    BY <1>4, <1>15, LockedSound
  <2>2. added[l].expires <= Locked[l].expires /\ added[l].expires \in Nat /\ Locked[l].expires \in Nat
    BY <1>7, <1>9, <2>1 DEF LotType
  <2>3. added[l].expires <= clock
    BY <1>8, <2>1, <2>2
  <2> QED BY <1>3, <1>8, <1>9, <2>3, ExpireRows
<1>16. Sound(clock', balance', lot', recorded', reservation', alloc', spentTotal', debited')
  BY <1>1, <1>4, <1>12, <1>13, <1>14 DEF Sound
<1> QED BY <1>15, <1>16

\* A refund keeps it.
LEMMA ReverseKeeps ==
  ASSUME IInv, NEW e \in Lots, NEW target \in Refunds, Reverse(e, target)
  PROVE  /\ Sound(clock', balance', lot', recorded', reservation', alloc', spentTotal', debited')
         /\ \A l \in Lots : lot'[l].remaining <= Locked[l].remaining
<1> DEFINE debit == NewDebit(Locked, e, target)
<1>1. Sound(clock, LockedBalance, Locked, recorded, reservation, alloc, spentTotal, debited)
  BY LockedSound
<1>2. /\ lot[e].granted /\ target > lot[e].refunded
      /\ lot' = [Locked EXCEPT ![e].remaining = @ - Least(debit, Locked[e].remaining),
                               ![e].refunded = target]
      /\ balance' = LockedBalance - debit
      /\ debited' = [debited EXCEPT ![e] = @ + debit]
      /\ UNCHANGED <<clock, recorded, reservation, alloc, spentTotal>>
  BY DEF Reverse
<1>3. LotsOK(Locked) /\ Locked[e].granted /\ target \in Nat /\ debited \in [Lots -> Nat]
  BY <1>1, <1>2, LockedSound, LedgerAssumption DEF Sound
<1>4. target > Locked[e].refunded
  <2>1. clock \in Nat /\ lot \in [Lots -> LotType]
    BY DEF IInv, TypeOK, RowTypeOK
  <2> QED BY <1>2, <2>1, ExpireRows DEF Locked
<1>5. /\ debit \in Nat /\ LotsOK(lot')
      /\ \A l \in Lots : /\ lot'[l].granted = Locked[l].granted
                         /\ lot'[l].expired = Locked[l].expired
                         /\ lot'[l].start = Locked[l].start
                         /\ lot'[l].expires = Locked[l].expires
                         /\ lot'[l].remaining <= Locked[l].remaining
  <2>1. lot' = Revoked(Locked, e, target)
    BY <1>2 DEF Revoked
  <2>2. LotsOK(Locked) /\ Locked[e].granted /\ target \in Nat /\ target > Locked[e].refunded
    BY <1>3, <1>4
  <2> QED BY <2>1, <2>2, RevokeKeeps
<1> HIDE DEF debit
<1>6. debited' \in [Lots -> Nat]
  BY <1>2, <1>3, <1>5
<1>7. Locked \in [Lots -> LotType] /\ lot' \in [Lots -> LotType]
  BY <1>3, <1>5 DEF LotsOK
<1>8. /\ Total(Granted(lot')) = Total(Granted(Locked))
      /\ Total(TakenBack(lot', debited')) = Total(TakenBack(Locked, debited'))
  BY <1>5, <1>6, <1>7, SameBooks
<1>9. Total(TakenBack(Locked, debited')) = Total(TakenBack(Locked, debited)) + debit
  <2>1. Total(TakenBack(Locked, [debited EXCEPT ![e] = @ + debit]))
          = Total(TakenBack(Locked, debited)) + debit
    BY ZenonT(40), <1>3, <1>5, <1>7, DebitBooks
  <2> QED BY <1>2, <2>1
<1>10. Books(balance', lot', SumOver(Bonus, recorded'), SumOver(Held(reservation'), Ops),
             spentTotal', debited')
  BY <1>1, <1>2, <1>5, <1>8, <1>9, SoundBooks DEF Books
<1>11. Apart(lot')
  BY <1>1, <1>5 DEF Apart, Sound
<1>12. \A o \in Ops, l \in Lots : ~ lot'[l].granted => alloc'[o][l] = 0
  BY <1>1, <1>2, <1>5 DEF Sound
<1>13. Sound(clock', balance', lot', recorded', reservation', alloc', spentTotal', debited')
  BY <1>1, <1>2, <1>5, <1>6, <1>10, <1>11, <1>12 DEF Sound
<1> QED BY <1>5, <1>13

\* cap_subscription keeps it.
LEMMA CapKeeps ==
  ASSUME IInv, NEW g, NEW end \in 0..MaxTime, CapSubscription(g, end)
  PROVE  /\ Sound(clock', balance', lot', recorded', reservation', alloc', spentTotal', debited')
         /\ \A l \in Lots : lot[l].granted /\ lot[l].expires <= clock => lot'[l].remaining = 0
<1> DEFINE capped == [l \in Lots |->
        IF /\ Locked[l].granted /\ Group[l] = g
           /\ Locked[l].expires # Never /\ Locked[l].expires > end
          THEN [Locked[l] EXCEPT !.expires = end]
          ELSE Locked[l]]
<1>1. Sound(clock, LockedBalance, Locked, recorded, reservation, alloc, spentTotal, debited)
  BY LockedSound
<1>2. /\ lot' = Expire(capped) /\ balance' = LockedBalance - Forfeit(capped)
      /\ UNCHANGED <<clock, recorded, reservation, alloc, spentTotal, debited>>
  BY DEF CapSubscription
<1>3. /\ clock \in Nat /\ debited \in [Lots -> Nat] /\ LotsOK(Locked) /\ Apart(Locked)
      /\ Locked \in [Lots -> LotType] /\ end \in Nat
  BY <1>1, LedgerAssumption DEF Sound, LotsOK
<1>4. /\ capped = [l \in Lots |-> capped[l]]
      /\ \A l \in Lots :
           \/ capped[l] = Locked[l]
           \/ capped[l] = [Locked[l] EXCEPT !.expires = end] /\ Locked[l].expires > end
  OBVIOUS
<1> HIDE DEF capped
<1>5. /\ LotsOK(capped) /\ Apart(capped)
      /\ \A l \in Lots : /\ capped[l].granted = Locked[l].granted
                         /\ capped[l].remaining = Locked[l].remaining
                         /\ capped[l].expired = Locked[l].expired
                         /\ capped[l].start = Locked[l].start
                         /\ capped[l].expires <= Locked[l].expires
  BY <1>3, <1>4, ShortenKeeps
<1>6. capped \in [Lots -> LotType]
  BY <1>5 DEF LotsOK
<1>7. /\ Total(Granted(capped)) = Total(Granted(Locked))
      /\ Total(TakenBack(capped, debited)) = Total(TakenBack(Locked, debited))
  BY <1>3, <1>5, <1>6, SameBooks
<1>8. /\ Forfeit(capped) \in Int
      /\ Total(Granted(lot')) = Total(Granted(capped))
      /\ Total(TakenBack(lot', debited)) = Total(TakenBack(capped, debited)) + Forfeit(capped)
  BY <1>2, <1>3, <1>6, ExpireBooks
<1>9. LotsOK(lot') /\ Apart(lot')
  BY <1>2, <1>3, <1>5, ExpireKeeps
<1>10. Books(balance', lot', SumOver(Bonus, recorded'), SumOver(Held(reservation'), Ops),
             spentTotal', debited')
  BY <1>1, <1>2, <1>7, <1>8, SoundBooks DEF Books
<1>11. ASSUME NEW o \in Ops, NEW l \in Lots, ~ lot'[l].granted PROVE alloc[o][l] = 0
  <2>1. ~ Locked[l].granted
    BY <1>2, <1>3, <1>5, <1>6, <1>11, ExpireRows
  <2> QED BY <1>1, <2>1 DEF Sound
<1>12. ASSUME NEW l \in Lots, lot[l].granted, lot[l].expires <= clock PROVE lot'[l].remaining = 0
  <2>1. Locked[l].expires <= clock
    BY <1>12, LockedSound
  <2>2. capped[l].expires <= Locked[l].expires /\ capped[l].expires \in Nat /\ Locked[l].expires \in Nat
    BY <1>3, <1>5, <1>6 DEF LotType
  <2>3. capped[l].expires <= clock
    BY <1>3, <2>1, <2>2
  <2> QED BY <1>2, <1>3, <1>6, <2>3, ExpireRows
<1>13. Sound(clock', balance', lot', recorded', reservation', alloc', spentTotal', debited')
  BY <1>1, <1>2, <1>9, <1>10, <1>11 DEF Sound
<1> QED BY <1>12, <1>13

\* A new account is sound.
LEMMA InitSound == Init => IInv
<1> SUFFICES ASSUME Init PROVE IInv
  OBVIOUS
<1>1. LotsOK(lot) /\ Apart(lot)
  <2>1. NoLot \in LotType /\ NoLot.granted = FALSE /\ NoLot.remaining = 0 /\ NoLot.expired = 0
    BY LedgerAssumption DEF NoLot, LotType
  <2>2. ASSUME NEW l \in Lots
        PROVE  0 <= Positive(Amount[l] - NoLot.expired - NoLot.refunded)
    <3>1. Amount[l] - NoLot.expired - NoLot.refunded \in Int
      BY <2>1, LedgerAssumption DEF LotType
    <3> QED BY <3>1, LeastPositive
  <2>3. lot = [l \in Lots |-> NoLot]
    BY DEF Init
  <2> QED BY <2>1, <2>2, <2>3 DEF LotsOK, LotOK, Apart
<1>2. /\ reservation \in [Ops -> [state : States, amount : Nat, attempt : Nat]]
      /\ \A o \in Ops : reservation[o].state = "none"
  BY DEF Init, States
<1>3. SumOver(Held(reservation), Ops) = 0
  <2>1. \A o \in Ops : Held(reservation)[o] = 0
    BY <1>2 DEF Held
  <2> QED BY <2>1, SumZero, LedgerAssumption
<1>4. Total(Granted(lot)) = 0 /\ Total(TakenBack(lot, debited)) = 0
  <2>1. \A l \in Lots : Granted(lot)[l] = 0 /\ TakenBack(lot, debited)[l] = 0
    BY DEF Init, NoLot, Granted, TakenBack
  <2> QED BY <2>1, SumZero, LedgerAssumption DEF Total
<1>5. SumOver(Bonus, recorded) = 0
  BY SumEmpty DEF Init
<1>6. Books(balance, lot, SumOver(Bonus, recorded), SumOver(Held(reservation), Ops),
            spentTotal, debited)
  BY <1>3, <1>4, <1>5, LedgerAssumption DEF Init, Books
<1>7. /\ clock \in Nat /\ recorded \subseteq References /\ alloc \in [Ops -> [Lots -> Nat]]
      /\ spentTotal \in Nat /\ debited \in [Lots -> Nat]
      /\ \A o \in Ops, l \in Lots : alloc[o][l] = 0
  BY DEF Init
<1>8. Sound(clock, balance, lot, recorded, reservation, alloc, spentTotal, debited)
  BY <1>1, <1>2, <1>6, <1>7 DEF Sound
<1> QED BY <1>8, IInvIsSound

\* Every step keeps the invariant.
LEMMA StepSound == IInv /\ [Next]_vars => IInv'
<1> SUFFICES ASSUME IInv, [Next]_vars
             PROVE  Sound(clock', balance', lot', recorded', reservation', alloc', spentTotal', debited')
  <2>1. (IInv <=> Sound(clock, balance, lot, recorded, reservation, alloc, spentTotal, debited))'
    BY IInvIsSound, PTL
  <2> QED BY <2>1
<1>1. CASE ReadBalance
  BY <1>1, LockedSound DEF ReadBalance
<1>2. ASSUME NEW o \in Ops, NEW amount \in Prices, NEW reopen \in BOOLEAN, Reserve(o, amount, reopen)
      PROVE  Sound(clock', balance', lot', recorded', reservation', alloc', spentTotal', debited')
  BY <1>2, ReserveKeeps
<1>3. ASSUME NEW o \in Ops, Settle(o)
      PROVE  Sound(clock', balance', lot', recorded', reservation', alloc', spentTotal', debited')
  BY <1>3, SettleKeeps
<1>4. ASSUME NEW o \in Ops, Release(o)
      PROVE  Sound(clock', balance', lot', recorded', reservation', alloc', spentTotal', debited')
  BY <1>4, ReleaseKeeps
<1>5. ASSUME NEW r \in References, GrantPermanent(r)
      PROVE  Sound(clock', balance', lot', recorded', reservation', alloc', spentTotal', debited')
  BY <1>5, GrantPermanentKeeps
<1>6. ASSUME NEW l \in Lots, NEW start \in 0..MaxTime, NEW expires \in 0..Never,
             Grant(l, start, expires)
      PROVE  Sound(clock', balance', lot', recorded', reservation', alloc', spentTotal', debited')
  BY <1>6, GrantStepKeeps
<1>7. ASSUME NEW l \in Lots, NEW target \in Refunds, Reverse(l, target)
      PROVE  Sound(clock', balance', lot', recorded', reservation', alloc', spentTotal', debited')
  BY <1>7, ReverseKeeps
<1>8. ASSUME NEW g, NEW end \in 0..MaxTime, CapSubscription(g, end)
      PROVE  Sound(clock', balance', lot', recorded', reservation', alloc', spentTotal', debited')
  BY <1>8, CapKeeps
<1>9. CASE Tick
  <2>1. Sound(clock, balance, lot, recorded, reservation, alloc, spentTotal, debited)
    BY IInvIsSound
  <2> QED BY <1>9, <2>1 DEF Tick, Sound
<1>10. CASE UNCHANGED vars
  <2>1. Sound(clock, balance, lot, recorded, reservation, alloc, spentTotal, debited)
    BY IInvIsSound
  <2> QED BY <1>10, <2>1 DEF vars
<1> QED BY <1>1, <1>2, <1>3, <1>4, <1>5, <1>6, <1>7, <1>8, <1>9, <1>10 DEF Next

\* Every state of the ledger is sound: types, lots within their grants,
\* periods apart, and all credits accounted for (the transactions of credits.py).
THEOREM LedgerSound == Spec => []IInv
BY InitSound, StepSound, PTL DEF Spec

\* The rows have their types and the balance is a number, whatever the number
\* of payments and operations.
THEOREM TypeCorrect == Spec => []TypeOK
<1>1. IInv => TypeOK
  BY DEF IInv
<1> QED BY <1>1, LedgerSound, PTL

\* However refunds, expiry, holds and releases follow each other, no lot offers
\* credits that were refunded or have expired (credit_lots.release, revoke and
\* expire_available each move a part of a lot without looking at the others).
THEOREM SpendableCredits == Spec => []SpendableIsNeitherRefundedNorExpired
<1>1. IInv => SpendableIsNeitherRefundedNorExpired
  BY DEF IInv, LotsOK, LotOK, SpendableIsNeitherRefundedNorExpired
<1> QED BY <1>1, LedgerSound, PTL

\* The invoices of a subscription may come in any order and its credit periods
\* never overlap (credit_lots.add, cap_subscription).
THEOREM PeriodsApart == Spec => []PeriodsNeverOverlap
<1>1. IInv => PeriodsNeverOverlap
  BY DEF IInv
<1> QED BY <1>1, LedgerSound, PTL

\* The balance is what was granted less what is held, was charged, expired or
\* was taken back: no operation of credits.py makes or loses a credit.
THEOREM CreditsAreAccountedFor == Spec => []EveryCreditAccounted
<1>1. IInv => EveryCreditAccounted
  BY DEF IInv
<1> QED BY <1>1, LedgerSound, PTL

\* A lot whose period is over never regains credits: not by a release, not by
\* a later invoice of its subscription.
THEOREM ExpiredStaysExpired == Spec => ExpiredLotsNeverRefill
<1> DEFINE Refill == \A l \in Lots : lot[l].granted /\ lot[l].expires <= clock
                       => lot'[l].remaining <= lot[l].remaining
<1>1. ASSUME IInv, [Next]_vars PROVE [Refill]_vars
  <2> SUFFICES ASSUME NEW l \in Lots, lot[l].granted, lot[l].expires <= clock, ~ UNCHANGED vars
               PROVE  lot'[l].remaining <= lot[l].remaining
    BY DEF vars
  <2>1. lot \in [Lots -> LotType] /\ clock \in Nat /\ alloc \in [Ops -> [Lots -> Nat]]
    BY <1>1 DEF IInv, TypeOK, RowTypeOK
  <2>2. lot[l].remaining \in Nat
    BY <2>1 DEF LotType
  <2>3. Locked[l].remaining = 0 /\ Locked[l].expires <= clock
    BY <1>1, LockedSound
  <2>4. /\ Sound(clock, LockedBalance, Locked, recorded, reservation, alloc, spentTotal, debited)
        /\ LotsOK(Locked)
    BY <1>1, LockedSound DEF Sound
  <2>5. CASE lot' = Locked
    BY <2>2, <2>3, <2>5
  <2>6. ASSUME NEW o \in Ops, NEW amount \in Prices, NEW reopen \in BOOLEAN,
               Reserve(o, amount, reopen)
        PROVE  lot'[l].remaining = 0
    <3>1. PICK cost : \E taken \in Allocations(Locked, cost) :
            lot' = [m \in Lots |-> [Locked[m] EXCEPT !.remaining = @ - taken[m]]]
      BY <2>6 DEF Reserve
    <3>2. PICK taken \in Allocations(Locked, cost) :
            lot' = [m \in Lots |-> [Locked[m] EXCEPT !.remaining = @ - taken[m]]]
      BY <3>1
    <3>3. taken[l] \in Int /\ 0 <= taken[l] /\ taken[l] <= Locked[l].remaining
      BY <3>2 DEF Allocations
    <3>4. taken[l] = 0
      BY <2>3, <3>3
    <3>5. Locked[l] \in LotType
      BY <2>4 DEF LotsOK
    <3> QED BY <2>3, <3>2, <3>4, <3>5 DEF LotType
  <2>7. ASSUME NEW o \in Ops, Release(o) PROVE lot'[l].remaining = 0
    <3>1. /\ \A m \in Lots : Locked[m].expires <= clock => Locked[m].remaining = 0
          /\ \A m \in Lots : ~ Locked[m].granted => alloc[o][m] = 0
      BY <1>1, <2>4, LockedSound DEF Sound
    <3>2. Return(Locked, o)[l].remaining = 0
      BY <2>1, <2>3, <2>4, <3>1, ReturnKeeps
    <3> QED BY <2>7, <3>2 DEF Release
  <2>8. ASSUME NEW e \in Lots, NEW start \in 0..MaxTime, NEW expires \in 0..Never,
               Grant(e, start, expires)
        PROVE  lot'[l].remaining = 0
    BY <1>1, <2>8, GrantStepKeeps
  <2>9. ASSUME NEW e \in Lots, NEW target \in Refunds, Reverse(e, target)
        PROVE  lot'[l].remaining <= lot[l].remaining
    <3>1. /\ lot'[l].remaining <= Locked[l].remaining
          /\ lot' \in [Lots -> LotType]
      BY <1>1, <2>9, ReverseKeeps DEF Sound, LotsOK
    <3>2. lot'[l].remaining \in Nat
      BY <3>1 DEF LotType
    <3> QED BY <2>2, <2>3, <3>1, <3>2
  <2>10. ASSUME NEW g, NEW end \in 0..MaxTime, CapSubscription(g, end)
         PROVE  lot'[l].remaining = 0
    BY <1>1, <2>10, CapKeeps
  <2>11. ASSUME ReadBalance \/ (\E o \in Ops : Settle(o)) \/ (\E r \in References : GrantPermanent(r))
         PROVE  lot' = Locked
    BY <2>11 DEF ReadBalance, Settle, GrantPermanent
  <2>12. CASE Tick
    BY <2>2, <2>12 DEF Tick
  <2> QED BY <1>1, <2>2, <2>5, <2>6, <2>7, <2>8, <2>9, <2>10, <2>11, <2>12 DEF Next
<1> QED BY <1>1, LedgerSound, PTL DEF Spec, ExpiredLotsNeverRefill

\* No reservation draws on a lot whose period is over.
THEOREM ExpiredIsNotSpent == Spec => NeverSpendExpired
<1> DEFINE Fresh == \A o \in Ops, l \in Lots : alloc'[o][l] > alloc[o][l] => lot[l].expires > clock
<1>1. ASSUME IInv, [Next]_vars PROVE [Fresh]_vars
  <2> SUFFICES ASSUME NEW p \in Ops, NEW l \in Lots, alloc'[p][l] > alloc[p][l], ~ UNCHANGED vars
               PROVE  lot[l].expires > clock
    BY DEF vars
  <2>1. /\ lot \in [Lots -> LotType] /\ clock \in Nat
        /\ alloc \in [Ops -> [Lots -> Nat]] /\ alloc[p][l] \in Nat
    BY <1>1 DEF IInv, TypeOK, RowTypeOK
  <2>2. lot[l].expires \in Nat
    BY <2>1 DEF LotType
  <2>3. ASSUME alloc'[p][l] = alloc[p][l] \/ alloc'[p][l] = 0 PROVE FALSE
    BY <2>1, <2>3
  <2>4. ASSUME NEW o \in Ops, NEW amount \in Prices, NEW reopen \in BOOLEAN,
               Reserve(o, amount, reopen)
        PROVE  lot[l].expires > clock
    <3>1. PICK cost : \E taken \in Allocations(Locked, cost) : alloc' = [alloc EXCEPT ![o] = taken]
      BY <2>4 DEF Reserve
    <3>2. PICK taken \in Allocations(Locked, cost) : alloc' = [alloc EXCEPT ![o] = taken]
      BY <3>1
    <3>3. taken[l] \in Int /\ 0 <= taken[l] /\ taken[l] <= Locked[l].remaining
      BY <3>2 DEF Allocations
    <3>4. alloc'[p][l] = taken[l]
      BY <2>1, <2>3, <3>2
    <3>5. taken[l] # 0
      BY <2>3, <3>4
    <3>6. Locked[l].remaining # 0
      <4>1. LotsOK(Locked)
        BY <1>1, LockedSound DEF Sound
      <4>2. Locked[l].remaining \in Nat
        BY <4>1 DEF LotsOK, LotType
      <4> QED BY <3>3, <3>5, <4>2
    <3>7. ~ (lot[l].expires <= clock)
      BY <1>1, <3>6, LockedSound
    <3> QED BY <2>1, <2>2, <3>7
  <2>5. ASSUME NEW o \in Ops, Settle(o) \/ Release(o) PROVE FALSE
    <3>1. alloc' = [alloc EXCEPT ![o] = [m \in Lots |-> 0]]
      BY <2>5 DEF Settle, Release
    <3>2. alloc'[p][l] = alloc[p][l] \/ alloc'[p][l] = 0
      BY <2>1, <3>1
    <3> QED BY <2>3, <3>2
  <2>6. CASE alloc' = alloc
    BY <2>3, <2>6
  <2>7. \/ alloc' = alloc
        \/ \E o \in Ops, amount \in Prices, reopen \in BOOLEAN : Reserve(o, amount, reopen)
        \/ \E o \in Ops : Settle(o) \/ Release(o)
    BY <1>1 DEF Next, ReadBalance, GrantPermanent, Grant, Reverse, CapSubscription, Tick, vars
  <2> QED BY <2>4, <2>5, <2>6, <2>7
<1> QED BY <1>1, LedgerSound, PTL DEF Spec, NeverSpendExpired

-----------------------------------------------------------------------------
(* Refunds that grow.                                                      *)

\* RefundsDebitedOnce of any rows; a payment that has not come in has no refund.
DebtsOK(lots, deb) ==
  \A l \in Lots : /\ deb[l] = Least(lots[l].refunded, Amount[l] - lots[l].expired)
                  /\ ~ lots[l].granted => lots[l].refunded = 0

\* What a refund owes does not change when credits expire that it does not ask for.
LEMMA ExpiryOwesNothing ==
  ASSUME NEW a \in Nat, NEW gone \in Nat, NEW back \in Nat, NEW k \in Nat,
         k <= Positive(a - gone - back)
  PROVE  Least(back, a - (gone + k)) = Least(back, a - gone)
<1>1. CASE a - gone - back <= 0
  <2>1. k = 0
    BY <1>1 DEF Positive
  <2> QED BY <2>1
<1>2. CASE a - gone - back > 0
  BY <1>2 DEF Positive, Least
<1> QED BY <1>1, <1>2

\* Rows of which every lot is granted, expired and refunded alike owe the same.
LEMMA SameDebts ==
  ASSUME NEW lots, NEW deb, DebtsOK(lots, deb), NEW rows,
         \A l \in Lots : /\ rows[l].granted = lots[l].granted
                         /\ rows[l].expired = lots[l].expired
                         /\ rows[l].refunded = lots[l].refunded
  PROVE  DebtsOK(rows, deb)
BY DEF DebtsOK

\* The sweep owes nothing more.
LEMMA ExpireDebts ==
  ASSUME clock \in Nat, NEW lots, LotsOK(lots), NEW deb, DebtsOK(lots, deb)
  PROVE  DebtsOK(Expire(lots), deb)
<1> SUFFICES ASSUME NEW l \in Lots
             PROVE  /\ deb[l] = Least(Expire(lots)[l].refunded, Amount[l] - Expire(lots)[l].expired)
                    /\ ~ Expire(lots)[l].granted => Expire(lots)[l].refunded = 0
  BY DEF DebtsOK
<1>1. /\ lots \in [Lots -> LotType] /\ lots[l] \in LotType /\ LotOK(lots, l) /\ Amount[l] \in Nat
      /\ lots[l].expired \in Nat /\ lots[l].refunded \in Nat /\ lots[l].remaining \in Nat
      /\ lots[l].expires \in Nat
  BY LedgerAssumption DEF LotsOK, LotType
<1>2. /\ deb[l] = Least(lots[l].refunded, Amount[l] - lots[l].expired)
      /\ ~ lots[l].granted => lots[l].refunded = 0
  BY DEF DebtsOK
<1>3. CASE lots[l].expires <= clock
  <2>1. /\ Expire(lots)[l].granted = lots[l].granted
        /\ Expire(lots)[l].refunded = lots[l].refunded
        /\ Expire(lots)[l].expired = lots[l].expired + lots[l].remaining
    BY <1>1, <1>3, ExpireRows
  <2>2. lots[l].remaining <= Positive(Amount[l] - lots[l].expired - lots[l].refunded)
    BY <1>1 DEF LotOK
  <2>3. Least(lots[l].refunded, Amount[l] - (lots[l].expired + lots[l].remaining))
          = Least(lots[l].refunded, Amount[l] - lots[l].expired)
    <3>1. /\ Amount[l] \in Nat /\ lots[l].expired \in Nat /\ lots[l].refunded \in Nat
          /\ lots[l].remaining \in Nat
      BY <1>1
    <3>2. PICK a, gone, back, k :
            a = Amount[l] /\ gone = lots[l].expired /\ back = lots[l].refunded /\ k = lots[l].remaining
      OBVIOUS
    <3>3. a \in Nat /\ gone \in Nat /\ back \in Nat /\ k \in Nat /\ k <= Positive(a - gone - back)
      BY <2>2, <3>1, <3>2
    <3>4. Least(back, a - (gone + k)) = Least(back, a - gone)
      BY <3>3, ExpiryOwesNothing
    <3> QED BY <3>2, <3>4
  <2> QED BY <1>2, <2>1, <2>3
<1>4. CASE lots[l].expires > clock
  <2>1. Expire(lots)[l] = lots[l]
    BY <1>1, <1>4, ExpireRows
  <2> QED BY <1>2, <2>1
<1> QED BY <1>1, <1>3, <1>4

\* The account as lock_balance leaves it owes nothing more.
LEMMA LockedDebts ==
  ASSUME IInv, DebtsOK(lot, debited)
  PROVE  /\ DebtsOK(Locked, debited)
         /\ clock \in Nat /\ LotsOK(Locked) /\ Apart(Locked)
         /\ Locked \in [Lots -> LotType] /\ alloc \in [Ops -> [Lots -> Nat]]
         /\ \A l \in Lots : Locked[l].expires <= clock => Locked[l].remaining = 0
         /\ \A o \in Ops, l \in Lots : ~ Locked[l].granted => alloc[o][l] = 0
<1>1. clock \in Nat /\ LotsOK(lot)
  BY DEF IInv, TypeOK, RowTypeOK
<1>2. DebtsOK(Locked, debited)
  BY <1>1, ExpireDebts DEF Locked
<1>3. Sound(clock, LockedBalance, Locked, recorded, reservation, alloc, spentTotal, debited)
  BY LockedSound
<1>4. \A l \in Lots : Locked[l].expires <= clock => Locked[l].remaining = 0
  BY LockedSound
<1> QED BY <1>2, <1>3, <1>4 DEF Sound, LotsOK

\* Every operation leaves the lots with what their refunds owe.
LEMMA ReserveDebts ==
  ASSUME IInv, DebtsOK(lot, debited), NEW o \in Ops, NEW amount \in Prices, NEW reopen \in BOOLEAN,
         Reserve(o, amount, reopen)
  PROVE  DebtsOK(lot', debited')
<1>1. DebtsOK(Locked, debited) /\ Locked \in [Lots -> LotType]
  BY LockedDebts
<1>2. PICK taken : lot' = [l \in Lots |-> [Locked[l] EXCEPT !.remaining = @ - taken[l]]]
  BY DEF Reserve
<1>3. \A l \in Lots : /\ lot'[l].granted = Locked[l].granted
                      /\ lot'[l].expired = Locked[l].expired
                      /\ lot'[l].refunded = Locked[l].refunded
  BY <1>1, <1>2 DEF LotType
<1>4. DebtsOK(lot', debited)
  BY <1>1, <1>3, SameDebts
<1> QED BY <1>4 DEF Reserve

LEMMA ReleaseDebts ==
  ASSUME IInv, DebtsOK(lot, debited), NEW o \in Ops, Release(o)
  PROVE  DebtsOK(lot', debited')
<1>1. /\ DebtsOK(Locked, debited) /\ clock \in Nat /\ LotsOK(Locked)
      /\ Locked \in [Lots -> LotType] /\ alloc \in [Ops -> [Lots -> Nat]]
      /\ \A l \in Lots : Locked[l].expires <= clock => Locked[l].remaining = 0
      /\ \A l \in Lots : ~ Locked[l].granted => alloc[o][l] = 0
  BY LockedDebts
<1>2. lot' = Return(Locked, o) /\ debited' = debited
  BY DEF Release
<1>3. \A l \in Lots :
        /\ Unrevoked(Locked, o, l) \in Nat
        /\ Return(Locked, o)[l].granted = Locked[l].granted
        /\ Locked[l].expires <= clock =>
             Return(Locked, o)[l].expired = Locked[l].expired + Unrevoked(Locked, o, l)
        /\ Locked[l].expires > clock => Return(Locked, o)[l].expired = Locked[l].expired
  BY <1>1, ReturnKeeps
<1> SUFFICES ASSUME NEW l \in Lots
             PROVE  /\ debited[l] = Least(lot'[l].refunded, Amount[l] - lot'[l].expired)
                    /\ ~ lot'[l].granted => lot'[l].refunded = 0
  BY <1>2 DEF DebtsOK
<1>4. PICK a, gone, back, k, left, due :
        /\ a = Amount[l] /\ gone = Locked[l].expired /\ back = Locked[l].refunded
        /\ k = Unrevoked(Locked, o, l) /\ left = Locked[l].remaining /\ due = alloc[o][l]
  OBVIOUS
<1>5. Locked[l] \in LotType /\ Amount[l] \in Nat /\ alloc[o][l] \in Nat
  BY <1>1, LedgerAssumption
<1>6. /\ a \in Nat /\ gone \in Nat /\ back \in Nat /\ k \in Nat /\ left \in Nat /\ due \in Nat
      /\ Locked[l].expires \in Nat
  BY <1>3, <1>4, <1>5 DEF LotType
<1>7. /\ debited[l] = Least(back, a - gone)
      /\ ~ Locked[l].granted => Locked[l].refunded = 0
  BY <1>1, <1>4 DEF DebtsOK
<1>8. Return(Locked, o)[l].refunded = Locked[l].refunded
  BY <1>5 DEF Return, LotType
<1>9. CASE Locked[l].expires <= clock
  <2>1. left = 0
    BY <1>1, <1>4, <1>9
  <2>2. k = Least(due, Positive(a - back - gone - left))
    BY <1>4 DEF Unrevoked
  <2>3. k <= Positive(a - gone - back)
    BY <1>6, <2>1, <2>2 DEF Least, Positive
  <2>4. Least(back, a - (gone + k)) = Least(back, a - gone)
    <3>1. a \in Nat /\ gone \in Nat /\ back \in Nat /\ k \in Nat /\ k <= Positive(a - gone - back)
      BY <1>6, <2>3
    <3> QED BY <3>1, ExpiryOwesNothing
  <2>5. Return(Locked, o)[l].expired = gone + k
    BY <1>3, <1>4, <1>9
  <2> QED BY <1>2, <1>3, <1>4, <1>7, <1>8, <2>4, <2>5
<1>10. CASE Locked[l].expires > clock
  <2>1. Return(Locked, o)[l].expired = gone
    BY <1>3, <1>4, <1>10
  <2> QED BY <1>2, <1>3, <1>4, <1>7, <1>8, <2>1
<1> QED BY <1>1, <1>6, <1>9, <1>10

LEMMA GrantDebts ==
  ASSUME IInv, DebtsOK(lot, debited), NEW e \in Lots, NEW start \in 0..MaxTime, NEW expires \in 0..Never,
         Grant(e, start, expires)
  PROVE  DebtsOK(lot', debited')
<1>1. DebtsOK(Locked, debited) /\ clock \in Nat /\ LotsOK(Locked) /\ Apart(Locked)
      /\ Locked \in [Lots -> LotType]
  BY LockedDebts
<1>2. PICK end \in Ends(Locked, e, start, expires) :
        /\ \A x \in Ends(Locked, e, start, expires) : end <= x
        /\ lot' = Expire(Added(Locked, e, start, end))
  BY DEF Grant, Added
<1>3. ~ lot[e].granted /\ debited' = debited
  BY DEF Grant
<1>4. start \in Nat /\ expires \in Nat /\ ~ Locked[e].granted
  BY <1>3, LockedSound, LedgerAssumption DEF Never
<1>5. PICK added : added = Added(Locked, e, start, end)
  OBVIOUS
<1>6. LotsOK(added) /\ added[e].granted /\ added[e].expired = 0
  <2>1. \A x \in Ends(Locked, e, start, expires) : end <= x
    BY <1>2
  <2>2. end \in Ends(Locked, e, start, expires)
    OBVIOUS
  <2> QED BY <1>1, <1>4, <1>5, <2>1, <2>2, GrantKeeps
<1>7. added[e].refunded = 0
  <2>1. added[e] = [NoLot EXCEPT !.granted = TRUE, !.remaining = Amount[e], !.expires = end, !.start = start]
    BY <1>5 DEF Added, EndEarlier
  <2> QED BY <2>1 DEF NoLot
<1>8. ASSUME NEW l \in Lots, l # e
      PROVE  /\ added[l].granted = Locked[l].granted
             /\ added[l].expired = Locked[l].expired
             /\ added[l].refunded = Locked[l].refunded
  <2>1. Locked[l] \in LotType
    BY <1>1
  <2>2. added[l] = Locked[l] \/ added[l] = [Locked[l] EXCEPT !.expires = start]
    BY <1>5, <1>8 DEF Added, EndEarlier
  <2> QED BY <2>1, <2>2 DEF LotType
<1>9. debited[e] = Least(0, Amount[e] - 0)
  <2>1. LotOK(Locked, e) /\ Amount[e] \in Nat
    BY <1>1, LedgerAssumption DEF LotsOK
  <2>2. Locked[e].refunded = 0 /\ Locked[e].expired = 0
    BY <1>1, <1>4, <2>1 DEF DebtsOK, LotOK
  <2>3. debited[e] = Least(Locked[e].refunded, Amount[e] - Locked[e].expired)
    BY <1>1 DEF DebtsOK
  <2> QED BY <2>2, <2>3
<1>10. DebtsOK(added, debited)
  BY <1>1, <1>6, <1>7, <1>8, <1>9 DEF DebtsOK
<1>11. DebtsOK(Expire(added), debited)
  BY <1>1, <1>6, <1>10, ExpireDebts
<1> QED BY <1>2, <1>3, <1>5, <1>11

LEMMA ReverseDebts ==
  ASSUME IInv, DebtsOK(lot, debited), NEW e \in Lots, NEW target \in Refunds, Reverse(e, target)
  PROVE  DebtsOK(lot', debited')
<1>1. DebtsOK(Locked, debited) /\ Locked \in [Lots -> LotType] /\ clock \in Nat /\ LotsOK(Locked)
  BY LockedDebts
<1>2. /\ lot[e].granted /\ target > lot[e].refunded
      /\ lot' = Revoked(Locked, e, target)
      /\ debited' = [debited EXCEPT ![e] = @ + NewDebit(Locked, e, target)]
  BY DEF Reverse, Revoked
<1>3. debited \in [Lots -> Nat] /\ lot \in [Lots -> LotType] /\ target \in Nat
  BY LedgerAssumption DEF IInv, HistoryTypeOK, TypeOK, RowTypeOK
<1>4. Locked[e].granted /\ target > Locked[e].refunded
  BY <1>1, <1>2, <1>3, ExpireRows DEF Locked
<1>5. /\ lot'[e].granted = Locked[e].granted
      /\ lot'[e].expired = Locked[e].expired
      /\ lot'[e].refunded = target
  BY <1>1, <1>2 DEF Revoked, LotType
<1>6. \A l \in Lots : l # e => lot'[l] = Locked[l] /\ debited'[l] = debited[l]
  BY <1>1, <1>2, <1>3 DEF Revoked
<1>7. debited'[e] = Least(target, Amount[e] - lot'[e].expired)
  <2>1. PICK a, gone, back, paid :
          a = Amount[e] /\ gone = Locked[e].expired /\ back = Locked[e].refunded /\ paid = debited[e]
    OBVIOUS
  <2>2. Locked[e] \in LotType /\ Amount[e] \in Nat
    BY <1>1, LedgerAssumption
  <2>3. a \in Nat /\ gone \in Nat /\ back \in Nat /\ paid \in Nat
    BY <1>3, <2>1, <2>2 DEF LotType
  <2>4. paid = Least(back, a - gone)
    BY <1>1, <2>1 DEF DebtsOK
  <2>5. debited'[e] = paid + Positive(Least(target, Positive(a - gone)) - Least(back, Positive(a - gone)))
    BY <1>2, <1>3, <2>1 DEF NewDebit
  <2>6. target > back
    BY <1>4, <2>1
  <2>7. paid + Positive(Least(target, Positive(a - gone)) - Least(back, Positive(a - gone)))
          = Least(target, a - gone)
    BY <1>3, <2>3, <2>4, <2>6 DEF Least, Positive
  <2> QED BY <1>5, <2>1, <2>5, <2>7
<1>8. ASSUME NEW l \in Lots
      PROVE  /\ debited'[l] = Least(lot'[l].refunded, Amount[l] - lot'[l].expired)
             /\ ~ lot'[l].granted => lot'[l].refunded = 0
  <2>1. CASE l = e
    BY <1>4, <1>5, <1>7, <2>1
  <2>2. CASE l # e
    BY <1>1, <1>6, <2>2 DEF DebtsOK
  <2> QED BY <2>1, <2>2
<1> QED BY <1>8 DEF DebtsOK

LEMMA CapDebts ==
  ASSUME IInv, DebtsOK(lot, debited), NEW g, NEW end \in 0..MaxTime, CapSubscription(g, end)
  PROVE  DebtsOK(lot', debited')
<1> DEFINE capped == [l \in Lots |->
        IF /\ Locked[l].granted /\ Group[l] = g
           /\ Locked[l].expires # Never /\ Locked[l].expires > end
          THEN [Locked[l] EXCEPT !.expires = end]
          ELSE Locked[l]]
<1>1. DebtsOK(Locked, debited) /\ clock \in Nat /\ LotsOK(Locked) /\ Locked \in [Lots -> LotType]
  BY LockedDebts
<1>2. lot' = Expire(capped) /\ debited' = debited
  BY DEF CapSubscription
<1>3. end \in Nat
  BY LedgerAssumption
<1>4. /\ capped = [l \in Lots |-> capped[l]]
      /\ \A l \in Lots :
           \/ capped[l] = Locked[l]
           \/ capped[l] = [Locked[l] EXCEPT !.expires = end] /\ Locked[l].expires > end
  OBVIOUS
<1> HIDE DEF capped
<1>5. LotsOK(capped)
  BY <1>1, <1>3, <1>4, ShortenKeeps
<1>6. \A l \in Lots : /\ capped[l].granted = Locked[l].granted
                      /\ capped[l].expired = Locked[l].expired
                      /\ capped[l].refunded = Locked[l].refunded
  BY <1>1, <1>4 DEF LotType
<1>7. DebtsOK(capped, debited)
  BY <1>1, <1>6, SameDebts
<1>8. DebtsOK(Expire(capped), debited)
  BY <1>1, <1>5, <1>7, ExpireDebts
<1> QED BY <1>2, <1>8

\* Nothing is owed at the beginning.
LEMMA InitDebts == Init => DebtsOK(lot, debited)
<1> SUFFICES ASSUME Init, NEW l \in Lots
             PROVE  /\ debited[l] = Least(lot[l].refunded, Amount[l] - lot[l].expired)
                    /\ ~ lot[l].granted => lot[l].refunded = 0
  BY DEF DebtsOK
<1>1. Amount[l] \in Nat
  BY LedgerAssumption
<1>2. lot[l].refunded = 0 /\ lot[l].expired = 0 /\ debited[l] = 0
  BY DEF Init, NoLot
<1>3. Least(0, Amount[l] - 0) = 0
  BY <1>1 DEF Least
<1> QED BY <1>2, <1>3

LEMMA StepDebts == IInv /\ DebtsOK(lot, debited) /\ [Next]_vars => DebtsOK(lot', debited')
<1> SUFFICES ASSUME IInv, DebtsOK(lot, debited), [Next]_vars PROVE DebtsOK(lot', debited')
  OBVIOUS
<1>1. CASE ReadBalance
  BY <1>1, LockedDebts DEF ReadBalance
<1>2. ASSUME NEW o \in Ops, NEW amount \in Prices, NEW reopen \in BOOLEAN, Reserve(o, amount, reopen)
      PROVE  DebtsOK(lot', debited')
  BY <1>2, ReserveDebts
<1>3. ASSUME NEW o \in Ops, Settle(o) PROVE DebtsOK(lot', debited')
  BY <1>3, LockedDebts DEF Settle
<1>4. ASSUME NEW o \in Ops, Release(o) PROVE DebtsOK(lot', debited')
  BY <1>4, ReleaseDebts
<1>5. ASSUME NEW r \in References, GrantPermanent(r) PROVE DebtsOK(lot', debited')
  BY <1>5, LockedDebts DEF GrantPermanent
<1>6. ASSUME NEW l \in Lots, NEW start \in 0..MaxTime, NEW expires \in 0..Never,
             Grant(l, start, expires)
      PROVE  DebtsOK(lot', debited')
  BY <1>6, GrantDebts
<1>7. ASSUME NEW l \in Lots, NEW target \in Refunds, Reverse(l, target) PROVE DebtsOK(lot', debited')
  BY <1>7, ReverseDebts
<1>8. ASSUME NEW g, NEW end \in 0..MaxTime, CapSubscription(g, end) PROVE DebtsOK(lot', debited')
  BY <1>8, CapDebts
<1>9. CASE Tick
  BY <1>9 DEF Tick
<1>10. CASE UNCHANGED vars
  BY <1>10 DEF vars
<1> QED BY <1>1, <1>2, <1>3, <1>4, <1>5, <1>6, <1>7, <1>8, <1>9, <1>10 DEF Next

\* A refund that grows, with holds, releases and the end of the period between
\* its steps, takes from the balance exactly once what expiry has not taken
\* (credit_lots.revoke, called with the old and the new target).
THEOREM RefundsAreDebitedOnce == Spec => []RefundsDebitedOnce
<1>1. DebtsOK(lot, debited) => RefundsDebitedOnce
  BY DEF DebtsOK, RefundsDebitedOnce
<1>2. IInv /\ DebtsOK(lot, debited) /\ [Next]_vars => DebtsOK(lot, debited)'
  BY StepDebts
<1> QED BY <1>1, <1>2, InitDebts, LedgerSound, PTL DEF Spec
=============================================================================
