--------------------------- MODULE SaleEnginesProofs ---------------------------
(***************************************************************************)
(* Proofs about the stock and sales engines, for any number of sessions,   *)
(* sales and failures.                                                     *)
(*                                                                         *)
(* The sums over facts are recursive; what is needed of them is proved by  *)
(* looking at a least counterexample.  The invariant says of each session  *)
(* what it has come past and what it has still to write.                   *)
(***************************************************************************)
EXTENDS SaleEngines, FiniteSetTheorems, WellFoundedInduction, TLAPS

(* What is known of a session; whether it is at work; what line i is of.   *)
Fields == {"pc", "engine", "sale", "line", "todo", "row"}
Busy(s) == job[s].pc # "idle"
Bought(e, i) == Lines[e][i].product

(* The quantity recorded with a sale is zero, whatever is left.            *)
SoldOut == [sale : Sales, product : Products, quantity : Nat \ {0}, after : {0}]

(* What an alert, or a suggestion, may say.                                *)
Sound(subject, levels) ==
  IF Len(subject) = 1 THEN levels[1] \in Int /\ levels[1] < 0
  ELSE /\ levels[1] \in Nat /\ levels[2] \in Nat
       /\ 0 < levels[1] /\ levels[1] <= levels[2]
       /\ levels[2] <= Cardinality(With(facts, subject[1]))

(* The subjects a session finds rows of.                                   *)
Subjects(s) == {r.subject : r \in DOMAIN reports \cup DOMAIN drafts[s]}

(* What is committed: sold goods, and reports that are sound.              *)
Books ==
  /\ facts \in SUBSET SoldOut /\ IsFiniteSet(facts)
  /\ done \subseteq Sales
  /\ DOMAIN reports \subseteq Row
  /\ \A r \in DOMAIN reports : Sound(r.subject, reports[r])
  /\ behind \in [Sales -> SUBSET Sessions]
  /\ aborts \in 0..MaxAborts

(* What was sold has an alert; what is done has facts and suggestions.     *)
Alerted == \A f \in facts : \E r \in DOMAIN reports : r.subject = <<f.product>>

Booked ==
  \A e \in done : \A i, j \in DOMAIN Lines[e] :
    /\ e \in With(facts, Bought(e, i))
    /\ Bought(e, i) # Bought(e, j) /\ Few(Bought(e, i))
         => \E r \in DOMAIN reports : r.subject = <<Bought(e, i), Bought(e, j)>>

(* What each session has.                                                  *)
Tables ==
  /\ job = [s \in Sessions |-> job[s]]
  /\ mine \in [Sessions -> SUBSET SoldOut]
  /\ drafts = [s \in Sessions |-> drafts[s]]

(* Where a session is; the sales engine has no facts of its own.           *)
Shape(s) ==
  /\ DOMAIN job[s] = Fields
  /\ job[s].pc \in {"idle", "line", "assess", "find", "write", "commit"}
  /\ job[s].engine \in {"stock", "sales"}
  /\ IsFiniteSet(mine[s])
  /\ DOMAIN drafts[s] \subseteq Row
  /\ IF Busy(s)
     THEN job[s].sale \in Sales \ done /\ job[s].line \in DOMAIN Lines[job[s].sale]
     ELSE job[s].sale = 0 /\ job[s].engine = "stock" /\ mine[s] = {} /\ DOMAIN drafts[s] = {}
  /\ job[s].pc = "assess" => job[s].engine = "stock"
  /\ job[s].pc = "commit" => job[s].line = Len(Lines[job[s].sale])
  /\ job[s].engine = "sales" => mine[s] = {}

(* No two sessions have the same sale.                                     *)
Alone(s) == \A t \in Sessions \ {s} : Busy(s) => job[t].sale # job[s].sale

(* What a session has written, and has still to write, is sound.           *)
Drafted(s) ==
  /\ \A r \in DOMAIN drafts[s] : Sound(r.subject, drafts[s][r])
  /\ job[s].pc \in {"find", "write"} =>
       /\ DOMAIN job[s].todo # {} /\ DOMAIN job[s].todo \subseteq Subject
       /\ \A x \in DOMAIN job[s].todo : Sound(x, job[s].todo[x])
       /\ IF job[s].engine = "stock" THEN DOMAIN job[s].todo = {<<Item(s).product>>}
          ELSE DOMAIN job[s].todo \subseteq {Item(s).product} \X Products
  /\ job[s].pc = "write" => job[s].row \in Row /\ job[s].row.subject \in DOMAIN job[s].todo

(* What the engine at work has come past.                                  *)
Past(s, i) == i < job[s].line \/ (i = job[s].line /\ job[s].pc # "line")

(* The stock engine has a fact about each line it is past, and for each    *)
(* fact an alert, or one still to write; the sales engine a suggestion for *)
(* each two lines, or one still to write.                                  *)
StockDone(s) ==
  Busy(s) /\ job[s].engine = "stock" =>
    /\ \A i \in DOMAIN Lines[job[s].sale] :
         Past(s, i) => job[s].sale \in With(Seen(s), Bought(job[s].sale, i))
    /\ \A f \in mine[s] :
         \/ <<f.product>> \in Subjects(s)
         \/ job[s].pc \in {"assess", "find", "write"} /\ f.product = Item(s).product

SalesDone(s) ==
  job[s].engine = "sales" =>
    \A i \in DOMAIN Lines[job[s].sale] :
      /\ job[s].sale \in With(facts, Bought(job[s].sale, i))
      /\ Few(Bought(job[s].sale, i)) /\ Past(s, i) =>
           \A j \in DOMAIN Lines[job[s].sale] :
             LET pair == <<Bought(job[s].sale, i), Bought(job[s].sale, j)>>
             IN pair[1] # pair[2] =>
                  \/ pair \in Subjects(s)
                  \/ job[s].pc \in {"find", "write"} /\ pair \in DOMAIN job[s].todo

(* The invariant: the books, and each session's part.                      *)
Local(s) == Shape(s) /\ Alone(s) /\ Drafted(s) /\ StockDone(s) /\ SalesDone(s)

Inv == /\ Books /\ Alerted /\ Booked /\ Tables
       /\ \A s \in Sessions : Local(s)

-------------------------------------------------------------------------------
(* Sums. *)

(* What was sold by the facts of a set, and one step of the recursion that  *)
(* MapThenSumSet is defined by.                                            *)
Total(S) == MapThenSumSet(LAMBDA f : f.quantity, S)

SumStep(g, s) ==
  IF s = {} THEN 0
  ELSE LET x == CHOOSE x \in s : TRUE IN x.quantity + g[s \ {x}]

(* A set of numbers has a least one.                                       *)
LEMMA LeastNumber ==
  ASSUME NEW B \in SUBSET Nat, B # {}
  PROVE  \E n \in B : \A m \in B : n <= m
<1> DEFINE R == OpToRel(<, Nat)
<1>1. IsWellFoundedOn(R, Nat)
  BY NatLessThanWellFounded
<1>2. \A m, n \in Nat : m < n => <<m, n>> \in R
  BY DEF OpToRel
<1> HIDE DEF R
<1>3. PICK n \in B : \A m \in B : <<m, n>> \notin R
  BY <1>1, WFMin
<1>4. ASSUME NEW m \in B PROVE n <= m
  <2>1. m \in Nat /\ n \in Nat
    OBVIOUS
  <2>2. ~(m < n)
    BY <1>2, <1>3, <2>1
  <2> QED BY <2>1, <2>2
<1> QED BY <1>4

(* The recursion has a solution on a finite set: one up to each size of    *)
(* its subsets, or else there is a least size for which there is none.     *)
LEMMA TotalUnfolds ==
  ASSUME NEW S, IsFiniteSet(S)
  PROVE  \E g : g = [s \in SUBSET S |-> SumStep(g, s)] /\ Total(S) = g[S]
<1> DEFINE Upto(g, n) == \A s \in SUBSET S : Cardinality(s) <= n => g[s] = SumStep(g, s)
           Bad == {n \in Nat : ~\E g : Upto(g, n)}
<1>1. \A s \in SUBSET S : IsFiniteSet(s) /\ Cardinality(s) \in Nat /\ Cardinality(s) <= Cardinality(S)
  BY FS_Subset, FS_CardinalityType
<1>2. ASSUME NEW n \in Nat, NEW g,
             \A s \in SUBSET S : Cardinality(s) < n => g[s] = SumStep(g, s)
      PROVE  \E h : Upto(h, n)
  <2> DEFINE h == [s \in SUBSET S |-> IF Cardinality(s) < n THEN g[s] ELSE SumStep(g, s)]
  <2>1. ASSUME NEW s \in SUBSET S, s # {}, Cardinality(s) <= n
        PROVE  LET x == CHOOSE x \in s : TRUE
               IN h[s \ {x}] = g[s \ {x}]
    <3> DEFINE x == CHOOSE x \in s : TRUE
    <3>1. x \in s
      BY <2>1
    <3>2. Cardinality(s \ {x}) = Cardinality(s) - 1
      BY <1>1, <3>1, FS_RemoveElement
    <3>3. s \ {x} \in SUBSET S
      BY <2>1
    <3> HIDE DEF x
    <3>4. h[s \ {x}] = g[s \ {x}]
      BY <1>1, <2>1, <3>2, <3>3
    <3> QED BY <3>4 DEF x
  <2>2. ASSUME NEW s \in SUBSET S, Cardinality(s) <= n
        PROVE  SumStep(h, s) = SumStep(g, s)
    <3> HIDE DEF h
    <3> QED BY <2>1, <2>2 DEF SumStep
  <2>3. ASSUME NEW s \in SUBSET S, Cardinality(s) <= n
        PROVE  h[s] = SumStep(g, s)
    <3>1. h[s] = IF Cardinality(s) < n THEN g[s] ELSE SumStep(g, s)
      OBVIOUS
    <3> QED BY <1>2, <2>3, <3>1
  <2> HIDE DEF h
  <2>4. Upto(h, n)
    BY <2>2, <2>3
  <2> QED BY <2>4
<1>3. \A n \in Nat : \E g : Upto(g, n)
  <2> SUFFICES ASSUME Bad # {} PROVE FALSE
    OBVIOUS
  <2>1. PICK n \in Bad : \A m \in Bad : n <= m
    BY LeastNumber
  <2>2. n \in Nat
    OBVIOUS
  <2>3. CASE n = 0
    <3>1. \A s \in SUBSET S : ~(Cardinality(s) < 0)
      BY <1>1
    <3>2. \E h : Upto(h, 0)
      BY <1>2, <3>1
    <3> QED BY <2>1, <2>3, <3>2
  <2>4. CASE n # 0
    <3>1. n - 1 \in Nat /\ n - 1 \notin Bad
      BY <2>1, <2>2, <2>4
    <3>2. PICK g : Upto(g, n - 1)
      BY <3>1
    <3>3. \A s \in SUBSET S : Cardinality(s) < n => g[s] = SumStep(g, s)
      BY <1>1, <2>2, <3>2
    <3>4. \E h : Upto(h, n)
      BY <1>2, <2>2, <3>3
    <3> QED BY <2>1, <3>4
  <2> QED BY <2>3, <2>4
<1>4. PICK g : Upto(g, Cardinality(S))
  BY <1>3, FS_CardinalityType
<1>5. \A s \in SUBSET S : g[s] = SumStep(g, s)
  BY <1>1, <1>4
<1> DEFINE h == [s \in SUBSET S |-> SumStep(g, s)]
<1>6. \A s \in SUBSET S : h[s] = g[s]
  BY <1>5
<1>7. \A s \in SUBSET S : SumStep(h, s) = SumStep(g, s)
  <2> TAKE s \in SUBSET S
  <2>1. \A x : s \ {x} \in SUBSET S
    OBVIOUS
  <2> HIDE DEF h
  <2> QED BY <1>6, <2>1 DEF SumStep
<1>8. h = [s \in SUBSET S |-> SumStep(h, s)]
  BY <1>7
<1> DEFINE total == CHOOSE t : t = [s \in SUBSET S |-> SumStep(t, s)]
<1>9. total = [s \in SUBSET S |-> SumStep(total, s)]
  <2> HIDE DEF h
  <2> QED BY <1>8
<1>10. Total(S) = total[S]
  BY DEF Total, MapThenSumSet, MapThenFoldSet, SumStep
<1> QED BY <1>9, <1>10

(* A sum of numbers is a number, and above zero when there is one of them. *)
LEMMA TotalIsPositive ==
  ASSUME NEW S, IsFiniteSet(S), \A f \in S : f.quantity \in Nat \ {0}
  PROVE  Total(S) \in Nat /\ (S # {} => Total(S) > 0)
<1>1. PICK g : g = [s \in SUBSET S |-> SumStep(g, s)] /\ Total(S) = g[S]
  BY TotalUnfolds
<1> DEFINE Bad == {s \in SUBSET S : g[s] \notin Nat}
<1>2. ASSUME NEW s \in SUBSET S, s # {}
      PROVE  \E x \in s : g[s] = x.quantity + g[s \ {x}]
  <2>1. g[s] = SumStep(g, s)
    BY <1>1
  <2> QED BY <1>2, <2>1 DEF SumStep
<1>3. Bad = {}
  <2> SUFFICES ASSUME Bad # {} PROVE FALSE
    OBVIOUS
  <2>1. IsWellFoundedOn(StrictSubsetOrdering(S), SUBSET S)
    BY FS_StrictSubsetOrderingWellFounded, FS_FiniteSubsetsOfFinite
  <2>2. PICK s \in Bad : \A t \in Bad : <<t, s>> \notin StrictSubsetOrdering(S)
    <3> HIDE DEF Bad
    <3>1. Bad \subseteq SUBSET S
      BY DEF Bad
    <3> QED BY <2>1, <3>1, WFMin
  <2>3. CASE s = {}
    <3>1. g[s] = 0
      BY <1>1, <2>3 DEF SumStep
    <3> QED BY <3>1
  <2>4. CASE s # {}
    <3>1. PICK x \in s : g[s] = x.quantity + g[s \ {x}]
      BY <1>2, <2>4
    <3>2. <<s \ {x}, s>> \in StrictSubsetOrdering(S)
      BY DEF StrictSubsetOrdering
    <3>3. g[s \ {x}] \in Nat
      BY <2>2, <3>2
    <3> QED BY <3>1, <3>3
  <2> QED BY <2>3, <2>4
<1>4. g[S] \in Nat
  BY <1>3
<1>5. CASE S # {}
  <2>1. PICK x \in S : g[S] = x.quantity + g[S \ {x}]
    BY <1>2, <1>5
  <2>2. g[S \ {x}] \in Nat
    BY <1>3
  <2> QED BY <1>1, <2>1, <2>2
<1> QED BY <1>1, <1>4, <1>5
-------------------------------------------------------------------------------
(* Data. *)

(* A change of a function has its way where it says something.             *)
LEMMA UpdatedFacts ==
  ASSUME NEW f, NEW change
  PROVE  /\ DOMAIN Updated(f, change) = DOMAIN f \cup DOMAIN change
         /\ \A x \in DOMAIN f \cup DOMAIN change :
              Updated(f, change)[x] = IF x \in DOMAIN change THEN change[x] ELSE f[x]
BY DEF Updated

(* A sale has lines, and a line a product and a quantity.                  *)
LEMMA SaleFacts ==
  /\ Sales = 1..Len(Lines) /\ Len(Lines) \in Nat /\ 0 \notin Sales
  /\ \A e \in Sales :
       /\ Len(Lines[e]) \in Nat \ {0} /\ DOMAIN Lines[e] = 1..Len(Lines[e])
       /\ \A i \in DOMAIN Lines[e] :
            Bought(e, i) \in Products /\ Lines[e][i].quantity \in Nat \ {0}
<1>1. Lines \in Seq(Seq([product : Products, quantity : Nat \ {0}]))
  BY EnginesAssumption
<1> DEFINE Line == [product : Products, quantity : Nat \ {0}]
<1>2. Sales = 1..Len(Lines) /\ Len(Lines) \in Nat /\ 0 \notin Sales
  BY <1>1 DEF Sales
<1>3. ASSUME NEW e \in Sales
      PROVE  /\ Len(Lines[e]) \in Nat \ {0} /\ DOMAIN Lines[e] = 1..Len(Lines[e])
             /\ \A i \in DOMAIN Lines[e] : Lines[e][i] \in Line
  <2>1. Lines[e] \in Seq(Line) /\ Lines[e] # <<>>
    BY <1>1, <1>2, EnginesAssumption
  <2> HIDE DEF Line
  <2> QED BY <2>1
<1> QED BY <1>2, <1>3 DEF Bought

(* The stock the engine computes is minus what was sold.                   *)
LEMMA StockFacts ==
  ASSUME NEW F \in SUBSET SoldOut, IsFiniteSet(F), NEW p
  PROVE  /\ Sold(F, p) \in Nat /\ (Of(F, p) # {} => Sold(F, p) > 0)
         /\ CurrentStock(F, p) = 0 - Sold(F, p)
<1>1. Of(F, p) \in SUBSET F
  BY DEF Of
<1>2. IsFiniteSet(Of(F, p)) /\ \A f \in Of(F, p) : f.quantity \in Nat \ {0}
  BY <1>1, FS_Subset DEF SoldOut
<1>3. Sold(F, p) = Total(Of(F, p))
  BY DEF Sold, Total
<1>4. Sold(F, p) \in Nat /\ (Of(F, p) # {} => Sold(F, p) > 0)
  BY <1>2, <1>3, TotalIsPositive
<1>5. ASSUME Of(F, p) # {}
      PROVE  \E f \in Of(F, p) : \A g \in Of(F, p) : g.sale <= f.sale
  <2> DEFINE Ages == {Len(Lines) - f.sale : f \in Of(F, p)}
  <2>1. \A f \in Of(F, p) : f.sale \in 1..Len(Lines)
    BY <1>1, SaleFacts DEF SoldOut
  <2>2. Ages \in SUBSET Nat /\ Ages # {}
    BY <1>5, <2>1, SaleFacts
  <2>3. PICK a \in Ages : \A b \in Ages : a <= b
    BY <2>2, LeastNumber
  <2>4. PICK f \in Of(F, p) : a = Len(Lines) - f.sale
    OBVIOUS
  <2>5. ASSUME NEW g \in Of(F, p) PROVE g.sale <= f.sale
    <3>1. a <= Len(Lines) - g.sale
      BY <2>3
    <3> QED BY <2>1, <2>4, <3>1, SaleFacts
  <2> QED BY <2>5
<1>6. ASSUME Of(F, p) # {}
      PROVE  (CHOOSE f \in Of(F, p) : \A g \in Of(F, p) : g.sale <= f.sale).after = 0
  <2>1. (CHOOSE f \in Of(F, p) : \A g \in Of(F, p) : g.sale <= f.sale) \in Of(F, p)
    BY <1>5, <1>6
  <2> QED BY <1>1, <2>1 DEF SoldOut
<1>7. CurrentStock(F, p) = 0 - Sold(F, p)
  BY <1>6 DEF CurrentStock
<1> QED BY <1>4, <1>7

(* The orders with a product stay, and can be counted.                     *)
LEMMA WithFacts ==
  ASSUME NEW F \in SUBSET SoldOut, IsFiniteSet(F), NEW p
  PROVE  /\ With(F, p) \in SUBSET Sales /\ IsFiniteSet(With(F, p))
         /\ Cardinality(With(F, p)) \in Nat /\ Cardinality(With(F, p)) <= Len(Lines)
<1>1. With(F, p) \in SUBSET Sales
  BY DEF With, Of, SoldOut
<1>2. IsFiniteSet(Sales) /\ Cardinality(Sales) = Len(Lines)
  <2>1. Sales = 1..Len(Lines) /\ Len(Lines) \in Nat
    BY SaleFacts
  <2> DEFINE n == Len(Lines)
  <2> HIDE DEF n
  <2>2. 1 \in Int /\ n \in Int /\ n \in Nat
    BY <2>1 DEF n
  <2>3. IsFiniteSet(1..n) /\ Cardinality(1..n) = IF 1 > n THEN 0 ELSE n - 1 + 1
    BY <2>2, FS_Interval
  <2>4. Cardinality(1..n) = n
    BY <2>2, <2>3
  <2> QED BY <2>1, <2>3, <2>4 DEF n
<1> QED BY <1>1, <1>2, FS_Subset, FS_CardinalityType

(* What a suggestion says stays sound when more is sold.                   *)
LEMMA SoundStays ==
  ASSUME NEW subject, NEW levels, Sound(subject, levels),
         facts \subseteq facts', facts \in SUBSET SoldOut, IsFiniteSet(facts),
         facts' \in SUBSET SoldOut, IsFiniteSet(facts')
  PROVE  Sound(subject, levels)'
<1>1. With(facts, subject[1]) \in SUBSET With(facts', subject[1])
  BY DEF With, Of
<1>2. Cardinality(With(facts, subject[1])) <= Cardinality(With(facts', subject[1]))
  BY <1>1, WithFacts, FS_Subset
<1>3. /\ Cardinality(With(facts, subject[1])) \in Nat
      /\ Cardinality(With(facts', subject[1])) \in Nat
  BY WithFacts
<1> QED BY <1>2, <1>3 DEF Sound

(* A product that is in few orders was not in more before.                 *)
LEMMA FewBefore ==
  ASSUME facts \subseteq facts', facts \in SUBSET SoldOut, IsFiniteSet(facts),
         facts' \in SUBSET SoldOut, IsFiniteSet(facts'), NEW p, Few(p)'
  PROVE  Few(p)
<1>1. With(facts, p) \in SUBSET With(facts', p)
  BY DEF With, Of
<1>2. Cardinality(With(facts, p)) <= Cardinality(With(facts', p))
  BY <1>1, WithFacts, FS_Subset
<1>3. Cardinality(With(facts, p)) \in Nat /\ Cardinality(With(facts', p)) \in Nat
  BY WithFacts
<1>4. Cardinality(With(facts', p)) <= 5
  BY DEF Few
<1> QED BY <1>2, <1>3, <1>4 DEF Few

(* A session goes on in one respect and stays as it is in the others.      *)
LEMMA GoFacts ==
  ASSUME Tables, NEW s \in Sessions, DOMAIN job[s] = Fields,
         NEW change, DOMAIN change \subseteq Fields, Go(s, change)
  PROVE  /\ job' = [t \in Sessions |-> job'[t]]
         /\ \A t \in Sessions \ {s} : job'[t] = job[t]
         /\ DOMAIN job'[s] = Fields
         /\ \A x \in Fields : job'[s][x] = IF x \in DOMAIN change THEN change[x] ELSE job[s][x]
<1>1. job'[s] = Updated(job[s], change) /\ \A t \in Sessions \ {s} : job'[t] = job[t]
  BY DEF Go, Tables
<1>2. job' = [t \in Sessions |-> job'[t]]
  BY DEF Go, Tables
<1>3. DOMAIN Updated(job[s], change) = DOMAIN job[s] \cup DOMAIN change
  BY UpdatedFacts
<1>4. \A x \in DOMAIN job[s] \cup DOMAIN change :
        Updated(job[s], change)[x] = IF x \in DOMAIN change THEN change[x] ELSE job[s][x]
  BY UpdatedFacts
<1> QED BY <1>1, <1>2, <1>3, <1>4

(* What a session sees are sold goods.                                     *)
LEMMA SeenFacts ==
  ASSUME Inv, NEW s \in Sessions
  PROVE  Seen(s) \in SUBSET SoldOut /\ IsFiniteSet(Seen(s))
  BY FS_Union DEF Inv, Books, Tables, Local, Shape, Seen

(* What a session has done stays done while the others work.               *)
LEMMA LocalKept ==
  ASSUME Inv, NEW s \in Sessions, NEW t \in Sessions \ {s},
         job'[t] = job[t], mine'[t] = mine[t], drafts'[t] = drafts[t],
         \A u \in Sessions \ {s} : job'[u] = job[u],
         facts \subseteq facts', facts' \in SUBSET SoldOut, IsFiniteSet(facts'),
         DOMAIN reports \subseteq DOMAIN reports',
         done' \subseteq done \/ (Busy(s) /\ done' \subseteq done \cup {job[s].sale}),
         Busy(t) => job'[s].sale # job[t].sale
  PROVE  Local(t)'
<1>1. Local(t) /\ Local(s) /\ facts \in SUBSET SoldOut /\ IsFiniteSet(facts)
  BY DEF Inv, Books
<1>2. Busy(t)' = Busy(t) /\ Item(t)' = Item(t) /\ \A i : Past(t, i)' = Past(t, i)
  BY DEF Busy, Item, Past
<1>3. Seen(t) \subseteq Seen(t)' /\ Subjects(t) \subseteq Subjects(t)'
  BY DEF Seen, Subjects
<1>4. \A p : With(Seen(t), p) \subseteq With(Seen(t)', p) /\ With(facts, p) \subseteq With(facts', p)
  BY <1>3 DEF With, Of
<1>5. Shape(t)'
  <2>1. Busy(t) => job[t].sale \notin done'
    BY <1>1 DEF Local, Shape, Alone
  <2> QED BY <1>1, <1>2, <2>1 DEF Local, Shape
<1>6. Alone(t)'
  BY <1>1, <1>2 DEF Local, Alone
<1>7. Drafted(t)'
  <2>1. \A x, v : Sound(x, v) => Sound(x, v)'
    BY <1>1, SoundStays
  <2> QED BY <1>1, <1>2, <2>1 DEF Local, Drafted
<1>8. StockDone(t)'
  BY <1>1, <1>2, <1>3, <1>4 DEF Local, StockDone
<1>9. SalesDone(t)'
  <2>1. \A p : Few(p)' => Few(p)
    BY <1>1, FewBefore
  <2> QED BY <1>1, <1>2, <1>3, <1>4, <2>1 DEF Local, SalesDone
<1> QED BY <1>5, <1>6, <1>7, <1>8, <1>9 DEF Local
-------------------------------------------------------------------------------
(* Steps of one session that commit nothing. *)

(* Session s alone goes on.                                                *)
OwnStep(s) ==
  /\ UNCHANGED <<facts, reports, done>>
  /\ behind' \in [Sales -> SUBSET Sessions] /\ aborts' \in 0..MaxAborts
  /\ Tables'
  /\ \A t \in Sessions \ {s} :
       /\ job'[t] = job[t] /\ mine'[t] = mine[t] /\ drafts'[t] = drafts[t]
       /\ Busy(t) => job'[s].sale # job[t].sale

(* Such a step keeps the invariant if what it leaves behind of s does.     *)
LEMMA OwnStepKeeps ==
  ASSUME Inv, NEW s \in Sessions, OwnStep(s),
         Shape(s)', Drafted(s)', StockDone(s)', SalesDone(s)'
  PROVE  Inv'
<1>1. facts' \in SUBSET SoldOut /\ IsFiniteSet(facts') /\ facts \subseteq facts'
      /\ DOMAIN reports \subseteq DOMAIN reports' /\ done' \subseteq done
  BY DEF Inv, Books, OwnStep
<1>2. ASSUME NEW t \in Sessions \ {s} PROVE Local(t)'
  <2>1. /\ job'[t] = job[t] /\ mine'[t] = mine[t] /\ drafts'[t] = drafts[t]
        /\ Busy(t) => job'[s].sale # job[t].sale
        /\ \A u \in Sessions \ {s} : job'[u] = job[u]
    BY DEF OwnStep
  <2> QED BY <1>1, <2>1, LocalKept
<1>3. Alone(s)'
  <2> SUFFICES ASSUME NEW t \in Sessions \ {s}, Busy(s)' PROVE job'[t].sale # job'[s].sale
    BY DEF Alone
  <2>1. job'[t] = job[t] /\ (Busy(t) => job'[s].sale # job[t].sale)
    BY DEF OwnStep
  <2>2. job'[s].sale \in Sales
    BY DEF Shape
  <2>3. ~Busy(t) => job[t].sale = 0
    BY DEF Inv, Local, Shape
  <2> QED BY <2>1, <2>2, <2>3, SaleFacts
<1>4. Local(s)'
  BY <1>3 DEF Local
<1>5. Books'
  <2>1. \A x, v : Sound(x, v) => Sound(x, v)'
    BY DEF Sound, OwnStep
  <2> QED BY <2>1 DEF Inv, Books, OwnStep
<1>6. Alerted'
  BY DEF Inv, Alerted, OwnStep
<1>7. Booked'
  BY DEF Inv, Booked, Few, OwnStep
<1>8. Tables'
  BY DEF OwnStep
<1> QED BY <1>2, <1>4, <1>5, <1>6, <1>7, <1>8 DEF Inv

(* A session goes on with its sale.                                        *)
LEMMA GoIsOwn ==
  ASSUME Inv, NEW s \in Sessions, Busy(s),
         NEW change, DOMAIN change \subseteq {"pc", "line", "todo", "row"}, Go(s, change),
         UNCHANGED <<facts, reports, done, behind, aborts>>,
         mine' \in [Sessions -> SUBSET SoldOut], drafts' = [t \in Sessions |-> drafts'[t]],
         \A t \in Sessions \ {s} : mine'[t] = mine[t] /\ drafts'[t] = drafts[t]
  PROVE  /\ OwnStep(s)
         /\ DOMAIN job'[s] = Fields
         /\ \A x \in Fields : job'[s][x] = IF x \in DOMAIN change THEN change[x] ELSE job[s][x]
         /\ job'[s].sale = job[s].sale /\ job'[s].engine = job[s].engine
<1>1. Tables /\ DOMAIN job[s] = Fields
  BY DEF Inv, Local, Shape
<1>2. DOMAIN change \subseteq Fields
  BY DEF Fields
<1>3. /\ job' = [t \in Sessions |-> job'[t]]
      /\ \A t \in Sessions \ {s} : job'[t] = job[t]
      /\ DOMAIN job'[s] = Fields
      /\ \A x \in Fields : job'[s][x] = IF x \in DOMAIN change THEN change[x] ELSE job[s][x]
  BY <1>1, <1>2, GoFacts
<1>4. job'[s].sale = job[s].sale /\ job'[s].engine = job[s].engine
  <2>1. "sale" \in Fields /\ "engine" \in Fields
        /\ "sale" \notin DOMAIN change /\ "engine" \notin DOMAIN change
    BY DEF Fields
  <2> QED BY <1>3, <2>1
<1>5. Tables'
  BY <1>3 DEF Tables
<1>6. \A t \in Sessions \ {s} : Busy(t) => job'[s].sale # job[t].sale
  BY <1>4 DEF Inv, Local, Alone
<1>7. behind' \in [Sales -> SUBSET Sessions] /\ aborts' \in 0..MaxAborts
  BY DEF Inv, Books
<1>8. OwnStep(s)
  BY <1>3, <1>5, <1>6, <1>7 DEF OwnStep
<1> QED BY <1>3, <1>4, <1>8

(* What a session has to leave behind of the line it goes on from.         *)
LineIsDone(s) ==
  /\ job[s].engine = "stock" =>
       /\ job[s].sale \in With(Seen(s), Item(s).product)
       /\ \A f \in mine[s] : <<f.product>> \in Subjects(s)'
  /\ job[s].engine = "sales" /\ Few(Item(s).product) =>
       \A j \in DOMAIN Lines[job[s].sale] :
         Item(s).product # Bought(job[s].sale, j)
           => <<Item(s).product, Bought(job[s].sale, j)>> \in Subjects(s)'

(* It goes on to the next line, or to its commit.                          *)
LEMMA AdvanceStep ==
  ASSUME Inv, NEW s \in Sessions, Busy(s), job[s].pc # "commit", Go(s, Advance(s)),
         UNCHANGED <<facts, reports, done, mine, behind, aborts>>,
         drafts' = [t \in Sessions |-> drafts'[t]],
         \A t \in Sessions \ {s} : drafts'[t] = drafts[t],
         DOMAIN drafts[s] \subseteq DOMAIN drafts'[s], DOMAIN drafts'[s] \subseteq Row,
         \A r \in DOMAIN drafts'[s] : Sound(r.subject, drafts'[s][r]),
         LineIsDone(s)
  PROVE  Inv'
<1> DEFINE e == job[s].sale
           n == job[s].line
<1>1. Local(s)
  BY DEF Inv
<1>2. e \in Sales /\ n \in 1..Len(Lines[e]) /\ Len(Lines[e]) \in Nat \ {0}
      /\ DOMAIN Lines[e] = 1..Len(Lines[e])
  BY <1>1, SaleFacts DEF Local, Shape
<1>3. mine' \in [Sessions -> SUBSET SoldOut] /\ \A t \in Sessions : mine'[t] = mine[t]
  BY DEF Inv, Tables
<1>4. DOMAIN Advance(s) \subseteq {"pc", "line", "todo", "row"}
  BY DEF Advance
<1>5. /\ OwnStep(s)
      /\ DOMAIN job'[s] = Fields
      /\ \A x \in Fields : job'[s][x] = IF x \in DOMAIN Advance(s) THEN Advance(s)[x] ELSE job[s][x]
      /\ job'[s].sale = e /\ job'[s].engine = job[s].engine
  BY <1>3, <1>4, GoIsOwn
<1>6. /\ job'[s].pc \in {"line", "commit"} /\ job'[s].line \in 1..Len(Lines[e])
      /\ job'[s].pc = "commit" => job'[s].line = Len(Lines[e])
      /\ \A i \in DOMAIN Lines[e] : Past(s, i)' <=> i = n \/ Past(s, i)
  <2>1. \A i \in DOMAIN Lines[e] : i = n \/ Past(s, i) <=> i <= n
    BY <1>2 DEF Past
  <2>2. CASE n < Len(Lines[e])
    <3>1. Advance(s) = [pc |-> "line", line |-> n + 1, todo |-> <<>>]
      BY <2>2 DEF Advance
    <3>2. job'[s].pc = "line" /\ job'[s].line = n + 1
      BY <1>5, <3>1 DEF Fields
    <3>3. n + 1 \in 1..Len(Lines[e]) /\ \A i \in DOMAIN Lines[e] : Past(s, i)' <=> i <= n
      BY <1>2, <2>2, <3>2 DEF Past
    <3> QED BY <2>1, <3>2, <3>3
  <2>3. CASE ~(n < Len(Lines[e]))
    <3>1. Advance(s) = [pc |-> "commit", todo |-> <<>>]
      BY <2>3 DEF Advance
    <3>2. job'[s].pc = "commit" /\ job'[s].line = n
      BY <1>5, <3>1 DEF Fields
    <3>3. n = Len(Lines[e]) /\ \A i \in DOMAIN Lines[e] : Past(s, i)' <=> i <= n
      BY <1>2, <2>3, <3>2 DEF Past
    <3> QED BY <1>2, <2>1, <3>2, <3>3
  <2> QED BY <2>2, <2>3
<1> HIDE DEF e, n
<1>7. /\ Seen(s)' = Seen(s) /\ Subjects(s) \subseteq Subjects(s)' /\ facts' = facts
      /\ mine'[s] = mine[s]
      /\ \A F, p : With(F, p)' = With(F, p)
      /\ \A p : Few(p)' <=> Few(p)
  BY <1>3 DEF Seen, Subjects, With, Of, Few
<1>8. Shape(s)'
  <2>1. e \in Sales \ done' /\ IsFiniteSet(mine'[s])
    BY <1>1, <1>7 DEF Local, Shape, e
  <2>2. job'[s].engine = "sales" => mine'[s] = {}
    BY <1>1, <1>5, <1>7 DEF Local, Shape
  <2>3. job'[s].engine \in {"stock", "sales"}
    BY <1>1, <1>5 DEF Local, Shape
  <2> QED BY <1>2, <1>5, <1>6, <2>1, <2>2, <2>3 DEF Shape, Busy
<1>9. Drafted(s)'
  <2>1. \A x, v : Sound(x, v)' = Sound(x, v)
    BY <1>7 DEF Sound
  <2> QED BY <1>6, <2>1 DEF Drafted
<1>10. StockDone(s)'
  <2> SUFFICES ASSUME job'[s].engine = "stock"
               PROVE  /\ \A i \in DOMAIN Lines[e] : Past(s, i)' => e \in With(Seen(s), Bought(e, i))
                      /\ \A f \in mine[s] : <<f.product>> \in Subjects(s)'
    BY <1>5, <1>7 DEF StockDone
  <2>1. job[s].engine = "stock"
    BY <1>5
  <2>2. \A i \in DOMAIN Lines[e] : Past(s, i) => e \in With(Seen(s), Bought(e, i))
    BY <1>1, <2>1 DEF Local, StockDone, e
  <2>3. e \in With(Seen(s), Bought(e, n)) /\ \A f \in mine[s] : <<f.product>> \in Subjects(s)'
    BY <2>1 DEF LineIsDone, Item, Bought, e, n
  <2> QED BY <1>6, <2>2, <2>3
<1>11. SalesDone(s)'
  <2> SUFFICES ASSUME job'[s].engine = "sales", NEW i \in DOMAIN Lines[e]
               PROVE  /\ e \in With(facts, Bought(e, i))
                      /\ Few(Bought(e, i)) /\ Past(s, i)' => \A j \in DOMAIN Lines[e] :
                           Bought(e, i) # Bought(e, j) => <<Bought(e, i), Bought(e, j)>> \in Subjects(s)'
    BY <1>5, <1>7 DEF SalesDone
  <2>1. job[s].engine = "sales"
    BY <1>5
  <2>2. e \in With(facts, Bought(e, i))
    BY <1>1, <2>1 DEF Local, SalesDone, e
  <2>3. ASSUME Few(Bought(e, n)), NEW j \in DOMAIN Lines[e], Bought(e, n) # Bought(e, j)
        PROVE  <<Bought(e, n), Bought(e, j)>> \in Subjects(s)'
    BY <2>1, <2>3 DEF LineIsDone, Item, Bought, e, n
  <2>4. ASSUME Few(Bought(e, i)), Past(s, i), i # n, NEW j \in DOMAIN Lines[e], Bought(e, i) # Bought(e, j)
        PROVE  <<Bought(e, i), Bought(e, j)>> \in Subjects(s)'
    <3>1. \/ <<Bought(e, i), Bought(e, j)>> \in Subjects(s)
          \/ /\ job[s].pc \in {"find", "write"}
             /\ <<Bought(e, i), Bought(e, j)>> \in DOMAIN job[s].todo
      BY <1>1, <2>1, <2>4 DEF Local, SalesDone, e
    <3>2. <<Bought(e, i), Bought(e, j)>> \in DOMAIN job[s].todo /\ job[s].pc \in {"find", "write"}
            => Bought(e, i) = Bought(e, n)
      BY <1>1, <2>1 DEF Local, Drafted, Item, Bought, e, n
    <3> QED BY <1>7, <2>3, <2>4, <3>1, <3>2
  <2> QED BY <1>6, <2>2, <2>3, <2>4
<1> QED BY <1>5, <1>8, <1>9, <1>10, <1>11, OwnStepKeeps
-------------------------------------------------------------------------------
(* The actions. *)

(* A session begins a sale no other session has.                           *)
LEMMA BeginStep ==
  ASSUME Inv, NEW s \in Sessions, NEW e \in Sales, Begin(s, e)
  PROVE  Inv'
<1> DEFINE change == [pc |-> "line", sale |-> e, line |-> 1]
<1>1. /\ Go(s, change) /\ e \notin done /\ job[s].pc = "idle" /\ \A t \in Sessions : job[t].sale # e
      /\ UNCHANGED <<facts, reports, done, mine, drafts, behind, aborts>>
  BY DEF Begin
<1>2. Tables /\ Local(s)
  BY DEF Inv
<1>3. DOMAIN change = {"pc", "sale", "line"} /\ DOMAIN change \subseteq Fields
      /\ change["pc"] = "line" /\ change["sale"] = e /\ change["line"] = 1
  BY DEF Fields
<1> HIDE DEF change
<1>4. /\ job' = [t \in Sessions |-> job'[t]]
      /\ \A t \in Sessions \ {s} : job'[t] = job[t]
      /\ DOMAIN job'[s] = Fields
      /\ \A x \in Fields : job'[s][x] = IF x \in DOMAIN change THEN change[x] ELSE job[s][x]
  BY <1>1, <1>2, <1>3, GoFacts DEF Local, Shape
<1>5. job'[s].pc = "line" /\ job'[s].sale = e /\ job'[s].line = 1 /\ job'[s].engine = job[s].engine
  BY <1>3, <1>4 DEF Fields
<1>6. job'[s].engine = "stock" /\ mine[s] = {} /\ DOMAIN drafts[s] = {}
  BY <1>1, <1>2, <1>5 DEF Local, Shape, Busy
<1>7. mine' = mine /\ drafts' = drafts
  BY <1>1
<1>8. OwnStep(s)
  <2>1. Tables'
    BY <1>2, <1>4, <1>7 DEF Tables
  <2> QED BY <1>1, <1>4, <1>5, <2>1 DEF OwnStep, Inv, Books
<1>9. Len(Lines[e]) \in Nat \ {0} /\ DOMAIN Lines[e] = 1..Len(Lines[e])
  BY SaleFacts
<1>10. Shape(s)'
  <2>1. 1 \in DOMAIN Lines[e]
    BY <1>9
  <2>2. IsFiniteSet(mine'[s])
    BY <1>2, <1>7 DEF Local, Shape
  <2> QED BY <1>1, <1>4, <1>5, <1>6, <1>7, <2>1, <2>2 DEF Shape, Busy
<1>11. Drafted(s)'
  BY <1>5, <1>6, <1>7 DEF Drafted
<1>12. StockDone(s)'
  <2>1. \A i \in DOMAIN Lines[e] : ~Past(s, i)'
    BY <1>5, <1>9 DEF Past
  <2> QED BY <1>5, <1>6, <1>7, <2>1 DEF StockDone
<1>13. SalesDone(s)'
  BY <1>6 DEF SalesDone
<1> QED BY <1>8, <1>10, <1>11, <1>12, <1>13, OwnStepKeeps

(* What a session at work knows of its line.                               *)
LEMMA ItemFacts ==
  ASSUME Inv, NEW s \in Sessions, Busy(s)
  PROVE  /\ job[s].sale \in Sales /\ job[s].line \in DOMAIN Lines[job[s].sale]
         /\ Item(s).product = Bought(job[s].sale, job[s].line)
         /\ Item(s).product \in Products /\ Item(s).quantity \in Nat \ {0}
         /\ job[s].line \in Nat /\ DOMAIN Lines[job[s].sale] \subseteq Nat
<1>1. job[s].sale \in Sales /\ job[s].line \in DOMAIN Lines[job[s].sale]
  BY DEF Inv, Local, Shape
<1> QED BY <1>1, SaleFacts DEF Item, Bought

(* The stock engine records a line of a sale, unless it has.               *)
LEMMA RecordSaleStep ==
  ASSUME Inv, NEW s \in Sessions, RecordSale(s)
  PROVE  Inv'
<1> DEFINE e == job[s].sale
           p == Item(s).product
<1>1. job[s].engine = "stock" /\ job[s].pc = "line" /\ Busy(s)
  BY DEF RecordSale, At, Busy
<1>2. Local(s) /\ Tables
  BY DEF Inv
<1>3. UNCHANGED <<facts, reports, done, drafts, behind, aborts>>
  BY DEF RecordSale
<1>4. \A f \in mine[s] : <<f.product>> \in Subjects(s)
  BY <1>1, <1>2 DEF Local, StockDone
<1>5. CASE Recorded(s)
  <2>1. Go(s, Advance(s)) /\ UNCHANGED mine
    BY <1>5 DEF RecordSale
  <2>2. e \in With(Seen(s), p)
    BY <1>5 DEF Recorded, With, Of
  <2>3. Subjects(s)' = Subjects(s)
    BY <1>3 DEF Subjects
  <2>4. LineIsDone(s)
    BY <1>1, <1>4, <2>2, <2>3 DEF LineIsDone
  <2>5. drafts' = [t \in Sessions |-> drafts'[t]] /\ \A t \in Sessions : drafts'[t] = drafts[t]
    BY <1>2, <1>3 DEF Tables
  <2>6. DOMAIN drafts'[s] \subseteq Row /\ \A r \in DOMAIN drafts'[s] : Sound(r.subject, drafts'[s][r])
    BY <1>2, <2>5 DEF Local, Shape, Drafted
  <2> QED BY <1>1, <1>3, <2>1, <2>4, <2>5, <2>6, AdvanceStep
<1>6. CASE ~Recorded(s)
  <2> DEFINE fact == [sale |-> e, product |-> p, quantity |-> Item(s).quantity, after |-> 0]
             change == [pc |-> "assess"]
  <2>1. CurrentStock(Seen(s), p) - Item(s).quantity < 0
    <3>1. Sold(Seen(s), p) \in Nat /\ CurrentStock(Seen(s), p) = 0 - Sold(Seen(s), p)
      BY SeenFacts, StockFacts
    <3>2. Item(s).quantity \in Nat \ {0}
      BY <1>1, ItemFacts
    <3> QED BY <3>1, <3>2
  <2>2. mine' = [mine EXCEPT ![s] = @ \cup {fact}] /\ Go(s, change)
    BY <1>6, <2>1 DEF RecordSale
  <2>3. fact \in SoldOut
    BY <1>1, ItemFacts DEF SoldOut
  <2>4. fact.sale = e /\ fact.product = p
    OBVIOUS
  <2>5. DOMAIN change = {"pc"} /\ change["pc"] = "assess"
    OBVIOUS
  <2> HIDE DEF fact, change
  <2>6. /\ mine' \in [Sessions -> SUBSET SoldOut] /\ mine'[s] = mine[s] \cup {fact}
        /\ \A t \in Sessions \ {s} : mine'[t] = mine[t]
    BY <1>2, <2>2, <2>3 DEF Tables
  <2>7. drafts' = [t \in Sessions |-> drafts'[t]] /\ \A t \in Sessions : drafts'[t] = drafts[t]
    BY <1>2, <1>3 DEF Tables
  <2>8. /\ OwnStep(s)
        /\ DOMAIN job'[s] = Fields
        /\ \A x \in Fields : job'[s][x] = IF x \in DOMAIN change THEN change[x] ELSE job[s][x]
        /\ job'[s].sale = e /\ job'[s].engine = job[s].engine
    BY <1>1, <1>3, <2>2, <2>5, <2>6, <2>7, GoIsOwn
  <2>9. job'[s].pc = "assess" /\ job'[s].line = job[s].line
    BY <2>5, <2>8 DEF Fields
  <2>10. Shape(s)'
    <3>1. IsFiniteSet(mine'[s])
      BY <1>2, <2>6, FS_AddElement DEF Local, Shape
    <3> QED BY <1>1, <1>2, <1>3, <2>7, <2>8, <2>9, <3>1 DEF Local, Shape, Busy
  <2>11. Drafted(s)'
    <3>1. \A x, v : Sound(x, v)' = Sound(x, v)
      BY <1>3 DEF Sound, With, Of
    <3> QED BY <1>2, <2>7, <2>9, <3>1 DEF Local, Drafted
  <2>12. StockDone(s)'
    <3>1. \A i \in DOMAIN Lines[e] : Past(s, i)' <=> i = job[s].line \/ Past(s, i)
      BY <1>1, <2>9, ItemFacts DEF Past
    <3>2. Seen(s)' = Seen(s) \cup {fact} /\ Subjects(s)' = Subjects(s)
      BY <1>3, <2>6 DEF Seen, Subjects
    <3>3. \A q : With(Seen(s), q) \subseteq With(Seen(s)', q)
      BY <3>2 DEF With, Of
    <3>4. e \in With(Seen(s)', p)
      BY <2>4, <3>2 DEF With, Of
    <3>5. \A i \in DOMAIN Lines[e] : Past(s, i) => e \in With(Seen(s), Bought(e, i))
      BY <1>1, <1>2 DEF Local, StockDone
    <3>6. Bought(e, job[s].line) = p /\ Item(s)' = Item(s)
      BY <1>1, <2>8, <2>9, ItemFacts DEF Item
    <3>7. \A i \in DOMAIN Lines[e] : Past(s, i)' => e \in With(Seen(s)', Bought(e, i))
      BY <3>1, <3>3, <3>4, <3>5, <3>6
    <3>8. \A f \in mine'[s] : <<f.product>> \in Subjects(s)' \/ f.product = Item(s)'.product
      BY <1>4, <2>4, <2>6, <3>2, <3>6
    <3> QED BY <2>8, <2>9, <3>7, <3>8 DEF StockDone, With, Of
  <2>13. SalesDone(s)'
    BY <1>1, <2>8 DEF SalesDone
  <2> QED BY <2>8, <2>10, <2>11, <2>12, <2>13, OwnStepKeeps
<1> QED BY <1>5, <1>6

(* What is not written, or not counted, leaves nothing to find.            *)
LEMMA NoKeys ==
  ASSUME NEW f, f = [x \in DOMAIN f |-> f[x]]
  PROVE  f = <<>> <=> DOMAIN f = {}
<1>1. f = <<>> => DOMAIN f = {}
  OBVIOUS
<1>2. ASSUME DOMAIN f = {} PROVE f = <<>>
  <2>1. <<>> = [x \in {} |-> f[x]]
    OBVIOUS
  <2> QED BY <1>2, <2>1
<1> QED BY <1>1, <1>2

(* A session goes on to find the rows of what it has to write.             *)
LEMMA FindStep ==
  ASSUME Inv, NEW s \in Sessions, Find(s)
  PROVE  Inv'
<1>1. job[s].pc = "find" /\ Busy(s)
      /\ UNCHANGED <<facts, reports, done, mine, drafts, behind, aborts>>
  BY DEF Find, Busy
<1>2. Local(s) /\ Tables
  BY DEF Inv
<1>3. PICK subject, r :
        /\ subject \in DOMAIN job[s].todo
        /\ Go(s, [pc |-> "write", row |-> r])
        /\ \/ r = [by |-> job[s].sale, subject |-> subject]
           \/ r \in DOMAIN reports \cup DOMAIN drafts[s] /\ r.subject = subject
  BY DEF Find
<1>4. r \in Row /\ r.subject = subject
  <2>1. job[s].sale \in Sales /\ subject \in Subject
    BY <1>1, <1>2, <1>3, ItemFacts DEF Local, Drafted
  <2>2. DOMAIN reports \subseteq Row /\ DOMAIN drafts[s] \subseteq Row
    BY <1>2 DEF Inv, Books, Local, Shape
  <2> QED BY <1>3, <2>1, <2>2 DEF Row
<1> DEFINE change == [pc |-> "write", row |-> r]
<1>5. DOMAIN change = {"pc", "row"} /\ change["pc"] = "write" /\ change["row"] = r
  OBVIOUS
<1>6. Go(s, change)
  BY <1>3
<1> HIDE DEF change
<1>7. /\ mine' \in [Sessions -> SUBSET SoldOut] /\ mine' = mine
      /\ drafts' = [t \in Sessions |-> drafts'[t]] /\ drafts' = drafts
  BY <1>1, <1>2 DEF Tables
<1>8. /\ OwnStep(s)
      /\ DOMAIN job'[s] = Fields
      /\ \A x \in Fields : job'[s][x] = IF x \in DOMAIN change THEN change[x] ELSE job[s][x]
      /\ job'[s].sale = job[s].sale /\ job'[s].engine = job[s].engine
  BY <1>1, <1>5, <1>6, <1>7, GoIsOwn
<1>9. /\ job'[s].pc = "write" /\ job'[s].row = r
      /\ job'[s].line = job[s].line /\ job'[s].todo = job[s].todo
  BY <1>5, <1>8 DEF Fields
<1>10. Seen(s)' = Seen(s) /\ Subjects(s)' = Subjects(s) /\ Item(s)' = Item(s)
       /\ (\A i : Past(s, i)' <=> Past(s, i)) /\ Busy(s)'
  BY <1>1, <1>8, <1>9 DEF Seen, Subjects, Item, Past, Busy
<1>11. Shape(s)'
  BY <1>1, <1>2, <1>8, <1>9, <1>10 DEF Local, Shape
<1>12. Drafted(s)'
  <2>1. \A x, v : Sound(x, v)' = Sound(x, v)
    BY <1>1 DEF Sound, With, Of
  <2> QED BY <1>1, <1>2, <1>3, <1>4, <1>7, <1>8, <1>9, <1>10, <2>1 DEF Local, Drafted
<1>13. StockDone(s)'
  BY <1>1, <1>2, <1>7, <1>8, <1>9, <1>10 DEF Local, StockDone, With, Of
<1>14. SalesDone(s)'
  <2>1. \A p : Few(p)' <=> Few(p)
    BY <1>8 DEF OwnStep, Few, With, Of
  <2>2. \A p : With(facts, p)' = With(facts, p)
    BY <1>8 DEF OwnStep, With, Of
  <2> QED BY <1>1, <1>2, <1>8, <1>9, <1>10, <2>1, <2>2 DEF Local, SalesDone
<1> QED BY <1>8, <1>11, <1>12, <1>13, <1>14, OwnStepKeeps

(* A session is sent to find rows for what it has to say.                  *)
LEMMA ToFind ==
  ASSUME Inv, NEW s \in Sessions, Busy(s), job[s].pc # "commit", NEW todo,
         Go(s, [pc |-> "find", todo |-> todo]),
         UNCHANGED <<facts, reports, done, mine, behind, aborts>>,
         drafts' = [t \in Sessions |-> drafts'[t]],
         \A t \in Sessions \ {s} : drafts'[t] = drafts[t],
         DOMAIN drafts[s] \subseteq DOMAIN drafts'[s], DOMAIN drafts'[s] \subseteq Row,
         \A r \in DOMAIN drafts'[s] : Sound(r.subject, drafts'[s][r]),
         DOMAIN todo # {}, DOMAIN todo \subseteq Subject, \A x \in DOMAIN todo : Sound(x, todo[x]),
         job[s].engine = "stock" =>
           /\ job[s].pc # "line" /\ DOMAIN todo = {<<Item(s).product>>},
         job[s].engine = "sales" =>
           /\ DOMAIN todo \subseteq {Item(s).product} \X Products
           /\ Few(Item(s).product) => \A j \in DOMAIN Lines[job[s].sale] :
                LET pair == <<Item(s).product, Bought(job[s].sale, j)>>
                IN pair[1] # pair[2] => pair \in Subjects(s)' \cup DOMAIN todo
  PROVE  Inv'
<1> DEFINE change == [pc |-> "find", todo |-> todo]
           e == job[s].sale
           n == job[s].line
<1>1. DOMAIN change = {"pc", "todo"} /\ change["pc"] = "find" /\ change["todo"] = todo
      /\ Go(s, change)
  OBVIOUS
<1> HIDE DEF change
<1>2. Local(s) /\ Tables
  BY DEF Inv
<1>3. mine' \in [Sessions -> SUBSET SoldOut] /\ mine' = mine
  BY <1>2 DEF Tables
<1>4. /\ OwnStep(s)
      /\ DOMAIN job'[s] = Fields
      /\ \A x \in Fields : job'[s][x] = IF x \in DOMAIN change THEN change[x] ELSE job[s][x]
      /\ job'[s].sale = e /\ job'[s].engine = job[s].engine
  BY <1>1, <1>3, GoIsOwn
<1>5. job'[s].pc = "find" /\ job'[s].line = n /\ job'[s].todo = todo
  BY <1>1, <1>4 DEF Fields
<1> HIDE DEF e, n
<1>6. Item(s)' = Item(s) /\ e \in Sales /\ n \in DOMAIN Lines[e] /\ Item(s).product = Bought(e, n)
  BY <1>4, <1>5, ItemFacts DEF Item, e, n
<1>7. \A i \in DOMAIN Lines[e] : Past(s, i)' <=> i = n \/ Past(s, i)
  <2>1. n \in Nat /\ DOMAIN Lines[e] \subseteq Nat
    BY ItemFacts DEF e, n
  <2> QED BY <1>5, <2>1 DEF Past, n
<1>8. /\ Seen(s)' = Seen(s) /\ Subjects(s) \subseteq Subjects(s)' /\ facts' = facts
      /\ mine'[s] = mine[s]
      /\ \A F, p : With(F, p)' = With(F, p)
      /\ \A p : Few(p)' <=> Few(p)
  BY DEF Seen, Subjects, With, Of, Few
<1>9. Shape(s)'
  <2>1. IsFiniteSet(mine'[s]) /\ e \in Sales \ done'
    BY <1>2, <1>8 DEF Local, Shape, e
  <2> QED BY <1>2, <1>4, <1>5, <1>6, <1>8, <2>1 DEF Local, Shape, Busy
<1>10. Drafted(s)'
  <2>1. \A x, v : Sound(x, v)' = Sound(x, v)
    BY <1>8 DEF Sound
  <2>2. job[s].engine \in {"stock", "sales"}
    BY <1>2 DEF Local, Shape
  <2> QED BY <1>4, <1>5, <1>6, <2>1, <2>2 DEF Drafted
<1>11. StockDone(s)'
  <2> SUFFICES ASSUME job[s].engine = "stock"
               PROVE  /\ \A i \in DOMAIN Lines[e] : Past(s, i)' => e \in With(Seen(s), Bought(e, i))
                      /\ \A f \in mine[s] : <<f.product>> \in Subjects(s)'
                                            \/ f.product = Item(s).product
    BY <1>4, <1>5, <1>6, <1>8 DEF StockDone
  <2>1. Past(s, n)
    BY DEF Past, n
  <2>2. \A i \in DOMAIN Lines[e] : Past(s, i) => e \in With(Seen(s), Bought(e, i))
    BY <1>2 DEF Local, StockDone, e
  <2>3. \A f \in mine[s] : <<f.product>> \in Subjects(s) \/ f.product = Item(s).product
    BY <1>2 DEF Local, StockDone
  <2> QED BY <1>6, <1>7, <1>8, <2>1, <2>2, <2>3
<1>12. SalesDone(s)'
  <2> SUFFICES ASSUME job[s].engine = "sales", NEW i \in DOMAIN Lines[e]
               PROVE  /\ e \in With(facts, Bought(e, i))
                      /\ Few(Bought(e, i)) /\ Past(s, i)' => \A j \in DOMAIN Lines[e] :
                           Bought(e, i) # Bought(e, j) =>
                             <<Bought(e, i), Bought(e, j)>> \in Subjects(s)' \cup DOMAIN todo
    BY <1>4, <1>5, <1>8 DEF SalesDone
  <2>1. e \in With(facts, Bought(e, i))
    BY <1>2 DEF Local, SalesDone, e
  <2>2. ASSUME Few(Bought(e, n)), NEW j \in DOMAIN Lines[e], Bought(e, n) # Bought(e, j)
        PROVE  <<Bought(e, n), Bought(e, j)>> \in Subjects(s)' \cup DOMAIN todo
    BY <1>6, <2>2 DEF e
  <2>3. ASSUME Few(Bought(e, i)), Past(s, i), NEW j \in DOMAIN Lines[e], Bought(e, i) # Bought(e, j)
        PROVE  <<Bought(e, i), Bought(e, j)>> \in Subjects(s)' \cup DOMAIN todo
    <3>1. \/ <<Bought(e, i), Bought(e, j)>> \in Subjects(s)
          \/ /\ job[s].pc \in {"find", "write"}
             /\ <<Bought(e, i), Bought(e, j)>> \in DOMAIN job[s].todo
      BY <1>2, <2>3 DEF Local, SalesDone, e
    <3>2. <<Bought(e, i), Bought(e, j)>> \in DOMAIN job[s].todo /\ job[s].pc \in {"find", "write"}
            => Bought(e, i) = Bought(e, n)
      BY <1>2, <1>6 DEF Local, Drafted
    <3> QED BY <1>8, <2>2, <2>3, <3>1, <3>2
  <2> QED BY <1>7, <2>1, <2>2, <2>3
<1> QED BY <1>4, <1>9, <1>10, <1>11, <1>12, OwnStepKeeps

(* The stock engine assesses a product that was just sold: it is short.    *)
LEMMA AssessStep ==
  ASSUME Inv, NEW s \in Sessions, Assess(s)
  PROVE  Inv'
<1> DEFINE p == Item(s).product
<1>1. job[s].engine = "stock" /\ job[s].pc = "assess" /\ Busy(s)
      /\ UNCHANGED <<facts, reports, done, mine, drafts, behind, aborts>>
  BY DEF Assess, At, Busy
<1>2. Local(s) /\ Tables
  BY DEF Inv
<1>3. p \in Products
  BY <1>1, ItemFacts
<1>4. Of(Seen(s), p) # {}
  <2>1. Past(s, job[s].line)
    BY <1>1 DEF Past
  <2>2. job[s].sale \in With(Seen(s), p)
    BY <1>1, <1>2, <2>1, ItemFacts DEF Local, StockDone
  <2> QED BY <2>2 DEF With
<1>5. Sold(Seen(s), p) \in Nat /\ Sold(Seen(s), p) > 0 /\ CurrentStock(Seen(s), p) = 0 - Sold(Seen(s), p)
  BY <1>4, SeenFacts, StockFacts
<1>6. Short(Seen(s), p)
  <2>1. 900 * (0 - Sold(Seen(s), p)) < 84 * Sold(Seen(s), p)
    BY <1>5
  <2> QED BY <1>5, <2>1 DEF Short
<1>7. PICK todo : todo = [r \in {<<p>>} |-> <<CurrentStock(Seen(s), p)>>]
  OBVIOUS
<1>8. Go(s, [pc |-> "find", todo |-> todo])
  BY <1>6, <1>7 DEF Assess
<1>9. DOMAIN todo = {<<p>>} /\ todo[<<p>>] = <<CurrentStock(Seen(s), p)>>
  BY <1>7
<1>10. Sound(<<p>>, todo[<<p>>])
  <2>1. Len(<<p>>) = 1
    OBVIOUS
  <2>2. todo[<<p>>][1] \in Int /\ todo[<<p>>][1] < 0
    BY <1>5, <1>9
  <2> QED BY <2>1, <2>2 DEF Sound
<1>11. <<p>> \in Subject
  BY <1>3 DEF Subject
<1>12. drafts' = [t \in Sessions |-> drafts'[t]] /\ \A t \in Sessions : drafts'[t] = drafts[t]
  BY <1>1, <1>2 DEF Tables
<1>13. DOMAIN drafts'[s] \subseteq Row /\ \A r \in DOMAIN drafts'[s] : Sound(r.subject, drafts'[s][r])
  BY <1>2, <1>12 DEF Local, Shape, Drafted
<1> QED BY <1>1, <1>8, <1>9, <1>10, <1>11, <1>12, <1>13, ToFind

(* The orders with a product that the session sees.                        *)
LEMMA BothFacts ==
  ASSUME NEW F \in SUBSET SoldOut, IsFiniteSet(F), NEW p, NEW o
  PROVE  /\ Both(F, p, o) \in Nat /\ Both(F, p, o) <= Cardinality(With(F, p))
         /\ (\E e : e \in With(F, p) /\ e \in With(F, o)) => Both(F, p, o) > 0
<1>1. IsFiniteSet(With(F, p)) /\ Cardinality(With(F, p)) \in Nat
  BY WithFacts
<1>2. With(F, p) \cap With(F, o) \in SUBSET With(F, p)
  OBVIOUS
<1>3. IsFiniteSet(With(F, p) \cap With(F, o)) /\ Both(F, p, o) <= Cardinality(With(F, p))
  BY <1>1, <1>2, FS_Subset DEF Both
<1>4. Both(F, p, o) \in Nat
  BY <1>3, FS_CardinalityType DEF Both
<1>5. Both(F, p, o) = 0 => With(F, p) \cap With(F, o) = {}
  BY <1>3, FS_EmptySet DEF Both
<1> QED BY <1>3, <1>4, <1>5

(* The sales engine counts the orders a product is in with another.        *)
LEMMA CountStep ==
  ASSUME Inv, NEW s \in Sessions, Count(s)
  PROVE  Inv'
<1> DEFINE e == job[s].sale
           p == Item(s).product
           others == Companions(Seen(s), p)
<1>1. job[s].engine = "sales" /\ job[s].pc = "line" /\ Busy(s)
      /\ UNCHANGED <<facts, reports, done, mine, drafts, behind, aborts>>
  BY DEF Count, At, Busy
<1>2. Local(s) /\ Tables
  BY DEF Inv
<1>3. /\ e \in Sales /\ p \in Products /\ p = Bought(e, job[s].line)
      /\ job[s].line \in DOMAIN Lines[e]
  BY <1>1, ItemFacts
<1>4. Seen(s) = facts /\ facts \in SUBSET SoldOut /\ IsFiniteSet(facts)
  BY <1>1, <1>2 DEF Local, Shape, Seen, Inv, Books
<1>5. \A i \in DOMAIN Lines[e] : e \in With(facts, Bought(e, i))
  BY <1>1, <1>2 DEF Local, SalesDone
<1>6. ASSUME Few(p), NEW j \in DOMAIN Lines[e], p # Bought(e, j)
      PROVE  Bought(e, j) \in others
  <2> DEFINE o == Bought(e, j)
  <2>1. e \in With(facts, p) /\ e \in With(facts, o)
    BY <1>3, <1>5
  <2>2. Both(facts, p, o) \in Nat /\ Both(facts, p, o) > 0
    BY <1>4, <2>1, BothFacts
  <2>3. Cardinality(With(facts, p)) \in Nat /\ Cardinality(With(facts, p)) <= 5
    BY <1>4, <1>6, WithFacts DEF Few
  <2>4. 5 * Both(facts, p, o) >= Cardinality(With(facts, p))
    BY <2>2, <2>3
  <2>5. o \in Products \ {p}
    BY <1>3, <1>6, SaleFacts
  <2> QED BY <1>4, <2>2, <2>4, <2>5 DEF Companions
<1>7. drafts' = [t \in Sessions |-> drafts'[t]] /\ \A t \in Sessions : drafts'[t] = drafts[t]
  BY <1>1, <1>2 DEF Tables
<1>8. DOMAIN drafts'[s] \subseteq Row /\ \A r \in DOMAIN drafts'[s] : Sound(r.subject, drafts'[s][r])
  BY <1>2, <1>7 DEF Local, Shape, Drafted
<1>9. CASE others = {}
  <2>1. LineIsDone(s)
    BY <1>1, <1>6, <1>9 DEF LineIsDone
  <2>2. Go(s, Advance(s))
    BY <1>9 DEF Count
  <2> QED BY <1>1, <1>7, <1>8, <2>1, <2>2, AdvanceStep
<1>10. CASE others # {}
  <2>1. PICK todo : todo = [r \in {p} \X others |->
                              <<Both(Seen(s), p, r[2]), Cardinality(With(Seen(s), p))>>]
    OBVIOUS
  <2>2. Go(s, [pc |-> "find", todo |-> todo])
    BY <1>10, <2>1 DEF Count
  <2>3. others \in SUBSET Products /\ \A o \in others : Both(facts, p, o) > 0
    BY <1>4 DEF Companions
  <2> HIDE DEF others
  <2>4. DOMAIN todo = {p} \X others /\ DOMAIN todo # {} /\ DOMAIN todo \subseteq {p} \X Products
    <3>1. PICK o \in others : TRUE
      BY <1>10
    <3>2. DOMAIN todo = {p} \X others
      BY <2>1
    <3>3. <<p, o>> \in DOMAIN todo
      BY <3>1, <3>2
    <3>4. {p} \X others \subseteq {p} \X Products
      BY <2>3
    <3> QED BY <3>2, <3>3, <3>4
  <2>5. DOMAIN todo \subseteq Subject
    BY <1>3, <2>4 DEF Subject
  <2>6. ASSUME NEW x \in DOMAIN todo PROVE Sound(x, todo[x])
    <3>1. PICK o \in others : x = <<p, o>>
      BY <2>4
    <3>2. todo[x][1] = Both(facts, p, o) /\ todo[x][2] = Cardinality(With(facts, p))
      BY <1>4, <2>1, <3>1
    <3>3. Both(facts, p, o) \in Nat /\ Both(facts, p, o) <= Cardinality(With(facts, p))
      BY <1>4, BothFacts
    <3>4. Cardinality(With(facts, p)) \in Nat
      BY <1>4, WithFacts
    <3>5. Len(x) = 2 /\ x[1] = p
      BY <3>1
    <3>6. 2 # 1
      OBVIOUS
    <3> QED BY <2>3, <3>2, <3>3, <3>4, <3>5, <3>6 DEF Sound
  <2>7. ASSUME Few(p), NEW j \in DOMAIN Lines[e], p # Bought(e, j)
        PROVE  <<p, Bought(e, j)>> \in DOMAIN todo
    BY <1>6, <2>4, <2>7
  <2> QED BY <1>1, <1>7, <1>8, <2>2, <2>4, <2>5, <2>6, <2>7, ToFind
<1> QED BY <1>9, <1>10

(* A session writes to the row it has found.                               *)
LEMMA WriteStep ==
  ASSUME Inv, NEW s \in Sessions, Write(s)
  PROVE  Inv'
<1> DEFINE todo == job[s].todo
           row == job[s].row
           subject == row.subject
           left == [x \in DOMAIN todo \ {subject} |-> todo[x]]
           entry == [r \in {row} |-> todo[subject]]
           p == Item(s).product
<1>1. job[s].pc = "write" /\ Busy(s)
      /\ UNCHANGED <<facts, reports, done, mine, behind, aborts>>
      /\ drafts' = [drafts EXCEPT ![s] = Updated(@, entry)]
      /\ Go(s, IF left = <<>> THEN Advance(s) ELSE [pc |-> "find", todo |-> left])
  BY DEF Write, Busy
<1>2. Local(s) /\ Tables
  BY DEF Inv
<1>3. /\ DOMAIN todo \subseteq Subject /\ subject \in DOMAIN todo /\ row \in Row
      /\ \A x \in DOMAIN todo : Sound(x, todo[x])
      /\ IF job[s].engine = "stock" THEN DOMAIN todo = {<<p>>}
         ELSE DOMAIN todo \subseteq {p} \X Products
  BY <1>1, <1>2 DEF Local, Drafted
<1>4. DOMAIN entry = {row} /\ entry[row] = todo[subject]
  OBVIOUS
<1>5. DOMAIN left = DOMAIN todo \ {subject} /\ (\A x \in DOMAIN left : left[x] = todo[x])
      /\ left = [x \in DOMAIN left |-> left[x]]
  OBVIOUS
<1>6. PICK rest : rest = left
  OBVIOUS
<1> HIDE DEF todo, row, entry, left, subject
<1>7. drafts' = [t \in Sessions |-> drafts'[t]] /\ drafts'[s] = Updated(drafts[s], entry)
      /\ \A t \in Sessions \ {s} : drafts'[t] = drafts[t]
  BY <1>1, <1>2 DEF Tables
<1>8. /\ DOMAIN drafts'[s] = DOMAIN drafts[s] \cup {row}
      /\ \A r \in DOMAIN drafts'[s] : drafts'[s][r] = IF r = row THEN todo[subject] ELSE drafts[s][r]
  <2>1. DOMAIN Updated(drafts[s], entry) = DOMAIN drafts[s] \cup DOMAIN entry
    BY UpdatedFacts
  <2>2. \A r \in DOMAIN drafts[s] \cup DOMAIN entry :
          Updated(drafts[s], entry)[r] = IF r \in DOMAIN entry THEN entry[r] ELSE drafts[s][r]
    BY UpdatedFacts
  <2> QED BY <1>4, <1>7, <2>1, <2>2
<1>9. /\ DOMAIN drafts[s] \subseteq DOMAIN drafts'[s] /\ DOMAIN drafts'[s] \subseteq Row
      /\ \A r \in DOMAIN drafts'[s] : Sound(r.subject, drafts'[s][r])
  <2>1. DOMAIN drafts[s] \subseteq Row /\ \A r \in DOMAIN drafts[s] : Sound(r.subject, drafts[s][r])
    BY <1>2 DEF Local, Shape, Drafted
  <2>2. Sound(row.subject, todo[subject])
    BY <1>3 DEF subject
  <2> QED BY <1>3, <1>8, <2>1, <2>2
<1>10. Subjects(s)' = Subjects(s) \cup {subject}
  BY <1>1, <1>8 DEF Subjects, subject
<1>11. /\ job[s].engine \in {"stock", "sales"}
       /\ job[s].engine = "stock" => DOMAIN left = {}
  BY <1>2, <1>3, <1>5 DEF Local, Shape
<1>12. ASSUME Few(p), job[s].engine = "sales", NEW j \in DOMAIN Lines[job[s].sale],
              p # Bought(job[s].sale, j)
       PROVE  <<p, Bought(job[s].sale, j)>> \in Subjects(s)' \cup DOMAIN left
  <2>1. job[s].line \in DOMAIN Lines[job[s].sale] /\ p = Bought(job[s].sale, job[s].line)
    BY <1>1, ItemFacts
  <2>2. Past(s, job[s].line)
    BY <1>1 DEF Past
  <2>3. <<p, Bought(job[s].sale, j)>> \in Subjects(s) \cup DOMAIN todo
    BY <1>2, <1>12, <2>1, <2>2 DEF Local, SalesDone, todo
  <2> QED BY <1>5, <1>10, <2>3
<1>13. CASE DOMAIN left = {}
  <2>1. Go(s, Advance(s))
    BY <1>1, <1>5, <1>13, NoKeys
  <2>2. LineIsDone(s)
    <3>1. ASSUME job[s].engine = "stock"
          PROVE  /\ job[s].sale \in With(Seen(s), p)
                 /\ \A f \in mine[s] : <<f.product>> \in Subjects(s)'
      <4>1. Past(s, job[s].line)
        BY <1>1 DEF Past
      <4>2. job[s].sale \in With(Seen(s), p)
        BY <1>1, <1>2, <3>1, <4>1, ItemFacts DEF Local, StockDone
      <4>3. \A f \in mine[s] : <<f.product>> \in Subjects(s) \/ f.product = p
        BY <1>1, <1>2, <3>1 DEF Local, StockDone
      <4>4. <<p>> \in Subjects(s)'
        BY <1>3, <1>10, <3>1
      <4> QED BY <1>10, <4>2, <4>3, <4>4
    <3> QED BY <1>12, <1>13, <3>1 DEF LineIsDone
  <2> QED BY <1>1, <1>7, <1>9, <2>1, <2>2, AdvanceStep
<1>14. CASE DOMAIN left # {}
  <2>1. left # <<>>
    BY <1>5, <1>14, NoKeys
  <2>2. Go(s, [pc |-> "find", todo |-> rest])
    BY <1>1, <1>6, <2>1
  <2>3. job[s].engine = "sales"
    BY <1>11, <1>14
  <2>4. DOMAIN rest # {} /\ DOMAIN rest \subseteq Subject /\ DOMAIN rest \subseteq {p} \X Products
        /\ \A x \in DOMAIN rest : Sound(x, rest[x])
    BY <1>3, <1>5, <1>6, <1>14, <2>3
  <2>5. ASSUME Few(p), NEW j \in DOMAIN Lines[job[s].sale], p # Bought(job[s].sale, j)
        PROVE  <<p, Bought(job[s].sale, j)>> \in Subjects(s)' \cup DOMAIN rest
    BY <1>6, <1>12, <2>3, <2>5
  <2> QED BY <1>1, <1>7, <1>9, <2>2, <2>3, <2>4, <2>5, ToFind
<1> QED BY <1>13, <1>14
-------------------------------------------------------------------------------
(* Commits and rollbacks. *)

(* A session that rests has nothing to answer for.                         *)
LEMMA AtRest ==
  ASSUME NEW s \in Sessions, job'[s] = Rest, mine'[s] = {}, drafts'[s] = <<>>
  PROVE  Shape(s)' /\ Drafted(s)' /\ StockDone(s)' /\ SalesDone(s)' /\ ~Busy(s)'
<1>1. /\ DOMAIN job'[s] = Fields
      /\ job'[s].pc = "idle" /\ job'[s].engine = "stock" /\ job'[s].sale = 0
  BY DEF Rest, Fields
<1>2. DOMAIN drafts'[s] = {} /\ IsFiniteSet(mine'[s])
  BY FS_EmptySet
<1>3. ~Busy(s)'
  BY <1>1 DEF Busy
<1>4. Shape(s)'
  BY <1>1, <1>2, <1>3 DEF Shape
<1>5. Drafted(s)'
  BY <1>1, <1>2 DEF Drafted
<1>6. StockDone(s)' /\ SalesDone(s)'
  BY <1>1, <1>3 DEF StockDone, SalesDone
<1> QED BY <1>3, <1>4, <1>5, <1>6

(* A commit adds to the books what the session has drafted.                *)
LEMMA CommitFacts ==
  ASSUME Inv, NEW s \in Sessions, Busy(s), job[s].pc = "commit", Commit(s)
  PROVE  /\ facts' = Seen(s) /\ facts' \in SUBSET SoldOut /\ IsFiniteSet(facts')
         /\ facts \subseteq facts'
         /\ DOMAIN reports' = DOMAIN reports \cup DOMAIN drafts[s] /\ DOMAIN reports' \subseteq Row
         /\ \A r \in DOMAIN reports' : Sound(r.subject, reports[r])'
         /\ Alerted'
         /\ mine' \in [Sessions -> SUBSET SoldOut] /\ mine'[s] = {}
         /\ drafts' = [t \in Sessions |-> drafts'[t]] /\ drafts'[s] = <<>>
         /\ \A t \in Sessions \ {s} : mine'[t] = mine[t] /\ drafts'[t] = drafts[t]
<1>1. Local(s) /\ Tables /\ Books /\ Alerted
  BY DEF Inv
<1>2. facts' = Seen(s) /\ facts' \in SUBSET SoldOut /\ IsFiniteSet(facts') /\ facts \subseteq facts'
  BY SeenFacts DEF Commit, Seen
<1>3. /\ mine' \in [Sessions -> SUBSET SoldOut] /\ mine'[s] = {}
      /\ drafts' = [t \in Sessions |-> drafts'[t]] /\ drafts'[s] = <<>>
      /\ \A t \in Sessions \ {s} : mine'[t] = mine[t] /\ drafts'[t] = drafts[t]
  BY <1>1 DEF Commit, Tables
<1>4. /\ reports' = Updated(reports, drafts[s])
      /\ DOMAIN reports' = DOMAIN reports \cup DOMAIN drafts[s]
      /\ \A r \in DOMAIN reports' :
           reports'[r] = IF r \in DOMAIN drafts[s] THEN drafts[s][r] ELSE reports[r]
  <2>1. reports' = Updated(reports, drafts[s])
    BY DEF Commit
  <2>2. DOMAIN Updated(reports, drafts[s]) = DOMAIN reports \cup DOMAIN drafts[s]
    BY UpdatedFacts
  <2>3. \A r \in DOMAIN reports \cup DOMAIN drafts[s] :
          Updated(reports, drafts[s])[r] = IF r \in DOMAIN drafts[s] THEN drafts[s][r] ELSE reports[r]
    BY UpdatedFacts
  <2> QED BY <2>1, <2>2, <2>3
<1>5. DOMAIN reports' \subseteq Row
  BY <1>1, <1>4 DEF Books, Local, Shape
<1>6. ASSUME NEW r \in DOMAIN reports' PROVE Sound(r.subject, reports[r])'
  <2>1. PICK levels : levels = reports'[r]
    OBVIOUS
  <2>2. Sound(r.subject, levels)
    BY <1>1, <1>4, <2>1 DEF Books, Local, Drafted
  <2>3. Sound(r.subject, levels)'
    BY <1>1, <1>2, <2>2, SoundStays DEF Books
  <2> QED BY <2>1, <2>3 DEF Sound
<1>7. Alerted'
  <2> SUFFICES ASSUME NEW f \in facts' PROVE \E r \in DOMAIN reports' : r.subject = <<f.product>>
    BY DEF Alerted
  <2>1. CASE f \in facts
    BY <1>1, <1>4, <2>1 DEF Alerted
  <2>2. CASE f \in mine[s]
    <3>1. job[s].engine = "stock"
      BY <1>1, <2>2 DEF Local, Shape
    <3>2. <<f.product>> \in Subjects(s)
      BY <1>1, <2>2, <3>1 DEF Local, StockDone
    <3> QED BY <1>4, <3>2 DEF Subjects
  <2> QED BY <1>2, <2>1, <2>2 DEF Seen
<1> QED BY <1>2, <1>3, <1>4, <1>5, <1>6, <1>7

(* It keeps the invariant if the sales that are done are booked.           *)
LEMMA CommitKeeps ==
  ASSUME Inv, NEW s \in Sessions, Busy(s), job[s].pc = "commit", Commit(s),
         job' = [t \in Sessions |-> job'[t]], \A t \in Sessions \ {s} : job'[t] = job[t],
         job'[s].sale \in {0, job[s].sale},
         done' \subseteq done \cup {job[s].sale}, Booked',
         behind' \in [Sales -> SUBSET Sessions], aborts' = aborts,
         Shape(s)', Drafted(s)', StockDone(s)', SalesDone(s)'
  PROVE  Inv'
<1>1. Local(s) /\ Tables /\ Books
  BY DEF Inv
<1>2. job[s].sale \in Sales
  BY <1>1 DEF Local, Shape
<1>3. /\ facts' \in SUBSET SoldOut /\ IsFiniteSet(facts') /\ facts \subseteq facts'
      /\ DOMAIN reports \subseteq DOMAIN reports' /\ DOMAIN reports' \subseteq Row
      /\ \A r \in DOMAIN reports' : Sound(r.subject, reports[r])'
      /\ Alerted'
      /\ mine' \in [Sessions -> SUBSET SoldOut] /\ drafts' = [t \in Sessions |-> drafts'[t]]
      /\ \A t \in Sessions \ {s} : mine'[t] = mine[t] /\ drafts'[t] = drafts[t]
  BY CommitFacts
<1>4. ASSUME NEW t \in Sessions \ {s} PROVE Local(t)'
  <2>1. Busy(t) => job[t].sale \in Sales /\ job[t].sale # job[s].sale
    BY <1>1 DEF Inv, Local, Shape, Alone
  <2>2. Busy(t) => job'[s].sale # job[t].sale
    BY <2>1, SaleFacts
  <2> QED BY <1>3, <2>2, LocalKept
<1>5. Alone(s)'
  <2> SUFFICES ASSUME NEW t \in Sessions \ {s}, Busy(s)' PROVE job'[t].sale # job'[s].sale
    BY DEF Alone
  <2>1. job'[s].sale = job[s].sale
    BY SaleFacts DEF Shape
  <2> QED BY <1>1, <2>1 DEF Local, Alone
<1>6. Books'
  BY <1>1, <1>2, <1>3 DEF Books
<1>7. Tables'
  BY <1>3 DEF Tables
<1> QED BY <1>3, <1>4, <1>5, <1>6, <1>7 DEF Inv, Local

(* Sales that are done stay booked, and another is when its lines are.     *)
LEMMA BookedKept ==
  ASSUME Inv, facts \subseteq facts', facts' \in SUBSET SoldOut, IsFiniteSet(facts'),
         DOMAIN reports \subseteq DOMAIN reports',
         NEW e, done' \subseteq done \cup {e},
         e \in done' => \A i, j \in DOMAIN Lines[e] :
           /\ e \in With(facts', Bought(e, i))
           /\ Bought(e, i) # Bought(e, j) /\ Few(Bought(e, i))
                => \E r \in DOMAIN reports' : r.subject = <<Bought(e, i), Bought(e, j)>>
  PROVE  Booked'
<1>1. \A p : Few(p)' => Few(p)
  BY FewBefore DEF Inv, Books
<1> SUFFICES ASSUME NEW d \in done', NEW i \in DOMAIN Lines[d], NEW j \in DOMAIN Lines[d]
             PROVE  /\ d \in With(facts', Bought(d, i))
                    /\ Bought(d, i) # Bought(d, j) /\ Few(Bought(d, i))
                         => \E r \in DOMAIN reports' : r.subject = <<Bought(d, i), Bought(d, j)>>
  BY <1>1 DEF Booked
<1>2. CASE d = e
  BY <1>2
<1>3. CASE d # e
  <2>1. d \in done
    BY <1>3
  <2>2. \A p : With(facts, p) \subseteq With(facts', p)
    BY DEF With, Of
  <2> QED BY <2>1, <2>2 DEF Inv, Booked
<1> QED BY <1>2, <1>3

(* The stock engine commits.                                               *)
LEMMA CommitStockStep ==
  ASSUME Inv, NEW s \in Sessions, CommitStock(s)
  PROVE  Inv'
<1> DEFINE e == job[s].sale
<1>1. job[s].engine = "stock" /\ job[s].pc = "commit" /\ Busy(s) /\ Commit(s) /\ aborts' = aborts
  BY DEF CommitStock, At, Busy
<1>2. Local(s) /\ Tables
  BY DEF Inv
<1>3. e \in Sales /\ Len(Lines[e]) \in Nat \ {0} /\ DOMAIN Lines[e] = 1..Len(Lines[e])
  BY <1>1, <1>2, SaleFacts DEF Local, Shape
<1>4. /\ facts' = Seen(s) /\ facts \subseteq facts' /\ DOMAIN reports \subseteq DOMAIN reports'
      /\ facts' \in SUBSET SoldOut /\ IsFiniteSet(facts')
      /\ mine'[s] = {} /\ drafts'[s] = <<>>
  BY <1>1, CommitFacts
<1>5. \A i \in DOMAIN Lines[e] : e \in With(facts', Bought(e, i))
  <2>1. job[s].line = Len(Lines[e])
    BY <1>1, <1>2 DEF Local, Shape
  <2>2. \A i \in DOMAIN Lines[e] : Past(s, i)
    BY <1>1, <1>3, <2>1 DEF Past
  <2>3. \A i \in DOMAIN Lines[e] : e \in With(Seen(s), Bought(e, i))
    BY <1>1, <1>2, <2>2 DEF Local, StockDone
  <2> QED BY <1>4, <2>3 DEF With, Of
<1>6. CASE Len(Lines[e]) < 2
  <2>1. done' = done \cup {e} /\ job' = [job EXCEPT ![s] = Rest] /\ behind' = Rested(s)
    BY <1>6 DEF CommitStock, Finish
  <2>2. /\ job' = [t \in Sessions |-> job'[t]] /\ job'[s] = Rest
        /\ \A t \in Sessions \ {s} : job'[t] = job[t]
    BY <1>2, <2>1 DEF Tables
  <2>3. job'[s].sale = 0
    BY <2>2 DEF Rest
  <2>4. behind' \in [Sales -> SUBSET Sessions]
    BY <2>1 DEF Inv, Books, Rested
  <2>5. \A i, j \in DOMAIN Lines[e] : Bought(e, i) = Bought(e, j)
    <3>1. \A i, j \in DOMAIN Lines[e] : i = j
      BY <1>3, <1>6
    <3> QED BY <3>1
  <2>6. Booked'
    BY <1>4, <1>5, <2>1, <2>5, BookedKept
  <2>7. Shape(s)' /\ Drafted(s)' /\ StockDone(s)' /\ SalesDone(s)'
    BY <1>4, <2>2, AtRest
  <2> QED BY <1>1, <2>1, <2>2, <2>3, <2>4, <2>6, <2>7, CommitKeeps
<1>7. CASE ~(Len(Lines[e]) < 2)
  <2> DEFINE change == [pc |-> "line", engine |-> "sales", line |-> 1]
  <2>1. Go(s, change) /\ done' = done /\ behind' = behind
    BY <1>7 DEF CommitStock
  <2>2. DOMAIN change = {"pc", "engine", "line"} /\ DOMAIN change \subseteq Fields
        /\ change["pc"] = "line" /\ change["engine"] = "sales" /\ change["line"] = 1
    BY DEF Fields
  <2> HIDE DEF change
  <2>3. /\ job' = [t \in Sessions |-> job'[t]]
        /\ \A t \in Sessions \ {s} : job'[t] = job[t]
        /\ DOMAIN job'[s] = Fields
        /\ \A x \in Fields : job'[s][x] = IF x \in DOMAIN change THEN change[x] ELSE job[s][x]
    BY <1>2, <2>1, <2>2, GoFacts DEF Local, Shape
  <2>4. job'[s].pc = "line" /\ job'[s].engine = "sales" /\ job'[s].line = 1 /\ job'[s].sale = e
    BY <2>2, <2>3 DEF Fields
  <2>5. Shape(s)'
    <3>1. 1 \in DOMAIN Lines[e]
      BY <1>3
    <3>2. e \notin done'
      BY <1>1, <1>2, <2>1 DEF Local, Shape
    <3>3. IsFiniteSet(mine'[s]) /\ DOMAIN drafts'[s] \subseteq Row
      BY <1>4, FS_EmptySet
    <3> QED BY <1>3, <1>4, <2>3, <2>4, <3>1, <3>2, <3>3 DEF Shape, Busy
  <2>6. Drafted(s)'
    BY <1>4, <2>4 DEF Drafted
  <2>7. StockDone(s)'
    BY <2>4 DEF StockDone
  <2>8. SalesDone(s)'
    <3>1. \A i \in DOMAIN Lines[e] : ~Past(s, i)'
      BY <1>3, <2>4 DEF Past
    <3> QED BY <1>5, <2>4, <3>1 DEF SalesDone, With, Of, Bought
  <2>9. e \notin done'
    BY <1>1, <1>2, <2>1 DEF Local, Shape
  <2>10. Booked'
    BY <1>4, <2>1, <2>9, BookedKept
  <2>11. behind' \in [Sales -> SUBSET Sessions]
    BY <2>1 DEF Inv, Books
  <2> QED BY <1>1, <2>1, <2>3, <2>4, <2>5, <2>6, <2>7, <2>8, <2>10, <2>11, CommitKeeps
<1> QED BY <1>6, <1>7

(* The sales engine commits: the sale is done.                             *)
LEMMA CommitSalesStep ==
  ASSUME Inv, NEW s \in Sessions, CommitSales(s)
  PROVE  Inv'
<1> DEFINE e == job[s].sale
<1>1. job[s].engine = "sales" /\ job[s].pc = "commit" /\ Busy(s) /\ Commit(s) /\ aborts' = aborts
  BY DEF CommitSales, At, Busy
<1>2. Local(s) /\ Tables
  BY DEF Inv
<1>3. e \in Sales /\ Len(Lines[e]) \in Nat \ {0} /\ DOMAIN Lines[e] = 1..Len(Lines[e])
  BY <1>1, <1>2, SaleFacts DEF Local, Shape
<1>4. /\ facts \subseteq facts' /\ DOMAIN reports' = DOMAIN reports \cup DOMAIN drafts[s]
      /\ facts' \in SUBSET SoldOut /\ IsFiniteSet(facts')
      /\ mine'[s] = {} /\ drafts'[s] = <<>>
  BY <1>1, CommitFacts
<1>5. done' = done \cup {e} /\ job' = [job EXCEPT ![s] = Rest] /\ behind' = Rested(s)
  BY DEF CommitSales, Finish
<1>6. /\ job' = [t \in Sessions |-> job'[t]] /\ job'[s] = Rest
      /\ \A t \in Sessions \ {s} : job'[t] = job[t]
  BY <1>2, <1>5 DEF Tables
<1>7. job'[s].sale = 0
  BY <1>6 DEF Rest
<1>8. behind' \in [Sales -> SUBSET Sessions]
  BY <1>5 DEF Inv, Books, Rested
<1>9. ASSUME NEW i \in DOMAIN Lines[e], NEW j \in DOMAIN Lines[e]
      PROVE  /\ e \in With(facts', Bought(e, i))
             /\ Bought(e, i) # Bought(e, j) /\ Few(Bought(e, i))
                  => \E r \in DOMAIN reports' : r.subject = <<Bought(e, i), Bought(e, j)>>
  <2>1. job[s].line = Len(Lines[e])
    BY <1>1, <1>2 DEF Local, Shape
  <2>2. Past(s, i)
    BY <1>1, <1>3, <2>1 DEF Past
  <2>3. e \in With(facts, Bought(e, i))
    BY <1>1, <1>2 DEF Local, SalesDone
  <2>4. e \in With(facts', Bought(e, i))
    BY <1>4, <2>3 DEF With, Of
  <2>5. Bought(e, i) # Bought(e, j) /\ Few(Bought(e, i))
          => <<Bought(e, i), Bought(e, j)>> \in Subjects(s)
    BY <1>1, <1>2, <2>2 DEF Local, SalesDone
  <2> QED BY <1>4, <2>4, <2>5 DEF Subjects
<1>10. Booked'
  BY <1>4, <1>5, <1>9, BookedKept
<1>11. Shape(s)' /\ Drafted(s)' /\ StockDone(s)' /\ SalesDone(s)'
  BY <1>4, <1>6, AtRest
<1> QED BY <1>1, <1>5, <1>6, <1>7, <1>8, <1>10, <1>11, CommitKeeps

(* A session forgets its sale, whatever it was doing.                      *)
LEMMA RollbackKeeps ==
  ASSUME Inv, NEW s \in Sessions, Rollback(s),
         behind' \in [Sales -> SUBSET Sessions], aborts' \in 0..MaxAborts
  PROVE  Inv'
<1>1. Tables
  BY DEF Inv
<1>2. /\ job' = [t \in Sessions |-> job'[t]] /\ job'[s] = Rest
      /\ mine' \in [Sessions -> SUBSET SoldOut] /\ mine'[s] = {}
      /\ drafts' = [t \in Sessions |-> drafts'[t]] /\ drafts'[s] = <<>>
      /\ \A t \in Sessions \ {s} : job'[t] = job[t] /\ mine'[t] = mine[t] /\ drafts'[t] = drafts[t]
  BY <1>1 DEF Rollback, Tables
<1>3. job'[s].sale = 0
  BY <1>2 DEF Rest
<1>4. \A t \in Sessions \ {s} : Busy(t) => job'[s].sale # job[t].sale
  BY <1>3, SaleFacts DEF Inv, Local, Shape
<1>5. OwnStep(s)
  BY <1>2, <1>4 DEF OwnStep, Rollback, Tables
<1> QED BY <1>2, <1>5, AtRest, OwnStepKeeps

(* A call fails, or a session is aborted by the database.                  *)
LEMMA AbortStep ==
  ASSUME Inv, NEW s \in Sessions, Abort(s) \/ Deadlock(s)
  PROVE  Inv'
<1>1. behind \in [Sales -> SUBSET Sessions] /\ aborts \in 0..MaxAborts
  BY DEF Inv, Books
<1>2. CASE Abort(s)
  <2>1. behind' \in [Sales -> SUBSET Sessions]
    BY <1>1, <1>2 DEF Abort, Rested
  <2>2. aborts' \in 0..MaxAborts
    BY <1>1, <1>2, EnginesAssumption DEF Abort
  <2> QED BY <1>2, <2>1, <2>2, RollbackKeeps DEF Abort
<1>3. CASE Deadlock(s)
  <2>1. behind' \in [Sales -> SUBSET Sessions]
    BY <1>1, <1>3 DEF Deadlock, Rested
  <2> QED BY <1>1, <1>3, <2>1, RollbackKeeps DEF Deadlock
<1> QED BY <1>2, <1>3
-------------------------------------------------------------------------------
(* The invariant, and what follows from it. *)

(* At the start nothing is sold and everybody rests.                       *)
LEMMA InitInv == Init => Inv
<1> SUFFICES ASSUME Init PROVE Inv
  OBVIOUS
<1>1. Tables
  BY DEF Init, Tables
<1>2. Books
  BY FS_EmptySet, EnginesAssumption DEF Init, Books
<1>3. Alerted /\ Booked
  BY DEF Init, Alerted, Booked
<1>4. ASSUME NEW s \in Sessions PROVE Local(s)
  <2>1. job[s] = Rest /\ mine[s] = {} /\ drafts[s] = <<>> /\ done = {}
    BY DEF Init
  <2>2. /\ DOMAIN job[s] = Fields
        /\ job[s].pc = "idle" /\ job[s].engine = "stock" /\ job[s].sale = 0
    BY <2>1 DEF Rest, Fields
  <2>3. ~Busy(s) /\ DOMAIN drafts[s] = {} /\ IsFiniteSet(mine[s])
    BY <2>1, <2>2, FS_EmptySet DEF Busy
  <2>4. Shape(s)
    BY <2>1, <2>2, <2>3 DEF Shape
  <2>5. Alone(s) /\ Drafted(s) /\ StockDone(s) /\ SalesDone(s)
    BY <2>2, <2>3 DEF Alone, Drafted, StockDone, SalesDone
  <2> QED BY <2>4, <2>5 DEF Local
<1> QED BY <1>1, <1>2, <1>3, <1>4 DEF Inv

(* Every step of every session keeps the invariant.                        *)
LEMMA StepInv == Inv /\ [Next]_vars => Inv'
<1> SUFFICES ASSUME Inv, [Next]_vars PROVE Inv'
  OBVIOUS
<1>1. CASE Next
  <2>1. PICK s \in Sessions : Proceed(s) \/ Write(s) \/ Abort(s)
    BY <1>1 DEF Next
  <2>2. ASSUME NEW e \in Sales, Begin(s, e) PROVE Inv'
    BY <2>2, BeginStep
  <2>3. CASE RecordSale(s)
    BY <2>3, RecordSaleStep
  <2>4. CASE Assess(s)
    BY <2>4, AssessStep
  <2>5. CASE Count(s)
    BY <2>5, CountStep
  <2>6. CASE Find(s)
    BY <2>6, FindStep
  <2>7. CASE Write(s)
    BY <2>7, WriteStep
  <2>8. CASE CommitStock(s)
    BY <2>8, CommitStockStep
  <2>9. CASE CommitSales(s)
    BY <2>9, CommitSalesStep
  <2>10. CASE Deadlock(s) \/ Abort(s)
    BY <2>10, AbortStep
  <2> QED BY <2>1, <2>2, <2>3, <2>4, <2>5, <2>6, <2>7, <2>8, <2>9, <2>10 DEF Proceed
<1>2. CASE UNCHANGED vars
  <2>1. \A s \in Sessions : Local(s)'
    <3> TAKE s \in Sessions
    <3>1. Shape(s)' /\ Alone(s)'
      BY <1>2 DEF vars, Inv, Local, Shape, Alone, Busy
    <3>2. Drafted(s)'
      BY <1>2 DEF vars, Inv, Local, Drafted, Sound, With, Of, Item
    <3>3. StockDone(s)'
      BY <1>2 DEF vars, Inv, Local, StockDone, Busy, Past, Seen, Subjects, With, Of, Item
    <3>4. SalesDone(s)'
      <4>1. /\ job' = job /\ facts' = facts /\ Subjects(s)' = Subjects(s)
            /\ \A F, p : With(F, p)' = With(F, p)
            /\ \A p : Few(p)' <=> Few(p)
        BY <1>2 DEF vars, Subjects, With, Of, Few
      <4>2. \A i : Past(s, i)' <=> Past(s, i)
        BY <4>1 DEF Past
      <4>3. SalesDone(s)
        BY DEF Inv, Local
      <4> QED BY <4>1, <4>2, <4>3 DEF SalesDone
    <3> QED BY <3>1, <3>2, <3>3, <3>4 DEF Local
  <2>2. Books'
    BY <1>2 DEF vars, Inv, Books, Sound, With, Of
  <2>3. Alerted' /\ Booked' /\ Tables'
    BY <1>2 DEF vars, Inv, Alerted, Booked, Tables, With, Of, Few
  <2> QED BY <2>1, <2>2, <2>3 DEF Inv
<1> QED BY <1>1, <1>2

(* The invariant holds always.                                             *)
THEOREM Inductive == Spec => []Inv
<1> QED BY InitInv, StepInv, PTL DEF Spec

(* Every variable keeps its type, a session at work has a sale that is not *)
(* done and a line of it, and one that writes has something to write.      *)
THEOREM TypeCorrect == Spec => []TypeOK
<1>1. Inv => TypeOK
  <2> SUFFICES ASSUME Inv PROVE TypeOK
    OBVIOUS
  <2>1. SoldOut \subseteq Fact
    BY DEF SoldOut, Fact
  <2>2. facts \subseteq Fact /\ DOMAIN reports \subseteq Row /\ done \subseteq Sales
        /\ behind \in [Sales -> SUBSET Sessions] /\ aborts \in 0..MaxAborts
    BY <2>1 DEF Inv, Books
  <2>3. ASSUME NEW s \in Sessions
        PROVE  /\ job[s].pc \in {"idle", "line", "assess", "find", "write", "commit"}
               /\ job[s].pc # "idle" => /\ job[s].sale \in Sales \ done
                                        /\ job[s].line \in DOMAIN Lines[job[s].sale]
               /\ job[s].pc \in {"find", "write"} => DOMAIN job[s].todo # {}
               /\ mine[s] \subseteq Fact
               /\ DOMAIN drafts[s] \subseteq Row
    BY <2>1 DEF Inv, Tables, Local, Shape, Drafted, Busy
  <2> QED BY <2>2, <2>3 DEF TypeOK
<1> QED BY <1>1, Inductive, PTL

(* A product with a committed fact has a committed alert, and the alert    *)
(* says that nothing is left.                                              *)
THEOREM SoldAlerted == Spec => []SoldIsAlerted
<1>1. Inv => SoldIsAlerted
  <2> SUFFICES ASSUME Inv, NEW f \in facts
               PROVE  \E r \in DOMAIN reports : r.subject = <<f.product>> /\ reports[r][1] <= 0
    BY DEF SoldIsAlerted
  <2>1. PICK r \in DOMAIN reports : r.subject = <<f.product>>
    BY DEF Inv, Alerted
  <2>2. Sound(r.subject, reports[r])
    BY DEF Inv, Books
  <2>3. Len(r.subject) = 1
    BY <2>1
  <2> QED BY <2>1, <2>2, <2>3 DEF Sound
<1> QED BY <1>1, Inductive, PTL

(* A suggestion is about at least one order and never more orders than     *)
(* have its product, however old the session's view was that wrote it.     *)
THEOREM SuggestionsCount == Spec => []SuggestionsCountOrders
<1>1. Inv => SuggestionsCountOrders
  <2> SUFFICES ASSUME Inv, NEW r \in DOMAIN reports, Len(r.subject) = 2
               PROVE  /\ 0 < reports[r][1]
                      /\ reports[r][1] <= reports[r][2]
                      /\ reports[r][2] <= Cardinality(With(facts, r.subject[1]))
    BY DEF SuggestionsCountOrders
  <2>1. Sound(r.subject, reports[r])
    BY DEF Inv, Books
  <2>2. Len(r.subject) # 1
    OBVIOUS
  <2> QED BY <2>1, <2>2 DEF Sound
<1> QED BY <1>1, Inductive, PTL

(* A sale that is done has a fact about each of its products and, for a    *)
(* product that is in few orders, a suggestion of each other one it was    *)
(* ordered with; and suggestions count orders.                             *)
THEOREM BookedCounted == Spec => []BookedAndCounted
<1>1. Inv => DoneIsBooked
  BY DEF Inv, Booked, DoneIsBooked, Bought
<1>2. DoneIsBooked /\ SuggestionsCountOrders => BookedAndCounted
  BY DEF BookedAndCounted
<1> QED BY <1>1, <1>2, Inductive, SuggestionsCount, PTL
===============================================================================
