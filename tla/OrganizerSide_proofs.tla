-------------------------- MODULE OrganizerSide_proofs ------------------------
(***************************************************************************)
(* What signing in, an organizer's application, uploaded files, a team's   *)
(* tasks, the links to sub-vendors, a standing, a calendar with its        *)
(* earnings, and a public event promise, for any number of callers and     *)
(* rows. Each part is an instance of its module; MCOrganizerSide checks the*)
(* same properties on small ones. The instances share the names of some    *)
(* constants and variables: no theorem speaks of two.                      *)
(*                                                                         *)
(* Sums. What is summed over a finite set does not depend on the order it  *)
(* is taken in, and what holds of a set once it holds of the set less any  *)
(* one element holds of every finite set (SetInduction): the family of sets*)
(* is data here, so no operator is instantiated.                           *)
(*                                                                         *)
(* Signing in. A request noted as barred stays short of every place that   *)
(* hands out a session (Lawful); where requests do not overlap, the row of *)
(* a code counts the answers given about it (CodeIsTold).                  *)
(*                                                                         *)
(* The application. A handler that is about to save holds a row whose      *)
(* verdict, trail and completion fit (Fine of Result), and a bank that was *)
(* not touched once locked (Locked).                                       *)
(*                                                                         *)
(* The files. A worker that looks again knows of the collections behind it *)
(* that none of them has pointed at its file all along, and of those ahead *)
(* what pointed at it when it claimed; a save in between only takes one off*)
(* that list (KnowsFile).                                                  *)
(*                                                                         *)
(* The tasks. A waiting handler holds a place, and every step that moves   *)
(* the places refuses the handlers that wait: that is what keeps an update *)
(* on its own task (Waits). Answers are kept where handlers do not overlap *)
(* (Means says what the one that waits will leave).                        *)
(*                                                                         *)
(* The links. The rows are one network, by organizer and by sub-vendor, and*)
(* while a new sub-vendor's invitations are being resolved they may still  *)
(* be open (Network).                                                      *)
(*                                                                         *)
(* The standing. Reviews, lessons and events only grow, so what a handler  *)
(* has read stays true of some of them (Holds), and a tier that was given  *)
(* for them stays earned (Deserved). Every review that gives one to five   *)
(* stars stands in one row of the summary (RowsCount).                     *)
(*                                                                         *)
(* The calendar. A waiting array differs from the stored one by one day    *)
(* (DaysInv); the rest is arithmetic of weeks. What is rounded booking by  *)
(* booking drifts from what is rounded at once by half a rupee each        *)
(* (RoundedOneByOne).                                                      *)
(*                                                                         *)
(* A public event. The seats gone from a ticket type are those the bookings*)
(* that hold seats hold of it (CatalogueInv), so the seats on every screen *)
(* are one count of the same bookings; the sign is refreshed by every      *)
(* operation that moves them; and the next opening is the earliest instant *)
(* anything could be bought (OpensBetween). Where requests do not overlap, *)
(* the copy of the settings an upload goes by is the one stored            *)
(* (GalleryInv).                                                           *)
(***************************************************************************)
EXTENDS Integers, Sequences, FiniteSets, Functions, FiniteSetTheorems, SequenceTheorems, FunctionTheorems,
        WellFoundedInduction, TLAPS

CONSTANTS
    Callers,
    Codes, MaxAttempts, MaxActive, Business,
    Fields, Identity, Accounts, Legacy,
    Workers, Files, Places, Owner, NoOwner, MaxDeletes,
    Vendors, MaxTasks,
    Organizers, Ids, MaxRatings,
    Bookings, Stars, Curriculum, Events,
    Jobs, Days, WorkingDays, Horizon, Amounts,
    Types, Terms, Starts, Ends, Ceilings, Sales, Customers, Quantities,
    FirstInstant, LastInstant, MonthDays,
    People, Pieces, UploadDays, LastDay, Times

VARIABLES
    user, otp, caller, told,
    profile, role,
    stored, asset, refers, worker,
    tasks, added, linked, desk, agreed,
    links,
    done, reviews, progress,
    bookings, busy, today, tier, asked,
    event, types, now,
    ticket, memory, verdict

Auth  == INSTANCE Accounts
Onb   == INSTANCE OrganizerOnboarding
Store == INSTANCE AssetLifecycle WITH row <- asset, MaxAttempts <- MaxDeletes
Team  == INSTANCE EventTasks
Net   == INSTANCE SubVendors
Rank  == INSTANCE Standing
Cal   == INSTANCE OrganizerDesk WITH Bookings <- Jobs
Fair  == INSTANCE EventCatalogue
Shared == INSTANCE EventGallery

-----------------------------------------------------------------------------
(* Finite sets and the sums over them.                                      *)

\* Some numbers have a first one.
LEMMA Smallest ==
    ASSUME NEW S \in SUBSET Nat, S # {}
    PROVE  \E m \in S : \A n \in S : m <= n
  <1> DEFINE R == {p \in Nat \X Nat : p[1] < p[2]}
  <1>1. IsWellFoundedOn(R, Nat)
    BY NatLessThanWellFounded DEF OpToRel
  <1>2. PICK m \in S : \A n \in S : ~(<<n, m>> \in R)
    BY <1>1, WFMin
  <1>3. \A n \in S : ~(n < m)
    <2> TAKE n \in S
    <2>1. <<n, m>> \in Nat \X Nat /\ <<n, m>>[1] = n /\ <<n, m>>[2] = m
      OBVIOUS
    <2>2. <<n, m>> \notin R
      BY <1>2
    <2> QED  BY <2>1, <2>2
  <1> QED  BY <1>3

\* Induction over a finite set: a family that has every set whose smaller subsets it has.
LEMMA SetInduction ==
    ASSUME NEW D, IsFiniteSet(D), NEW P,
           \A s \in SUBSET D : (\A x \in s : s \ {x} \in P) => s \in P
    PROVE  D \in P
  <1> SUFFICES ASSUME D \notin P PROVE FALSE
    OBVIOUS
  <1> DEFINE Bad == {s \in SUBSET D : s \notin P}
             Sizes == {Cardinality(s) : s \in Bad}
  <1>1. \A s \in SUBSET D : IsFiniteSet(s) /\ Cardinality(s) \in Nat
    BY FS_Subset, FS_CardinalityType
  <1>2. Sizes \in SUBSET Nat /\ Sizes # {}
    BY <1>1
  <1>3. PICK m \in Sizes : \A n \in Sizes : m <= n
    BY <1>2, Smallest
  <1>4. PICK s \in Bad : m = Cardinality(s)
    OBVIOUS
  <1>5. PICK x \in s : s \ {x} \notin P
    OBVIOUS
  <1>6. Cardinality(s \ {x}) = Cardinality(s) - 1
    BY <1>1, <1>5, FS_RemoveElement
  <1>7. Cardinality(s \ {x}) \in Sizes
    BY <1>5
  <1>8. Cardinality(s) \in Nat /\ ~(Cardinality(s) <= Cardinality(s) - 1)
    BY <1>1
  <1> HIDE DEF Bad, Sizes
  <1> QED  BY <1>3, <1>4, <1>6, <1>7, <1>8

\* What the recursion of a sum over a set asks for.
Pick(s) == CHOOSE x \in s : TRUE
Sums(it, f, D) == it = [s \in SUBSET D |-> IF s = {} THEN 0 ELSE f[Pick(s)] + it[s \ {Pick(s)}]]

\* There is such a recursion, whatever is summed,
LEMMA SumsExist ==
    ASSUME NEW D, IsFiniteSet(D), NEW f, \A x \in D : f[x] \in Int
    PROVE  \E it : Sums(it, f, D)
  <1> DEFINE Upto(n) == {s \in SUBSET D : Cardinality(s) <= n}
             Fits(g, n) == \A s \in Upto(n) : g[s] = IF s = {} THEN 0 ELSE f[Pick(s)] + g[s \ {Pick(s)}]
             Bad == {n \in Nat : ~\E g : Fits(g, n)}
  <1>1. \A s \in SUBSET D : IsFiniteSet(s) /\ Cardinality(s) \in Nat /\ Cardinality(s) <= Cardinality(D)
    BY FS_Subset, FS_CardinalityType
  <1>2. \A s \in SUBSET D : s # {} => /\ Pick(s) \in s /\ s \ {Pick(s)} \in SUBSET D
                                      /\ Cardinality(s \ {Pick(s)}) = Cardinality(s) - 1
    BY <1>1, FS_RemoveElement DEF Pick
  <1>3. Bad = {}
    <2> SUFFICES ASSUME Bad # {} PROVE FALSE
      OBVIOUS
    <2>1. PICK n \in Bad : \A m \in Bad : n <= m
      BY Smallest
    <2>2. CASE n = 0
      <3> DEFINE g == [s \in SUBSET D |-> 0]
      <3>1. \A s \in Upto(0) : s = {}
        BY <1>1, FS_EmptySet
      <3>2. Fits(g, 0)
        BY <3>1
      <3> QED  BY <2>2, <3>2
    <2>3. CASE n # 0
      <3>1. n - 1 \in Nat
        BY <2>1, <2>3
      <3>a. n - 1 \notin Bad
        <4>1. n \in Nat /\ ~(n <= n - 1)
          BY <2>1
        <4> HIDE DEF Bad
        <4> QED  BY <2>1, <4>1
      <3>2. PICK g : Fits(g, n - 1)
        BY <3>1, <3>a
      <3> DEFINE h == [s \in SUBSET D |-> IF s = {} THEN 0 ELSE f[Pick(s)] + g[s \ {Pick(s)}]]
      <3>3. \A s \in Upto(n - 1) : h[s] = g[s]
        BY <3>2
      <3>4. \A s \in Upto(n) : s # {} => s \ {Pick(s)} \in Upto(n - 1)
        BY <1>1, <1>2
      <3> HIDE DEF Upto
      <3>5. Fits(h, n)
        BY <3>3, <3>4 DEF Upto
      <3> QED  BY <3>5
    <2> QED  BY <2>2, <2>3
  <1>4. PICK g : Fits(g, Cardinality(D))
    <2>1. Cardinality(D) \in Nat
      BY FS_CardinalityType
    <2> QED  BY <1>3, <2>1
  <1>5. Upto(Cardinality(D)) = SUBSET D
    BY <1>1
  <1> DEFINE it == [s \in SUBSET D |-> g[s]]
  <1>6. \A s \in SUBSET D : it[s] = IF s = {} THEN 0 ELSE f[Pick(s)] + it[s \ {Pick(s)}]
    BY <1>4, <1>5, <1>2
  <1>7. Sums(it, f, D)
    BY <1>6 DEF Sums
  <1> QED  BY <1>7

\* and over what they share two of them agree.
LEMMA SumsAgree ==
    ASSUME NEW D, NEW E, NEW S, IsFiniteSet(S), S \subseteq D, S \subseteq E, NEW f, NEW g,
           \A x \in S : f[x] \in Int /\ f[x] = g[x], NEW it, NEW jt, Sums(it, f, D), Sums(jt, g, E)
    PROVE  it[S] = jt[S] /\ it[S] \in Int
  <1> DEFINE P == {s \in SUBSET S : it[s] = jt[s] /\ it[s] \in Int}
  <1>1. ASSUME NEW s \in SUBSET S, \A x \in s : s \ {x} \in P PROVE s \in P
    <2>1. /\ it[s] = IF s = {} THEN 0 ELSE f[Pick(s)] + it[s \ {Pick(s)}]
          /\ jt[s] = IF s = {} THEN 0 ELSE g[Pick(s)] + jt[s \ {Pick(s)}]
      BY DEF Sums
    <2>2. CASE s = {}
      BY <2>1, <2>2
    <2>3. CASE s # {}
      <3>1. Pick(s) \in s
        BY <2>3 DEF Pick
      <3>2. s \ {Pick(s)} \in P
        BY <1>1, <3>1
      <3> QED  BY <2>1, <2>3, <3>1, <3>2
    <2> QED  BY <2>2, <2>3
  <1>2. S \in P
    <2> HIDE DEF P
    <2> QED  BY <1>1, SetInduction
  <1> QED  BY <1>2

\* The sum of a function over a set.
Sum(f, S) == (CHOOSE it : Sums(it, f, S))[S]

\* The sum of the recursion,
LEMMA SumIs ==
    ASSUME NEW D, IsFiniteSet(D), NEW S \in SUBSET D, NEW f, \A x \in D : f[x] \in Int,
           NEW it, Sums(it, f, D)
    PROVE  it[S] = Sum(f, S) /\ Sum(f, S) \in Int
  <1>1. IsFiniteSet(S)
    BY FS_Subset
  <1>2. Sums(CHOOSE jt : Sums(jt, f, S), f, S)
    BY <1>1, SumsExist
  <1> DEFINE jt == CHOOSE kt : Sums(kt, f, S)
  <1>3. Sums(jt, f, S)
    BY <1>2
  <1> HIDE DEF jt
  <1>4. it[S] = jt[S] /\ it[S] \in Int
    <2>1. S \subseteq D /\ S \subseteq S /\ \A x \in S : f[x] \in Int /\ f[x] = f[x]
      OBVIOUS
    <2> QED  BY <1>1, <1>3, <2>1, SumsAgree
  <1>5. Sum(f, S) = jt[S]
    BY DEF Sum, jt
  <1> QED  BY <1>4, <1>5

\* of equal numbers,
LEMMA SumSame ==
    ASSUME NEW S, IsFiniteSet(S), NEW f, NEW g, \A x \in S : f[x] \in Int /\ f[x] = g[x]
    PROVE  Sum(f, S) = Sum(g, S) /\ Sum(f, S) \in Int
  <1>1. Sums(CHOOSE jt : Sums(jt, f, S), f, S) /\ Sums(CHOOSE jt : Sums(jt, g, S), g, S)
    BY SumsExist
  <1> QED  BY <1>1, SumsAgree DEF Sum

\* Whatever the recursion picks first.
LEMMA SumTakes ==
    ASSUME NEW S, IsFiniteSet(S), NEW f, \A x \in S : f[x] \in Int, NEW y \in S
    PROVE  Sum(f, S) = f[y] + Sum(f, S \ {y}) /\ Sum(f, S \ {y}) \in Int
  <1> DEFINE it == CHOOSE jt : Sums(jt, f, S)
  <1>1. Sums(it, f, S)
    BY SumsExist
  <1> HIDE DEF it
  <1>2. \A s \in SUBSET S : it[s] = Sum(f, s) /\ Sum(f, s) \in Int
    BY <1>1, SumIs
  <1>3. \A s \in SUBSET S : s # {} => Pick(s) \in s /\ it[s] = f[Pick(s)] + it[s \ {Pick(s)}]
    BY <1>1 DEF Sums, Pick
  <1> DEFINE P == {s \in SUBSET S : \A z \in s : it[s] = f[z] + it[s \ {z}]}
  <1>4. ASSUME NEW s \in SUBSET S, \A x \in s : s \ {x} \in P PROVE s \in P
    <2> SUFFICES ASSUME NEW z \in s PROVE it[s] = f[z] + it[s \ {z}]
      OBVIOUS
    <2> DEFINE p == Pick(s)
    <2>1. p \in s /\ it[s] = f[p] + it[s \ {p}]
      BY <1>3
    <2> HIDE DEF p
    <2>2. CASE z = p
      BY <2>1, <2>2
    <2>3. CASE z # p
      <3>1. s \ {p} \in P /\ s \ {z} \in P
        BY <1>4, <2>1
      <3>2. it[s \ {p}] = f[z] + it[(s \ {p}) \ {z}] /\ it[s \ {z}] = f[p] + it[(s \ {z}) \ {p}]
        BY <3>1, <2>1, <2>3
      <3>3. (s \ {p}) \ {z} = (s \ {z}) \ {p}
        OBVIOUS
      <3>4. f[z] \in Int /\ f[p] \in Int /\ it[(s \ {z}) \ {p}] \in Int
        <4>1. (s \ {z}) \ {p} \in SUBSET S
          OBVIOUS
        <4> QED  BY <1>2, <2>1, <4>1
      <3> DEFINE rest == it[(s \ {z}) \ {p}]
      <3>5. it[s \ {p}] = f[z] + rest /\ it[s \ {z}] = f[p] + rest
        BY <3>2, <3>3
      <3> HIDE DEF P, rest
      <3>6. it[s] = f[p] + (f[z] + rest)
        BY <2>1, <3>5
      <3>7. rest \in Int
        BY <3>4 DEF rest
      <3>8. f[p] + (f[z] + rest) = f[z] + (f[p] + rest)
        BY <3>4, <3>7
      <3> QED  BY <3>5, <3>6, <3>8
    <2> QED  BY <2>2, <2>3
  <1>5. S \in P
    <2> HIDE DEF P
    <2> QED  BY <1>4, SetInduction
  <1>6. S \ {y} \in SUBSET S
    OBVIOUS
  <1> QED  BY <1>2, <1>5, <1>6

\* Nothing sums to nothing.
LEMMA SumNothing == ASSUME NEW f PROVE Sum(f, {}) = 0
  <1>1. IsFiniteSet({})
    BY FS_EmptySet
  <1>2. Sums(CHOOSE jt : Sums(jt, f, {}), f, {})
    BY <1>1, SumsExist
  <1> QED  BY <1>2 DEF Sum, Sums

\* A sum of two parts.
LEMMA SumSplits ==
    ASSUME NEW S, IsFiniteSet(S), NEW A \in SUBSET S, NEW f, \A x \in S : f[x] \in Int
    PROVE  Sum(f, S) = Sum(f, A) + Sum(f, S \ A) /\ Sum(f, A) \in Int /\ Sum(f, S \ A) \in Int
  <1> DEFINE P == {s \in SUBSET (S \ A) : Sum(f, A \cup s) = Sum(f, A) + Sum(f, s)}
  <1>1. \A s \in SUBSET S : IsFiniteSet(s) /\ Sum(f, s) \in Int
    <2> SUFFICES ASSUME NEW s \in SUBSET S PROVE IsFiniteSet(s) /\ Sum(f, s) \in Int
      OBVIOUS
    <2>1. IsFiniteSet(s)
      BY FS_Subset
    <2>2. \A x \in s : f[x] \in Int /\ f[x] = f[x]
      OBVIOUS
    <2> QED  BY <2>1, <2>2, SumSame
  <1>2. ASSUME NEW s \in SUBSET (S \ A), \A x \in s : s \ {x} \in P PROVE s \in P
    <2>1. CASE s = {}
      <3>1. A \cup s = A /\ Sum(f, s) = 0 /\ Sum(f, A) \in Int
        BY <2>1, <1>1, SumNothing
      <3>2. Sum(f, A \cup s) = Sum(f, A) + Sum(f, s)
        BY <3>1
      <3> QED  BY <3>2
    <2>2. CASE s # {}
      <3>1. PICK x \in s : TRUE
        BY <2>2
      <3>2. Sum(f, s) = f[x] + Sum(f, s \ {x}) /\ Sum(f, s \ {x}) \in Int
        BY <1>1, SumTakes
      <3>3. Sum(f, A \cup s) = f[x] + Sum(f, (A \cup s) \ {x})
        <4>1. A \cup s \in SUBSET S /\ x \in A \cup s
          OBVIOUS
        <4>2. IsFiniteSet(A \cup s) /\ \A z \in A \cup s : f[z] \in Int
          BY <4>1, <1>1
        <4> QED  BY <4>1, <4>2, SumTakes
      <3>4. (A \cup s) \ {x} = A \cup (s \ {x})
        OBVIOUS
      <3>5. Sum(f, A \cup (s \ {x})) = Sum(f, A) + Sum(f, s \ {x})
        BY <1>2
      <3>6. f[x] \in Int /\ Sum(f, A) \in Int /\ Sum(f, s) \in Int
        <4>1. s \in SUBSET S /\ x \in S
          OBVIOUS
        <4> QED  BY <1>1, <4>1
      <3> DEFINE a == Sum(f, A)  b == Sum(f, s \ {x})  y == f[x]
      <3>7. Sum(f, A \cup s) = Sum(f, A) + Sum(f, s)
        <4>1. Sum(f, A \cup s) = y + (a + b) /\ Sum(f, s) = y + b /\ a \in Int /\ b \in Int /\ y \in Int
          BY <3>2, <3>3, <3>4, <3>5, <3>6
        <4>2. y + (a + b) = a + (y + b)
          <5> HIDE DEF a, b, y
          <5> QED  BY <4>1
        <4> QED  BY <4>1, <4>2
      <3> QED  BY <3>7
    <2> QED  BY <2>1, <2>2
  <1>3. IsFiniteSet(S \ A)
    BY <1>1
  <1>4. S \ A \in P
    <2> HIDE DEF P
    <2> QED  BY <1>2, <1>3, SetInduction
  <1>5. A \cup (S \ A) = S /\ S \ A \in SUBSET S
    OBVIOUS
  <1> QED  BY <1>1, <1>4, <1>5

\* Natural numbers sum to one.
LEMMA SumNatural ==
    ASSUME NEW S, IsFiniteSet(S), NEW f, \A x \in S : f[x] \in Nat
    PROVE  Sum(f, S) \in Nat
  <1> DEFINE P == {s \in SUBSET S : Sum(f, s) \in Nat}
  <1>1. ASSUME NEW s \in SUBSET S, \A x \in s : s \ {x} \in P PROVE s \in P
    <2>1. CASE s = {}
      BY <2>1, SumNothing
    <2>2. CASE s # {}
      <3>1. PICK x \in s : TRUE
        BY <2>2
      <3>2. IsFiniteSet(s) /\ \A z \in s : f[z] \in Int
        BY FS_Subset
      <3>3. Sum(f, s) = f[x] + Sum(f, s \ {x})
        BY <3>2, SumTakes
      <3>4. f[x] \in Nat /\ Sum(f, s \ {x}) \in Nat
        BY <1>1
      <3> QED  BY <3>3, <3>4
    <2> QED  BY <2>1, <2>2
  <1>2. S \in P
    <2> HIDE DEF P
    <2> QED  BY <1>1, SetInduction
  <1> QED  BY <1>2

\* Less to sum of natural numbers is no more.
LEMMA SumGrows ==
    ASSUME NEW S, IsFiniteSet(S), NEW A \in SUBSET S, NEW f, \A x \in S : f[x] \in Nat
    PROVE  Sum(f, A) <= Sum(f, S)
  <1>1. Sum(f, S) = Sum(f, A) + Sum(f, S \ A) /\ Sum(f, A) \in Int
    <2>1. \A x \in S : f[x] \in Int
      OBVIOUS
    <2> QED  BY <2>1, SumSplits
  <1>2. Sum(f, S \ A) \in Nat
    <2>1. IsFiniteSet(S \ A) /\ \A x \in S \ A : f[x] \in Nat
      BY FS_Subset
    <2> QED  BY <2>1, SumNatural
  <1> QED  BY <1>1, <1>2

\* A sum takes no more than the part that is summed.
LEMMA SumOnPart ==
    ASSUME NEW S, IsFiniteSet(S), NEW f, NEW A \in SUBSET S, \A x \in S : f[x] \in Int
    PROVE  Sum([x \in A |-> f[x]], A) = Sum(f, A)
  <1> DEFINE g == [x \in A |-> f[x]]
  <1>1. IsFiniteSet(A) /\ \A x \in A : g[x] \in Int /\ g[x] = f[x]
    BY FS_Subset
  <1> HIDE DEF g
  <1> QED  BY <1>1, SumSame DEF g


\* One number changed.
LEMMA SumChanges ==
    ASSUME NEW S, IsFiniteSet(S), NEW f, NEW g, NEW y \in S,
           \A x \in S : f[x] \in Int /\ g[x] \in Int /\ (x # y => g[x] = f[x])
    PROVE  Sum(g, S) = (Sum(f, S) - f[y]) + g[y]
  <1> DEFINE R == S \ {y}  u == Sum(f, R)  a == f[y]  b == g[y]
  <1>1. IsFiniteSet(R) /\ \A x \in R : f[x] \in Int /\ f[x] = g[x]
    BY FS_Subset
  <1>2. Sum(f, R) = Sum(g, R) /\ Sum(f, R) \in Int
    <2> HIDE DEF R
    <2> QED  BY <1>1, SumSame
  <1>3. Sum(f, S) = f[y] + Sum(f, R)
    BY SumTakes
  <1>4. Sum(g, S) = g[y] + Sum(g, R)
    BY SumTakes
  <1>5. Sum(f, S) = a + u /\ Sum(g, S) = b + u /\ a \in Int /\ b \in Int /\ u \in Int
    BY <1>2, <1>3, <1>4
  <1>6. b + u = ((a + u) - a) + b
    <2> HIDE DEF a, b, u
    <2> QED  BY <1>5
  <1> QED  BY <1>5, <1>6

\* Two sums term by term.
LEMMA SumAdds ==
    ASSUME NEW S, IsFiniteSet(S), NEW f, NEW g, NEW h,
           \A x \in S : f[x] \in Int /\ g[x] \in Int /\ h[x] = f[x] + g[x]
    PROVE  Sum(h, S) = Sum(f, S) + Sum(g, S)
  <1> DEFINE P == {s \in SUBSET S : Sum(h, s) = Sum(f, s) + Sum(g, s)}
  <1>1. \A x \in S : h[x] \in Int
    OBVIOUS
  <1>2. ASSUME NEW s \in SUBSET S, \A x \in s : s \ {x} \in P PROVE s \in P
    <2>1. CASE s = {}
      <3>1. Sum(h, s) = Sum(f, s) + Sum(g, s)
        BY <2>1, SumNothing
      <3> QED  BY <3>1
    <2>2. CASE s # {}
      <3>1. PICK x \in s : TRUE
        BY <2>2
      <3>2. IsFiniteSet(s)
        BY FS_Subset
      <3> DEFINE r == s \ {x}
      <3>3. Sum(f, s) = f[x] + Sum(f, r) /\ Sum(f, r) \in Int
        BY <3>2, SumTakes
      <3>4. Sum(g, s) = g[x] + Sum(g, r) /\ Sum(g, r) \in Int
        BY <3>2, SumTakes
      <3>5. Sum(h, s) = h[x] + Sum(h, r)
        BY <1>1, <3>2, SumTakes
      <3>6. Sum(h, r) = Sum(f, r) + Sum(g, r)
        BY <1>2, <3>1
      <3> DEFINE a == f[x]  b == g[x]  u == Sum(f, r)  v == Sum(g, r)
      <3>7. /\ Sum(f, s) = a + u /\ Sum(g, s) = b + v /\ Sum(h, s) = (a + b) + (u + v)
            /\ a \in Int /\ b \in Int /\ u \in Int /\ v \in Int
        BY <3>3, <3>4, <3>5, <3>6
      <3>8. (a + b) + (u + v) = (a + u) + (b + v)
        <4> HIDE DEF a, b, u, v
        <4> QED  BY <3>7
      <3>9. Sum(h, s) = Sum(f, s) + Sum(g, s)
        BY <3>7, <3>8
      <3> QED  BY <3>9
    <2> QED  BY <2>1, <2>2
  <1>3. S \in P
    <2> HIDE DEF P
    <2> QED  BY <1>2, SetInduction
  <1> QED  BY <1>3

\* What adds nothing may be left out.
LEMMA SumOfSome ==
    ASSUME NEW S, IsFiniteSet(S), NEW A \in SUBSET S, NEW f, NEW g,
           \A x \in S : f[x] \in Int /\ (x \in A => g[x] = f[x]) /\ (x \notin A => f[x] = 0)
    PROVE  Sum(g, A) = Sum(f, S) /\ Sum(f, S) \in Int
  <1> DEFINE B == S \ A
             P == {s \in SUBSET B : Sum(f, s) = 0}
  <1>1. \A x \in S : f[x] \in Int
    OBVIOUS
  <1>2. ASSUME NEW s \in SUBSET B, \A x \in s : s \ {x} \in P PROVE s \in P
    <2>1. CASE s = {}
      BY <2>1, SumNothing
    <2>2. CASE s # {}
      <3>1. PICK x \in s : TRUE
        BY <2>2
      <3>2. IsFiniteSet(s) /\ \A z \in s : f[z] \in Int
        BY FS_Subset
      <3>3. Sum(f, s) = f[x] + Sum(f, s \ {x})
        BY <3>2, SumTakes
      <3>4. f[x] = 0 /\ Sum(f, s \ {x}) = 0
        BY <1>2, <3>1
      <3> QED  BY <3>3, <3>4
    <2> QED  BY <2>1, <2>2
  <1>3. B \in P
    <2>1. IsFiniteSet(B)
      BY FS_Subset
    <2> HIDE DEF P, B
    <2> QED  BY <1>2, <2>1, SetInduction
  <1>4. Sum(f, S) = Sum(f, A) + Sum(f, B) /\ Sum(f, A) \in Int
    BY <1>1, SumSplits
  <1>5. Sum(g, A) = Sum(f, A)
    <2>1. IsFiniteSet(A) /\ \A x \in A : f[x] \in Int /\ f[x] = g[x]
      BY FS_Subset
    <2> QED  BY <2>1, SumSame
  <1>6. Sum(f, B) = 0
    BY <1>3
  <1> QED  BY <1>4, <1>5, <1>6

\* A finite set of numbers has a largest one.
LEMMA Largest ==
    ASSUME NEW S \in SUBSET Nat, IsFiniteSet(S), S # {}
    PROVE  \E m \in S : \A n \in S : m >= n
  <1> DEFINE P == {s \in SUBSET S : s = {} \/ \E m \in s : \A n \in s : m >= n}
  <1>1. ASSUME NEW s \in SUBSET S, \A x \in s : s \ {x} \in P PROVE s \in P
    <2> SUFFICES ASSUME s # {} PROVE \E m \in s : \A n \in s : m >= n
      OBVIOUS
    <2>1. PICK x \in s : TRUE
      OBVIOUS
    <2>2. CASE s \ {x} = {}
      <3>1. \A n \in s : x >= n
        BY <2>2
      <3> QED  BY <3>1
    <2>3. CASE s \ {x} # {}
      <3>1. PICK m \in s \ {x} : \A n \in s \ {x} : m >= n
        BY <1>1, <2>1, <2>3
      <3>2. CASE m >= x
        BY <3>1, <3>2
      <3>3. CASE ~(m >= x)
        <4>1. \A n \in s : x >= n
          BY <3>1, <3>3
        <4> QED  BY <4>1
      <3> QED  BY <3>2, <3>3
    <2> QED  BY <2>2, <2>3
  <1>2. S \in P
    <2> HIDE DEF P
    <2> QED  BY <1>1, SetInduction
  <1> QED  BY <1>2

\* As many pairs as the numbers say.
LEMMA PairsCounted ==
    ASSUME NEW S, IsFiniteSet(S), NEW M \in Nat, NEW f, \A x \in S : f[x] \in 0..M
    PROVE  LET Pairs == {p \in S \X (1..M) : p[2] <= f[p[1]]}
           IN IsFiniteSet(Pairs) /\ Cardinality(Pairs) = Sum(f, S)
  <1> DEFINE In(s) == {p \in s \X (1..M) : p[2] <= f[p[1]]}
             P == {s \in SUBSET S : IsFiniteSet(In(s)) /\ Cardinality(In(s)) = Sum(f, s)}
  <1>1. ASSUME NEW s \in SUBSET S, \A x \in s : s \ {x} \in P PROVE s \in P
    <2>1. CASE s = {}
      <3>1. In(s) = {}
        BY <2>1
      <3> QED  BY <2>1, <3>1, SumNothing, FS_EmptySet
    <2>2. CASE s # {}
      <3>1. PICK x \in s : TRUE
        BY <2>2
      <3> DEFINE r == s \ {x}  row == {x} \X (1..f[x])
      <3>2. In(s) = row \cup In(r) /\ row \cap In(r) = {}
        BY <3>1
      <3>3. IsFiniteSet(row) /\ Cardinality(row) = f[x]
        <4>0. f[x] \in Nat
          OBVIOUS
        <4>1. IsFiniteSet({x}) /\ Cardinality({x}) = 1
          BY FS_Singleton
        <4>2. IsFiniteSet(1..f[x]) /\ Cardinality(1..f[x]) = f[x]
          <5> DEFINE n == f[x]
          <5>1. n \in Nat
            BY <4>0
          <5> HIDE DEF n
          <5>2. IsFiniteSet(1..n) /\ Cardinality(1..n) = n
            BY <5>1, FS_Interval, 1 \in Int
          <5> QED  BY <5>2 DEF n
        <4>3. IsFiniteSet(row) /\ Cardinality(row) = Cardinality({x}) * Cardinality(1..f[x])
          BY <4>1, <4>2, FS_Product
        <4> QED  BY <4>0, <4>1, <4>2, <4>3
      <3>4. IsFiniteSet(In(r)) /\ Cardinality(In(r)) = Sum(f, r)
        BY <1>1, <3>1
      <3>5. Sum(f, s) = f[x] + Sum(f, r) /\ Sum(f, r) \in Int
        <4>1. IsFiniteSet(s) /\ \A z \in s : f[z] \in Int
          BY FS_Subset
        <4> QED  BY <4>1, SumTakes
      <3> DEFINE B == In(r)
      <3> HIDE DEF row, P
      <3>6. Cardinality(row \cup B) = Cardinality(row) + Cardinality(B) - Cardinality(row \cap B)
            /\ IsFiniteSet(row \cup B)
        <4>1. IsFiniteSet(B)
          BY <3>4
        <4> HIDE DEF B
        <4> QED  BY <3>3, <4>1, FS_Union
      <3>7. Cardinality(row \cap B) = 0
        BY <3>2, FS_EmptySet
      <3>8. f[x] \in Int
        OBVIOUS
      <3>9. IsFiniteSet(In(s)) /\ Cardinality(In(s)) = f[x] + Sum(f, r) - 0
        <4> HIDE DEF r, In
        <4> QED  BY <3>2, <3>3, <3>4, <3>6, <3>7 DEF B
      <3>a. IsFiniteSet(In(s)) /\ Cardinality(In(s)) = Sum(f, s)
        <4> HIDE DEF r, In
        <4> QED  BY <3>5, <3>8, <3>9
      <3> QED  BY <3>a DEF P
    <2> QED  BY <2>1, <2>2
  <1>2. S \in P
    <2> HIDE DEF P
    <2> QED  BY <1>1, SetInduction
  <1> QED  BY <1>2

\* SumFunction is that sum.
LEMMA SumFunctionIs ==
    ASSUME NEW S, IsFiniteSet(S), NEW f, DOMAIN f = S, \A x \in S : f[x] \in Int
    PROVE  SumFunction(f) = Sum(f, S)
  <1> DEFINE Raw(it) == it = [s \in SUBSET S |->
                                IF s = {} THEN 0
                                ELSE f[CHOOSE x \in s : TRUE] + it[s \ {CHOOSE x \in s : TRUE}]]
  <1>1. \A it : Raw(it) <=> Sums(it, f, S)
    BY DEF Sums, Pick
  <1>2. SumFunction(f) = (CHOOSE it : Raw(it))[S]
    BY DEF SumFunction, SumFunctionOnSet, FoldFunctionOnSet, MapThenFoldSet
  <1>3. \E it : Raw(it)
    <2> HIDE DEF Raw
    <2> QED  BY <1>1, SumsExist
  <1>4. Sums(CHOOSE it : Raw(it), f, S)
    <2> HIDE DEF Raw
    <2> QED  BY <1>1, <1>3
  <1> HIDE DEF Raw
  <1> QED  BY <1>2, <1>4, SumIs

-----------------------------------------------------------------------------
(* Signing in (Accounts).                                                   *)

\* The instance counts a set as this module does.
LEMMA AuthCounts == \A S : Auth!Cardinality(S) = Cardinality(S)
  BY Zenon DEF Auth!Cardinality, Cardinality

\* The rows of the account, its codes, the requests and what was told, by type.
UserRows ==
    [exists : BOOLEAN, password : BOOLEAN, status : Auth!Statuses, roles : SUBSET Auth!Roles,
     chosen : Auth!Roles \cup {"none"}, session : BOOLEAN]
CodeRows ==
    [sent : BOOLEAN, young : BOOLEAN, expired : BOOLEAN, attempts : Nat, consumed : BOOLEAN]
CallerRows ==
    [at : {"idle", "count", "create", "guess", "find", "signUp", "register", "issue", "drop",
           "load", "save"},
     code : Codes \cup {"none"}, copy : CodeRows, right : BOOLEAN,
     was : Auth!Statuses, status : Auth!Statuses, barred : BOOLEAN]
ToldRows == [wrong : Nat, passed : Nat]

\* Types of the account.
AccountTypes ==
    /\ user \in UserRows
    /\ otp \in [Codes -> CodeRows]
    /\ caller \in [Callers -> CallerRows]
    /\ told \in [Codes -> ToldRows]

\* A request noted as barred is barred still, and past no check that lets it in.
Lawful(t, u) ==
    t.barred => u.exists /\ u.status # "active" /\ t.at \notin {"issue", "signUp", "register"}

\* A guess names a code.
NamesCode(t) == t.at = "guess" => t.code \in Codes

\* The row of a code counts what was answered of it ...
CodeIsTold(row, tally) ==
    /\ tally.passed <= 1 /\ tally.wrong + tally.passed <= MaxAttempts
    /\ row.sent => row.attempts = tally.wrong /\ (row.consumed <=> tally.passed = 1)

\* ... and a guess under way still has the row it read, while there is one.
GuessIsFresh(t, rows) ==
    t.at = "guess" /\ rows[t.code].sent =>
      /\ ~rows[t.code].consumed
      /\ t.copy.attempts = rows[t.code].attempts
      /\ t.copy.attempts < MaxAttempts

\* The codes that can still be guessed, and the room a request counted for one more.
ActiveOf(rows) == {o \in Codes : rows[o].sent /\ ~rows[o].consumed /\ ~rows[o].expired}
HasRoom(t, rows) == t.at = "create" => Cardinality(ActiveOf(rows)) < MaxActive

\* Every code fits what was told of it, and no more are active than may be.
Counted(t, rows, tally) ==
    /\ \A o \in Codes : CodeIsTold(rows[o], tally[o])
    /\ Cardinality(ActiveOf(rows)) <= MaxActive

\* The inductive invariant of an account.
AccountInv ==
    /\ AccountTypes
    /\ \A c \in Callers : Lawful(caller[c], user) /\ NamesCode(caller[c])
    /\ IsFiniteSet(ActiveOf(otp))
    /\ Auth!Alone => /\ \A o \in Codes : CodeIsTold(otp[o], told[o])
                     /\ Cardinality(ActiveOf(otp)) <= MaxActive
                     /\ \A c \in Callers : GuessIsFresh(caller[c], otp) /\ HasRoom(caller[c], otp)

\* The codes findActive answers are those that can still be guessed.
LEMMA ActiveIs == Auth!Active = ActiveOf(otp)
  BY DEF Auth!Active, Auth!Unconsumed, ActiveOf

\* Nothing yet is of its type.
LEMMA NothingIsTyped ==
    ASSUME Auth!AccountsAssumption
    PROVE  /\ Auth!NoUser \in UserRows /\ Auth!NoCode \in CodeRows /\ Auth!NoCaller \in CallerRows
           /\ Auth!Untold \in ToldRows
  BY DEF Auth!NoUser, Auth!NoCode, Auth!NoCaller, Auth!Untold, UserRows, CodeRows, CallerRows, ToldRows,
         Auth!Statuses, Auth!Roles

\* A new phone, or an account with its session, satisfies the invariant.
LEMMA AccountInit == ASSUME Auth!AccountsAssumption, Auth!Init PROVE AccountInv
  <1>1. AccountTypes
    <2>1. [Auth!NoUser EXCEPT !.exists = TRUE, !.session = TRUE] \in UserRows
      BY NothingIsTyped DEF UserRows
    <2> QED  BY <2>1, NothingIsTyped DEF Auth!Init, AccountTypes
  <1>2. \A c \in Callers : caller[c].at = "idle" /\ ~caller[c].barred
    BY DEF Auth!Init, Auth!NoCaller
  <1>3. \A o \in Codes : ~otp[o].sent /\ told[o].wrong = 0 /\ told[o].passed = 0
    BY DEF Auth!Init, Auth!NoCode, Auth!Untold
  <1>4. ActiveOf(otp) = {}
    BY <1>3 DEF ActiveOf
  <1>5. IsFiniteSet(ActiveOf(otp)) /\ Cardinality(ActiveOf(otp)) = 0
    BY <1>4, FS_EmptySet
  <1>6. \A o \in Codes : CodeIsTold(otp[o], told[o])
    BY <1>3 DEF CodeIsTold, Auth!AccountsAssumption
  <1> QED  BY <1>1, <1>2, <1>5, <1>6 DEF AccountInv, Lawful, NamesCode, GuessIsFresh, HasRoom,
            Auth!AccountsAssumption

\* What the invariant says of one request.
LEMMA CallersAreTyped ==
    ASSUME AccountInv, NEW c \in Callers
    PROVE  /\ caller[c] \in CallerRows /\ Lawful(caller[c], user) /\ NamesCode(caller[c])
           /\ Auth!Alone => GuessIsFresh(caller[c], otp) /\ HasRoom(caller[c], otp)
           /\ user \in UserRows
  BY DEF AccountInv, AccountTypes

\* A request moves and leaves the codes alone; the account stays, and as barred as it was.
LEMMA CallerMoves ==
    ASSUME AccountInv, NEW c \in Callers, NEW t \in CallerRows, Auth!Goto(c, t),
           NEW u \in UserRows, user' = u, user.exists => u.exists /\ u.status = user.status,
           UNCHANGED <<otp, told>>,
           Lawful(t, u), NamesCode(t), Auth!Alone => GuessIsFresh(t, otp) /\ HasRoom(t, otp)
    PROVE  AccountInv'
  <1>1. AccountTypes'
    BY DEF AccountInv, AccountTypes, Auth!Goto
  <1>2. \A d \in Callers : caller'[d] = IF d = c THEN t ELSE caller[d]
    BY DEF AccountInv, AccountTypes, Auth!Goto
  <1>3. \A d \in Callers : Lawful(caller'[d], u) /\ NamesCode(caller'[d])
    BY <1>2 DEF AccountInv, Lawful
  <1>4. Auth!Alone => \A d \in Callers : GuessIsFresh(caller'[d], otp) /\ HasRoom(caller'[d], otp)
    BY <1>2 DEF AccountInv
  <1> QED  BY <1>1, <1>3, <1>4 DEF AccountInv, Lawful, NamesCode, GuessIsFresh, HasRoom, CodeIsTold,
                                   ActiveOf, Auth!Alone

\* Most requests go where no code is in play.
LEMMA PlainMoves ==
    ASSUME AccountInv, Auth!AccountsAssumption, NEW c \in Callers,
           NEW t \in CallerRows, Auth!Goto(c, t), t.at \notin {"guess", "create"},
           NEW u \in UserRows, user' = u, user.exists => u.exists /\ u.status = user.status,
           UNCHANGED <<otp, told>>, Lawful(t, u)
    PROVE  AccountInv'
  BY CallerMoves DEF NamesCode, GuessIsFresh, HasRoom

\* A request that goes on to a place its status allows.
LEMMA StepMoves ==
    ASSUME AccountInv, Auth!AccountsAssumption, NEW c \in Callers,
           NEW l \in {"find", "signUp", "issue", "drop", "load", "save"}, Auth!Step(c, l),
           NEW u \in UserRows, user' = u, user.exists => u.exists /\ u.status = user.status,
           UNCHANGED <<otp, told>>, caller[c].barred => l \notin {"issue", "signUp"}
    PROVE  AccountInv'
  <1> DEFINE t == [caller[c] EXCEPT !.at = l]
  <1>1. caller[c] \in CallerRows /\ Lawful(caller[c], user)
    BY CallersAreTyped
  <1>2. t \in CallerRows /\ t.at = l /\ t.barred = caller[c].barred
    BY <1>1 DEF CallerRows
  <1>3. Auth!Goto(c, t)
    BY DEF Auth!Step
  <1> HIDE DEF t
  <1>4. Lawful(t, u)
    BY <1>1, <1>2 DEF Lawful
  <1> QED  BY <1>2, <1>3, <1>4, PlainMoves

\* A request that ends.
LEMMA DoneMoves ==
    ASSUME AccountInv, Auth!AccountsAssumption, NEW c \in Callers, Auth!Done(c),
           NEW u \in UserRows, user' = u, user.exists => u.exists /\ u.status = user.status,
           UNCHANGED <<otp, told>>
    PROVE  AccountInv'
  <1>1. Auth!NoCaller \in CallerRows /\ Auth!NoCaller.at = "idle" /\ Lawful(Auth!NoCaller, u)
    BY NothingIsTyped DEF Auth!NoCaller, Lawful
  <1> QED  BY <1>1, PlainMoves DEF Auth!Done

\* A request that starts is noted as barred when the account is.
LEMMA StartMoves ==
    ASSUME AccountInv, Auth!AccountsAssumption, NEW c \in Callers, NEW r \in CallerRows,
           Auth!Start(c, r), r.at \in {"issue", "register"} => ~Auth!Barred, r.at # "signUp",
           NEW u \in UserRows, user' = u, user.exists => u.exists /\ u.status = user.status,
           UNCHANGED <<otp, told>>, NamesCode(r), r.at # "create", Auth!Alone => GuessIsFresh(r, otp)
    PROVE  AccountInv'
  <1> DEFINE t == [r EXCEPT !.barred = Auth!Barred]
  <1>1. Auth!Barred \in BOOLEAN /\ Auth!Goto(c, t)
    BY DEF Auth!Barred, Auth!Start, AccountInv, AccountTypes, UserRows
  <1>2. /\ t \in CallerRows /\ t.at = r.at /\ t.code = r.code /\ t.copy = r.copy
        /\ t.barred <=> Auth!Barred
    BY <1>1 DEF CallerRows
  <1> HIDE DEF t
  <1>3. Lawful(t, u)
    BY <1>2 DEF Lawful, Auth!Barred
  <1>4. NamesCode(t) /\ (Auth!Alone => GuessIsFresh(t, otp) /\ HasRoom(t, otp))
    BY <1>2 DEF NamesCode, GuessIsFresh, HasRoom
  <1> QED  BY <1>1, <1>2, <1>3, <1>4, CallerMoves

\* The checks every handler begins with; each notes whether the account was barred.
LEMMA AskKeeps ==
    ASSUME AccountInv, Auth!AccountsAssumption, NEW c \in Callers,
           Auth!SendOtp(c) \/ Auth!Verify(c) \/ Auth!Register(c) \/ Auth!Login(c) \/ Auth!Refresh(c)
           \/ Auth!AddRole(c) \/ Auth!SetStatus(c)
    PROVE  AccountInv'
  <1>0. Auth!NoCaller \in CallerRows /\ user \in UserRows /\ otp \in [Codes -> CodeRows]
    BY NothingIsTyped DEF AccountInv, AccountTypes
  <1>1. CASE Auth!SendOtp(c)
    <2> DEFINE t == [[Auth!NoCaller EXCEPT !.at = "count"] EXCEPT !.barred = Auth!Barred]
    <2>1. Auth!Barred \in BOOLEAN /\ Auth!Goto(c, t) /\ UNCHANGED <<user, otp, told>>
      BY <1>0, <1>1 DEF Auth!SendOtp, Auth!Start, Auth!Barred, UserRows
    <2>2. t \in CallerRows /\ t.at = "count" /\ (t.barred <=> Auth!Barred)
      BY <1>0, <2>1 DEF CallerRows
    <2> HIDE DEF t
    <2>3. Lawful(t, user)
      BY <2>2 DEF Lawful, Auth!Barred
    <2> QED  BY <1>0, <2>1, <2>2, <2>3, PlainMoves
  <1>2. CASE Auth!Verify(c)
    <2> PICK o \in Auth!Active, right \in BOOLEAN :
          /\ otp[o].attempts < MaxAttempts
          /\ Auth!Start(c, [Auth!NoCaller EXCEPT !.at = "guess", !.code = o, !.copy = otp[o], !.right = right])
      BY <1>2 DEF Auth!Verify
    <2> DEFINE r == [Auth!NoCaller EXCEPT !.at = "guess", !.code = o, !.copy = otp[o], !.right = right]
    <2>1. o \in Codes /\ otp[o] \in CodeRows /\ ~otp[o].consumed
      BY <1>0 DEF Auth!Active, Auth!Unconsumed
    <2>2. r \in CallerRows /\ r.at = "guess" /\ r.code = o /\ r.copy = otp[o]
      BY <1>0, <2>1 DEF CallerRows
    <2>3. Auth!Start(c, r) /\ UNCHANGED <<user, otp, told>>
      BY <1>2 DEF Auth!Verify
    <2> HIDE DEF r
    <2>4. NamesCode(r) /\ GuessIsFresh(r, otp)
      BY <2>1, <2>2 DEF NamesCode, GuessIsFresh
    <2> QED  BY <1>0, <2>2, <2>3, <2>4, StartMoves
  <1>3. CASE Auth!Register(c)
    <2> DEFINE r == [Auth!NoCaller EXCEPT !.at = "register"]
    <2>1. r \in CallerRows /\ r.at = "register" /\ Auth!Start(c, r) /\ ~Auth!Barred
      BY <1>0, <1>3 DEF CallerRows, Auth!Register, Auth!Barred
    <2> HIDE DEF r
    <2>2. NamesCode(r) /\ GuessIsFresh(r, otp) /\ UNCHANGED <<user, otp, told>>
      BY <1>3, <2>1 DEF NamesCode, GuessIsFresh, Auth!Register
    <2> QED  BY <1>0, <2>1, <2>2, StartMoves
  <1>4. CASE Auth!Login(c)
    <2> DEFINE r == [Auth!NoCaller EXCEPT !.at = "issue"]
    <2>1. r \in CallerRows /\ r.at = "issue" /\ Auth!Start(c, r) /\ ~Auth!Barred
      BY <1>0, <1>4 DEF CallerRows, Auth!Login, Auth!Barred
    <2> HIDE DEF r
    <2>2. NamesCode(r) /\ GuessIsFresh(r, otp) /\ UNCHANGED <<user, otp, told>>
      BY <1>4, <2>1 DEF NamesCode, GuessIsFresh, Auth!Login
    <2> QED  BY <1>0, <2>1, <2>2, StartMoves
  <1>5. CASE Auth!Refresh(c)
    <2> PICK matches \in BOOLEAN :
          Auth!Start(c, [Auth!NoCaller EXCEPT !.at = IF matches THEN "issue" ELSE "drop"])
      BY <1>5 DEF Auth!Refresh
    <2> DEFINE r == [Auth!NoCaller EXCEPT !.at = IF matches THEN "issue" ELSE "drop"]
    <2>1. r \in CallerRows /\ r.at \in {"issue", "drop"} /\ Auth!Start(c, r) /\ ~Auth!Barred
      BY <1>0, <1>5 DEF CallerRows, Auth!Refresh, Auth!Barred
    <2> HIDE DEF r
    <2>2. NamesCode(r) /\ GuessIsFresh(r, otp) /\ UNCHANGED <<user, otp, told>>
      BY <1>5, <2>1 DEF NamesCode, GuessIsFresh, Auth!Refresh
    <2> QED  BY <1>0, <2>1, <2>2, StartMoves
  <1>6. CASE Auth!AddRole(c)
    <2> PICK b \in Business : user' = [user EXCEPT !.roles = @ \cup {b}, !.chosen = b]
      BY <1>6 DEF Auth!AddRole
    <2> DEFINE r == [Auth!NoCaller EXCEPT !.at = "load"]
    <2>1. r \in CallerRows /\ r.at = "load" /\ Auth!Start(c, r)
      BY <1>0, <1>6 DEF CallerRows, Auth!AddRole
    <2>2. user' \in UserRows /\ user'.exists = user.exists /\ user'.status = user.status
      BY <1>0 DEF UserRows, Auth!Roles
    <2> HIDE DEF r
    <2>3. NamesCode(r) /\ GuessIsFresh(r, otp) /\ UNCHANGED <<otp, told>>
      BY <1>6, <2>1 DEF NamesCode, GuessIsFresh, Auth!AddRole
    <2> QED  BY <2>1, <2>2, <2>3, StartMoves
  <1>7. CASE Auth!SetStatus(c)
    <2> PICK s \in Auth!Statuses :
          Auth!Start(c, [Auth!NoCaller EXCEPT !.at = "save", !.was = user.status, !.status = s])
      BY <1>7 DEF Auth!SetStatus
    <2> DEFINE r == [Auth!NoCaller EXCEPT !.at = "save", !.was = user.status, !.status = s]
    <2>1. r \in CallerRows /\ r.at = "save" /\ Auth!Start(c, r)
      BY <1>0 DEF CallerRows, UserRows
    <2> HIDE DEF r
    <2>2. NamesCode(r) /\ GuessIsFresh(r, otp) /\ UNCHANGED <<user, otp, told>>
      BY <1>7, <2>1 DEF NamesCode, GuessIsFresh, Auth!SetStatus
    <2> QED  BY <1>0, <2>1, <2>2, StartMoves
  <1> QED  BY <1>1, <1>2, <1>3, <1>4, <1>5, <1>6, <1>7

\* countActiveForPhone leaves room for one more where requests do not overlap.
LEMMA CountKeeps ==
    ASSUME AccountInv, Auth!AccountsAssumption, NEW c \in Callers, Auth!CountActive(c)
    PROVE  AccountInv'
  <1>0. /\ UNCHANGED <<user, otp, told>> /\ user \in UserRows /\ caller[c] \in CallerRows
        /\ Lawful(caller[c], user)
    BY CallersAreTyped DEF Auth!CountActive
  <1>1. CASE Auth!Done(c)
    BY <1>0, <1>1, DoneMoves
  <1>2. CASE ~Auth!Done(c)
    <2> DEFINE t == [caller[c] EXCEPT !.at = "create"]
    <2>1. Auth!Goto(c, t) /\ ~(Auth!Cardinality(Auth!Active) >= MaxActive)
      BY <1>2 DEF Auth!CountActive, Auth!Step
    <2>2. t \in CallerRows /\ t.at = "create" /\ t.barred = caller[c].barred
      BY <1>0 DEF CallerRows
    <2> HIDE DEF t
    <2>3. Lawful(t, user)
      BY <1>0, <2>2 DEF Lawful
    <2>4. Cardinality(ActiveOf(otp)) \in Nat
      BY FS_CardinalityType DEF AccountInv
    <2>5. ~(Cardinality(ActiveOf(otp)) >= MaxActive)
      BY <2>1, AuthCounts, ActiveIs
    <2>6. Cardinality(ActiveOf(otp)) < MaxActive
      BY <2>4, <2>5 DEF Auth!AccountsAssumption
    <2>7. NamesCode(t) /\ GuessIsFresh(t, otp) /\ HasRoom(t, otp)
      BY <2>2, <2>6 DEF NamesCode, GuessIsFresh, HasRoom
    <2> QED  BY <1>0, <2>1, <2>2, <2>3, <2>7, CallerMoves
  <1> QED  BY <1>1, <1>2

\* Finding, making and signing in the account: the status is asserted before a session.
LEMMA SessionsKeep ==
    ASSUME AccountInv, Auth!AccountsAssumption, NEW c \in Callers,
           Auth!FindByPhone(c) \/ Auth!SignUp(c) \/ Auth!IssueSession(c) \/ Auth!DropSession(c)
           \/ Auth!IssueSessionForUser(c)
    PROVE  AccountInv'
  <1>0. user \in UserRows /\ caller[c] \in CallerRows /\ Lawful(caller[c], user)
    BY CallersAreTyped
  <1>1. CASE Auth!FindByPhone(c)
    <2>1. UNCHANGED <<user, otp, told>>
      BY <1>1 DEF Auth!FindByPhone
    <2>2. CASE Auth!Done(c)
      BY <1>0, <2>1, <2>2, DoneMoves
    <2>3. CASE ~Auth!Done(c)
      <3>1. \E l \in {"signUp", "issue"} : Auth!Step(c, l) /\ ~caller[c].barred
        BY <1>0, <1>1, <2>3 DEF Auth!FindByPhone, Auth!AssertActive, Lawful
      <3> QED  BY <1>0, <2>1, <3>1, StepMoves
    <2> QED  BY <2>2, <2>3
  <1>2. CASE Auth!SignUp(c)
    <2>1. UNCHANGED <<otp, told>>
      BY <1>2 DEF Auth!SignUp
    <2>2. CASE user.exists
      BY <1>0, <1>2, <2>1, <2>2, DoneMoves DEF Auth!SignUp
    <2>3. CASE ~user.exists
      <3>1. PICK r \in Auth!Roles :
              user' = [Auth!NoUser EXCEPT !.exists = TRUE, !.password = Auth!At(c, "register"), !.roles = {r}]
        BY <1>2, <2>3 DEF Auth!SignUp, Auth!Roles
      <3>2. Auth!At(c, "register") \in BOOLEAN
        BY DEF Auth!At
      <3>3. user' \in UserRows
        BY <3>1, <3>2, NothingIsTyped DEF UserRows
      <3>4. Auth!Step(c, "issue") /\ ~caller[c].barred
        BY <1>0, <1>2, <2>3 DEF Auth!SignUp, Lawful
      <3> QED  BY <2>1, <2>3, <3>3, <3>4, StepMoves
    <2> QED  BY <2>2, <2>3
  <1>3. CASE Auth!IssueSession(c) \/ Auth!DropSession(c)
    <2>1. Auth!Done(c) /\ UNCHANGED <<otp, told>>
      BY <1>3 DEF Auth!IssueSession, Auth!DropSession
    <2>2. \E b \in BOOLEAN : user' = [user EXCEPT !.session = b]
      BY <1>3 DEF Auth!IssueSession, Auth!DropSession
    <2>3. user' \in UserRows /\ user'.exists = user.exists /\ user'.status = user.status
      BY <1>0, <2>2 DEF UserRows
    <2> QED  BY <2>1, <2>3, DoneMoves
  <1>4. CASE Auth!IssueSessionForUser(c)
    <2>1. UNCHANGED <<user, otp, told>>
      BY <1>4 DEF Auth!IssueSessionForUser
    <2>2. CASE user.status = "active"
      <3>1. Auth!Step(c, "issue") /\ ~caller[c].barred
        BY <1>0, <1>4, <2>2 DEF Auth!IssueSessionForUser, Auth!AssertActive, Lawful
      <3> QED  BY <1>0, <2>1, <3>1, StepMoves
    <2>3. CASE user.status # "active"
      BY <1>0, <1>4, <2>1, <2>3, DoneMoves DEF Auth!IssueSessionForUser, Auth!AssertActive
    <2> QED  BY <2>2, <2>3
  <1> QED  BY <1>1, <1>2, <1>3, <1>4

\* The account changes and whoever was readmitted is no longer noted as barred.
LEMMA AccountMoves ==
    ASSUME AccountInv, NEW u \in UserRows, user' = u, user.exists => u.exists,
           NEW next \in [Callers -> CallerRows],
           caller' = Auth!Readmit(u.status, next),
           \A d \in Callers : /\ Lawful(next[d], user) /\ NamesCode(next[d])
                              /\ Auth!Alone => GuessIsFresh(next[d], otp) /\ HasRoom(next[d], otp),
           UNCHANGED <<otp, told>>
    PROVE  AccountInv'
  <1>1. \A d \in Callers : /\ caller'[d] \in CallerRows
                           /\ caller'[d].at = next[d].at /\ caller'[d].code = next[d].code
                           /\ caller'[d].copy = next[d].copy
                           /\ caller'[d].barred => next[d].barred /\ u.status # "active"
    BY DEF Auth!Readmit, CallerRows
  <1>2. AccountTypes'
    <2>1. caller' \in [Callers -> CallerRows]
      BY <1>1 DEF Auth!Readmit
    <2> QED  BY <2>1 DEF AccountInv, AccountTypes
  <1>3. \A d \in Callers : Lawful(caller'[d], u) /\ NamesCode(caller'[d])
    BY <1>1 DEF Lawful, NamesCode
  <1>4. Auth!Alone => \A d \in Callers : GuessIsFresh(caller'[d], otp) /\ HasRoom(caller'[d], otp)
    BY <1>1 DEF GuessIsFresh, HasRoom
  <1> QED  BY <1>2, <1>3, <1>4 DEF AccountInv, Lawful, NamesCode, GuessIsFresh, HasRoom, CodeIsTold,
                                   ActiveOf, Auth!Alone

\* setStatus writes status and session together.
LEMMA StatusKeeps ==
    ASSUME AccountInv, Auth!AccountsAssumption, NEW c \in Callers, Auth!SaveStatus(c) \/ Auth!AdminUpdate(c)
    PROVE  AccountInv'
  <1>0. /\ user \in UserRows /\ caller \in [Callers -> CallerRows]
        /\ \A d \in Callers : /\ Lawful(caller[d], user) /\ NamesCode(caller[d])
                              /\ Auth!Alone => GuessIsFresh(caller[d], otp) /\ HasRoom(caller[d], otp)
    BY DEF AccountInv, AccountTypes
  <1>1. CASE Auth!SaveStatus(c)
    <2> DEFINE s == IF caller[c].status # caller[c].was THEN caller[c].status ELSE user.status
               t == IF caller[c].status = "suspended" THEN [caller[c] EXCEPT !.at = "drop"]
                    ELSE Auth!NoCaller
               next == [caller EXCEPT ![c] = t]
    <2>1. user' = [user EXCEPT !.status = s] /\ UNCHANGED <<otp, told>>
      BY <1>1 DEF Auth!SaveStatus
    <2>2. s \in Auth!Statuses
      BY <1>0 DEF UserRows, CallerRows
    <2>3. caller' = Auth!Readmit(s, next)
      BY <1>0, <1>1 DEF Auth!SaveStatus
    <2>4. t \in CallerRows /\ t.at \in {"drop", "idle"} /\ (t.barred => caller[c].barred)
      BY <1>0, NothingIsTyped DEF CallerRows, Auth!NoCaller
    <2> HIDE DEF s, t
    <2>5. user' \in UserRows /\ user'.exists = user.exists /\ user'.status = s
      BY <1>0, <2>1, <2>2 DEF UserRows
    <2>6. Lawful(t, user) /\ NamesCode(t) /\ GuessIsFresh(t, otp) /\ HasRoom(t, otp)
      BY <1>0, <2>4 DEF Lawful, NamesCode, GuessIsFresh, HasRoom
    <2>7. next \in [Callers -> CallerRows] /\ \A d \in Callers : next[d] = IF d = c THEN t ELSE caller[d]
      BY <1>0, <2>4
    <2> HIDE DEF next
    <2> QED  BY <1>0, <2>1, <2>3, <2>5, <2>6, <2>7, AccountMoves
  <1>2. CASE Auth!AdminUpdate(c)
    <2> PICK s \in Auth!Statuses, rs \in (SUBSET Auth!Roles) \ {{}} :
         /\ user' = [user EXCEPT !.status = s, !.roles = rs]
         /\ caller' = Auth!Readmit(s, caller)
      BY <1>2 DEF Auth!AdminUpdate
    <2>1. user' \in UserRows /\ user'.exists = user.exists /\ user'.status = s
      BY <1>0 DEF UserRows
    <2>2. UNCHANGED <<otp, told>>
      BY <1>2 DEF Auth!AdminUpdate
    <2> QED  BY <1>0, <2>1, <2>2, AccountMoves
  <1> QED  BY <1>1, <1>2

\* The holder opens on another role, or closes the account.
LEMMA HolderKeeps ==
    ASSUME AccountInv, Auth!AccountsAssumption, NEW c \in Callers,
           Auth!SetDefaultRole(c) \/ Auth!CloseOwnAccount(c)
    PROVE  AccountInv'
  <1>0. user \in UserRows
    BY DEF AccountInv, AccountTypes
  <1>1. /\ user' \in UserRows /\ user'.exists = user.exists
        /\ user'.status \in {user.status, "deleted"} /\ UNCHANGED <<otp, caller, told>>
    <2>1. CASE Auth!SetDefaultRole(c)
      <3>1. PICK r \in user.roles : user' = [user EXCEPT !.chosen = r]
        BY <2>1 DEF Auth!SetDefaultRole
      <3>2. r \in Auth!Roles
        BY <1>0 DEF UserRows
      <3> QED  BY <1>0, <2>1, <3>1, <3>2 DEF UserRows, Auth!SetDefaultRole
    <2>2. CASE Auth!CloseOwnAccount(c)
      BY <1>0, <2>2 DEF UserRows, Auth!CloseOwnAccount, Auth!Statuses
    <2> QED  BY <2>1, <2>2
  <1>2. AccountTypes'
    BY <1>1 DEF AccountInv, AccountTypes
  <1>3. \A d \in Callers : Lawful(caller[d], user')
    BY <1>1 DEF AccountInv, Lawful
  <1> QED  BY <1>1, <1>2, <1>3 DEF AccountInv, Lawful, NamesCode, GuessIsFresh, HasRoom, CodeIsTold,
                              ActiveOf, Auth!Alone

\* A code's row changes and at most one request with it.
LEMMA CodeMoves ==
    ASSUME AccountInv, Auth!AccountsAssumption, NEW o \in Codes, NEW row \in CodeRows,
           otp' = [otp EXCEPT ![o] = row], NEW tally \in ToldRows,
           told' = [told EXCEPT ![o] = tally], UNCHANGED user,
           caller' \in [Callers -> CallerRows],
           \A d \in Callers : Lawful(caller'[d], user) /\ NamesCode(caller'[d]),
           ActiveOf(otp') \subseteq ActiveOf(otp) \cup {o},
           Auth!Alone => /\ CodeIsTold(row, tally)
                         /\ \A d \in Callers : GuessIsFresh(caller'[d], otp') /\ HasRoom(caller'[d], otp')
                         /\ Cardinality(ActiveOf(otp')) <= MaxActive
    PROVE  AccountInv'
  <1>1. AccountTypes'
    BY DEF AccountInv, AccountTypes
  <1>2. IsFiniteSet(ActiveOf(otp'))
    <2>1. IsFiniteSet(ActiveOf(otp) \cup {o})
      BY FS_AddElement DEF AccountInv
    <2> QED  BY <2>1, FS_Subset
  <1>3. Auth!Alone => \A p \in Codes : CodeIsTold(otp'[p], told'[p])
    BY DEF AccountInv, AccountTypes
  <1>4. (\A c \in Callers : Lawful(caller[c], user) /\ NamesCode(caller[c]))'
    BY DEF Lawful, NamesCode
  <1>5. Auth!Alone' = Auth!Alone
    BY DEF Auth!Alone
  <1>6. Auth!Alone => (\A p \in Codes : CodeIsTold(otp[p], told[p]))'
    BY <1>3 DEF CodeIsTold
  <1>7. Auth!Alone => (\A c \in Callers : GuessIsFresh(caller[c], otp) /\ HasRoom(caller[c], otp))'
    BY DEF GuessIsFresh, HasRoom, ActiveOf
  <1>8. IsFiniteSet(ActiveOf(otp))' /\ (Auth!Alone => Cardinality(ActiveOf(otp)) <= MaxActive)'
    BY <1>2, <1>5 DEF ActiveOf
  <1> QED  BY <1>1, <1>4, <1>5, <1>6, <1>7, <1>8 DEF AccountInv

\* Fewer codes to guess at are no more codes.
LEMMA FewerAreFew ==
    ASSUME AccountInv, Auth!AccountsAssumption, Auth!Alone, NEW S, S \subseteq ActiveOf(otp)
    PROVE  /\ Cardinality(S) <= Cardinality(ActiveOf(otp)) /\ Cardinality(S) <= MaxActive
           /\ Cardinality(S) \in Nat /\ Cardinality(ActiveOf(otp)) \in Nat
  <1>1. /\ IsFiniteSet(ActiveOf(otp)) /\ Cardinality(ActiveOf(otp)) \in Nat
        /\ Cardinality(ActiveOf(otp)) <= MaxActive /\ MaxActive \in Nat
    BY FS_CardinalityType DEF AccountInv, Auth!AccountsAssumption
  <1>2. IsFiniteSet(S) /\ Cardinality(S) <= Cardinality(ActiveOf(otp))
    BY <1>1, FS_Subset
  <1>3. Cardinality(S) \in Nat
    BY <1>2, FS_CardinalityType
  <1> QED  BY <1>1, <1>2, <1>3

\* A code that ages is no longer active, and keeps its count.
LEMMA AgeKeeps ==
    ASSUME AccountInv, Auth!AccountsAssumption, NEW o \in Codes, Auth!Age(o)
    PROVE  AccountInv'
  <1> DEFINE row == IF otp[o].young THEN [otp[o] EXCEPT !.young = FALSE]
                    ELSE IF ~otp[o].expired THEN [otp[o] EXCEPT !.expired = TRUE]
                    ELSE Auth!NoCode
  <1>1. /\ otp \in [Codes -> CodeRows] /\ told \in [Codes -> ToldRows]
        /\ caller \in [Callers -> CallerRows]
    BY DEF AccountInv, AccountTypes
  <1>2. otp' = [otp EXCEPT ![o] = row] /\ UNCHANGED <<user, caller, told>>
    BY <1>1 DEF Auth!Age
  <1>3. /\ row \in CodeRows
        /\ row.sent => /\ otp[o].sent /\ row.consumed = otp[o].consumed
                       /\ row.attempts = otp[o].attempts /\ (otp[o].expired => row.expired)
    BY <1>1, NothingIsTyped DEF CodeRows, Auth!NoCode
  <1> HIDE DEF row
  <1>4. \A p \in Codes : otp'[p] = IF p = o THEN row ELSE otp[p]
    BY <1>1, <1>2
  <1>5. ActiveOf(otp') \subseteq ActiveOf(otp)
    BY <1>3, <1>4 DEF ActiveOf
  <1>6. Auth!Alone => CodeIsTold(row, told[o])
    BY <1>3 DEF AccountInv, CodeIsTold
  <1>7. Auth!Alone => \A d \in Callers : GuessIsFresh(caller[d], otp') /\ HasRoom(caller[d], otp')
    <2> SUFFICES ASSUME Auth!Alone, NEW d \in Callers
                 PROVE  GuessIsFresh(caller[d], otp') /\ HasRoom(caller[d], otp')
      OBVIOUS
    <2>1. GuessIsFresh(caller[d], otp) /\ HasRoom(caller[d], otp) /\ NamesCode(caller[d])
      BY DEF AccountInv
    <2>2. Cardinality(ActiveOf(otp')) <= Cardinality(ActiveOf(otp))
             /\ Cardinality(ActiveOf(otp')) \in Nat /\ Cardinality(ActiveOf(otp)) \in Nat
      BY <1>5, FewerAreFew
    <2>3. HasRoom(caller[d], otp')
      BY <2>1, <2>2 DEF HasRoom, Auth!AccountsAssumption
    <2>4. GuessIsFresh(caller[d], otp')
      BY <1>3, <1>4, <2>1 DEF GuessIsFresh, NamesCode
    <2> QED  BY <2>3, <2>4
  <1>8. Auth!Alone => Cardinality(ActiveOf(otp')) <= MaxActive
    BY <1>5, FewerAreFew
  <1>9. told' = [told EXCEPT ![o] = told[o]] /\ told[o] \in ToldRows
    BY <1>1, <1>2
  <1>10. \A d \in Callers : Lawful(caller'[d], user) /\ NamesCode(caller'[d])
    BY <1>2 DEF AccountInv
  <1> QED  BY <1>1, <1>2, <1>3, <1>5, <1>6, <1>7, <1>8, <1>9, <1>10, CodeMoves

\* A new code starts from nothing, so nothing was told of it.
LEMMA CreateCodeKeeps ==
    ASSUME AccountInv, Auth!AccountsAssumption, NEW c \in Callers, Auth!CreateCode(c)
    PROVE  AccountInv'
  <1> PICK o \in Codes :
         /\ ~otp[o].sent
         /\ otp' = [otp EXCEPT ![o] = [Auth!NoCode EXCEPT !.sent = TRUE, !.young = TRUE]]
         /\ told' = [told EXCEPT ![o] = Auth!Untold]
    BY DEF Auth!CreateCode
  <1> DEFINE row == [Auth!NoCode EXCEPT !.sent = TRUE, !.young = TRUE]
  <1>1. /\ otp \in [Codes -> CodeRows] /\ told \in [Codes -> ToldRows]
        /\ caller \in [Callers -> CallerRows] /\ Auth!NoCaller \in CallerRows
    BY NothingIsTyped DEF AccountInv, AccountTypes
  <1>2. row \in CodeRows /\ ~row.consumed /\ row.attempts = 0 /\ row.sent
    BY NothingIsTyped DEF CodeRows, Auth!NoCode
  <1>3. otp' = [otp EXCEPT ![o] = row] /\ told' = [told EXCEPT ![o] = Auth!Untold] /\ UNCHANGED user
    BY DEF Auth!CreateCode
  <1> HIDE DEF row
  <1>4. \A p \in Codes : otp'[p] = IF p = o THEN row ELSE otp[p]
    BY <1>1, <1>3
  <1>5. ActiveOf(otp') \subseteq ActiveOf(otp) \cup {o} /\ o \notin ActiveOf(otp)
    BY <1>4 DEF ActiveOf
  <1>6. CodeIsTold(row, Auth!Untold) /\ Auth!Untold \in ToldRows
    BY <1>2, NothingIsTyped DEF CodeIsTold, Auth!Untold, Auth!AccountsAssumption
  <1>7. /\ caller' = [caller EXCEPT ![c] = Auth!NoCaller]
        /\ \A d \in Callers : caller'[d] = IF d = c THEN Auth!NoCaller ELSE caller[d]
    BY <1>1 DEF Auth!CreateCode, Auth!Done, Auth!Goto
  <1>8. \A d \in Callers : Lawful(caller'[d], user) /\ NamesCode(caller'[d])
    BY <1>7 DEF AccountInv, Auth!NoCaller, Lawful, NamesCode
  <1>9. Auth!Alone => \A d \in Callers : GuessIsFresh(caller'[d], otp') /\ HasRoom(caller'[d], otp')
    BY <1>7 DEF Auth!Alone, Auth!NoCaller, GuessIsFresh, HasRoom
  <1>10. Auth!Alone => Cardinality(ActiveOf(otp')) <= MaxActive
    <2> SUFFICES ASSUME Auth!Alone PROVE Cardinality(ActiveOf(otp')) <= MaxActive
      OBVIOUS
    <2>1. IsFiniteSet(ActiveOf(otp)) /\ Cardinality(ActiveOf(otp)) < MaxActive
      BY CallersAreTyped DEF AccountInv, HasRoom, Auth!CreateCode, Auth!At
    <2>2. IsFiniteSet(ActiveOf(otp) \cup {o})
            /\ Cardinality(ActiveOf(otp) \cup {o}) = Cardinality(ActiveOf(otp)) + 1
      BY <1>5, <2>1, FS_AddElement
    <2>3. Cardinality(ActiveOf(otp')) <= Cardinality(ActiveOf(otp) \cup {o})
      BY <1>5, <2>2, FS_Subset
    <2>4. Cardinality(ActiveOf(otp)) \in Nat /\ Cardinality(ActiveOf(otp')) \in Nat
      <3>1. IsFiniteSet(ActiveOf(otp'))
        BY <1>5, <2>2, FS_Subset
      <3> QED  BY <2>1, <3>1, FS_CardinalityType
    <2> QED  BY <2>1, <2>2, <2>3, <2>4 DEF Auth!AccountsAssumption
  <1>11. caller' \in [Callers -> CallerRows]
    BY <1>1, <1>7
  <1> QED  BY <1>2, <1>3, <1>5, <1>6, <1>8, <1>9, <1>10, <1>11, CodeMoves

\* A guess writes the attempt, or the consumption, that it was told.
LEMMA GuessKeeps ==
    ASSUME AccountInv, Auth!AccountsAssumption, NEW c \in Callers, Auth!Guess(c)
    PROVE  AccountInv'
  <1> DEFINE o == caller[c].code
             hit == [otp[o] EXCEPT !.consumed = TRUE]
             miss == [otp[o] EXCEPT !.attempts = caller[c].copy.attempts + 1]
             won == [told[o] EXCEPT !.passed = @ + 1]
             lost == [told[o] EXCEPT !.wrong = @ + 1]
             on == [caller[c] EXCEPT !.at = "find"]
  <1>1. /\ otp \in [Codes -> CodeRows] /\ told \in [Codes -> ToldRows]
        /\ caller \in [Callers -> CallerRows] /\ Auth!NoCaller \in CallerRows
        /\ caller[c] \in CallerRows /\ user \in UserRows /\ Lawful(caller[c], user)
    BY NothingIsTyped DEF AccountInv, AccountTypes
  <1>2. caller[c].at = "guess" /\ o \in Codes /\ UNCHANGED user
    BY CallersAreTyped DEF Auth!Guess, Auth!At, NamesCode
  <1>3. Auth!Alone => CodeIsTold(otp[o], told[o]) /\ GuessIsFresh(caller[c], otp)
    BY <1>2 DEF AccountInv
  <1>4. CASE ~otp[o].sent
    BY <1>1, <1>2, <1>4, DoneMoves DEF Auth!Guess
  <1>5. CASE otp[o].sent /\ caller[c].right
    <2>1. /\ hit \in CodeRows /\ hit.sent /\ hit.consumed /\ hit.attempts = otp[o].attempts
          /\ won \in ToldRows /\ won.passed = told[o].passed + 1 /\ won.wrong = told[o].wrong
          /\ on \in CallerRows /\ on.at = "find" /\ on.barred = caller[c].barred
      <3>1. told[o] \in ToldRows /\ otp[o] \in CodeRows
        BY <1>1, <1>2
      <3>2. hit \in CodeRows /\ hit.sent /\ hit.consumed /\ hit.attempts = otp[o].attempts
        BY <1>5, <3>1 DEF CodeRows
      <3>3. won \in ToldRows /\ won.passed = told[o].passed + 1 /\ won.wrong = told[o].wrong
        BY <3>1 DEF ToldRows
      <3>4. on \in CallerRows /\ on.at = "find" /\ on.barred = caller[c].barred
        BY <1>1 DEF CallerRows
      <3> QED  BY <3>2, <3>3, <3>4
    <2>2. /\ otp' = [otp EXCEPT ![o] = hit] /\ told' = [told EXCEPT ![o] = won]
          /\ caller' = [caller EXCEPT ![c] = on]
      BY <1>1, <1>2, <1>5 DEF Auth!Guess, Auth!Step, Auth!Goto
    <2> HIDE DEF hit, won, on
    <2>3. \A p \in Codes : otp'[p] = IF p = o THEN hit ELSE otp[p]
      BY <1>1, <1>2, <2>2
    <2>4. \A d \in Callers : caller'[d] = IF d = c THEN on ELSE caller[d]
      BY <1>1, <2>2
    <2>5. ActiveOf(otp') \subseteq ActiveOf(otp)
      BY <2>1, <2>3 DEF ActiveOf
    <2>6. Auth!Alone => CodeIsTold(hit, won)
      <3> SUFFICES ASSUME Auth!Alone PROVE CodeIsTold(hit, won)
        OBVIOUS
      <3>1. /\ told[o].passed \in Nat /\ told[o].wrong \in Nat /\ otp[o].attempts \in Nat
            /\ otp[o].consumed \in BOOLEAN
        BY <1>1, <1>2 DEF ToldRows, CodeRows
      <3>2. told[o].passed = 0 /\ otp[o].attempts = told[o].wrong /\ otp[o].attempts < MaxAttempts
        BY <1>2, <1>3, <1>5, <3>1 DEF CodeIsTold, GuessIsFresh
      <3>3. won.passed = 1 /\ won.wrong = told[o].wrong /\ won.wrong + won.passed <= MaxAttempts
        BY <2>1, <3>1, <3>2 DEF Auth!AccountsAssumption
      <3> QED  BY <2>1, <3>2, <3>3 DEF CodeIsTold
    <2>7. \A d \in Callers : Lawful(caller'[d], user) /\ NamesCode(caller'[d])
      BY <1>1, <2>1, <2>4 DEF AccountInv, Lawful, NamesCode
    <2>8. Auth!Alone => \A d \in Callers : GuessIsFresh(caller'[d], otp') /\ HasRoom(caller'[d], otp')
      BY <2>1, <2>4 DEF Auth!Alone, GuessIsFresh, HasRoom
    <2>9. Auth!Alone => Cardinality(ActiveOf(otp')) <= MaxActive
      BY <2>5, FewerAreFew
    <2>10. caller' \in [Callers -> CallerRows]
      BY <1>1, <2>1, <2>2
    <2> HIDE DEF o
    <2> QED  BY <1>2, <2>1, <2>2, <2>5, <2>6, <2>7, <2>8, <2>9, <2>10, CodeMoves
  <1>6. CASE otp[o].sent /\ ~caller[c].right
    <2>1. caller[c].copy.attempts \in Nat
      BY <1>1 DEF CallerRows, CodeRows
    <2>2. /\ miss \in CodeRows /\ miss.sent /\ miss.consumed = otp[o].consumed
          /\ miss.expired = otp[o].expired
          /\ miss.attempts = caller[c].copy.attempts + 1
          /\ lost \in ToldRows /\ lost.wrong = told[o].wrong + 1 /\ lost.passed = told[o].passed
      BY <1>1, <1>2, <1>6, <2>1 DEF CodeRows, ToldRows
    <2>3. /\ otp' = [otp EXCEPT ![o] = miss] /\ told' = [told EXCEPT ![o] = lost]
          /\ caller' = [caller EXCEPT ![c] = Auth!NoCaller]
      BY <1>1, <1>2, <1>6 DEF Auth!Guess, Auth!Done, Auth!Goto
    <2> HIDE DEF miss, lost
    <2>4. \A p \in Codes : otp'[p] = IF p = o THEN miss ELSE otp[p]
      BY <1>1, <1>2, <2>3
    <2>5. \A d \in Callers : caller'[d] = IF d = c THEN Auth!NoCaller ELSE caller[d]
      BY <1>1, <2>3
    <2>6. ActiveOf(otp') \subseteq ActiveOf(otp)
      BY <1>6, <2>2, <2>4 DEF ActiveOf
    <2>7. Auth!Alone => CodeIsTold(miss, lost)
      <3> SUFFICES ASSUME Auth!Alone PROVE CodeIsTold(miss, lost)
        OBVIOUS
      <3>1. /\ told[o].passed \in Nat /\ told[o].wrong \in Nat /\ otp[o].attempts \in Nat
            /\ otp[o].consumed \in BOOLEAN
        BY <1>1, <1>2 DEF ToldRows, CodeRows
      <3>2. /\ told[o].passed = 0 /\ otp[o].attempts = told[o].wrong /\ ~otp[o].consumed
            /\ caller[c].copy.attempts = otp[o].attempts /\ otp[o].attempts < MaxAttempts
        BY <1>2, <1>3, <1>6, <3>1 DEF CodeIsTold, GuessIsFresh
      <3>3. /\ lost.passed = 0 /\ miss.attempts = lost.wrong
            /\ lost.wrong + lost.passed <= MaxAttempts
        BY <2>2, <3>1, <3>2 DEF Auth!AccountsAssumption
      <3> QED  BY <2>2, <3>2, <3>3 DEF CodeIsTold
    <2>8. \A d \in Callers : Lawful(caller'[d], user) /\ NamesCode(caller'[d])
      BY <2>5 DEF AccountInv, Lawful, NamesCode, Auth!NoCaller
    <2>9. Auth!Alone => \A d \in Callers : GuessIsFresh(caller'[d], otp') /\ HasRoom(caller'[d], otp')
      BY <2>5 DEF Auth!Alone, GuessIsFresh, HasRoom, Auth!NoCaller
    <2>10. Auth!Alone => Cardinality(ActiveOf(otp')) <= MaxActive
      BY <2>6, FewerAreFew
    <2>11. caller' \in [Callers -> CallerRows]
      BY <1>1, <2>3
    <2> HIDE DEF o
    <2> QED  BY <1>2, <2>2, <2>3, <2>6, <2>7, <2>8, <2>9, <2>10, <2>11, CodeMoves
  <1> QED  BY <1>4, <1>5, <1>6

\* Every step keeps the invariant.
LEMMA AccountStep ==
    ASSUME AccountInv, Auth!AccountsAssumption, [Auth!Next]_(Auth!accountVars)
    PROVE  AccountInv'
  <1>1. CASE UNCHANGED Auth!accountVars
    BY <1>1 DEF Auth!accountVars, AccountInv, AccountTypes, Lawful, NamesCode, GuessIsFresh, HasRoom,
                CodeIsTold, ActiveOf, Auth!Alone
  <1>2. CASE Auth!Next
    BY <1>2, AskKeeps, CountKeeps, SessionsKeep, StatusKeeps, HolderKeeps, AgeKeeps, CreateCodeKeeps,
       GuessKeeps DEF Auth!Next
  <1> QED  BY <1>1, <1>2

\* The invariant holds of every behaviour of an account.
LEMMA AccountInvHolds == ASSUME Auth!AccountsAssumption PROVE Auth!Spec => []AccountInv
  <1>1. Auth!Init => AccountInv
    BY AccountInit
  <1>2. AccountInv /\ [Auth!Next]_(Auth!accountVars) => AccountInv'
    BY AccountStep
  <1> QED  BY <1>1, <1>2, PTL DEF Auth!Spec

\* A barred account gets no session out of a request that began when it was barred
\* (assertActive before issueSession), whatever overlaps; and where requests do not, a code
\* lets nobody in twice and takes no more than its guesses.
THEOREM SignInStaysSound ==
    ASSUME Auth!AccountsAssumption
    PROVE  Auth!Spec => []Auth!SignInIsSound
  <1>1. AccountInv => Auth!SignInIsSound
    <2> SUFFICES ASSUME AccountInv PROVE Auth!SignInIsSound
      OBVIOUS
    <2>1. Auth!BarredGetsNoSession
      BY DEF AccountInv, Lawful, Auth!BarredGetsNoSession, Auth!At
    <2>2. Auth!OpensOnHeldRole
      BY DEF Auth!OpensOnHeldRole, Auth!ResolveDefaultRole
    <2>3. Auth!Alone => Auth!CodesRunOut
      BY DEF AccountInv, CodeIsTold, Auth!CodesRunOut
    <2>4. Auth!Alone => Auth!FewCodesLive
      BY ActiveIs, AuthCounts DEF AccountInv, Auth!FewCodesLive
    <2> QED  BY <2>1, <2>2, <2>3, <2>4 DEF Auth!SignInIsSound
  <1> QED  BY <1>1, AccountInvHolds, PTL

-----------------------------------------------------------------------------
(* The application (OrganizerOnboarding).                                   *)

\* The instance counts and divides as this module does.
LEMMA SameMeaning ==
    \A S : Onb!Cardinality(S) = Cardinality(S) /\ (Onb!IsFiniteSet(S) <=> IsFiniteSet(S))
  BY Zenon DEF Onb!Cardinality, Cardinality, Onb!IsFiniteSet, IsFiniteSet

\* The types of a profile, an entry of its trail and a handler.
Standings ==
    {"NONE", "PENDING_REVIEW", "DRAFT", "IN_PROGRESS", "SUBMITTED", "CHANGES_REQUESTED", "APPROVED",
     "REJECTED"}
\* The notes of a verdict.
Notes == {"", "REJECTED", "CHANGES_REQUESTED"}
\* A profile row.
ProfileRows ==
    [status : Standings, live : BOOLEAN, filled : SUBSET Onb!GoLiveRequired,
     bank : Accounts \cup {""}, completion : Nat, last : Standings \cup {""}, note : Notes]
\* An entry of the trail.
Entries == [to : Standings \cup {""}, note : Notes]
\* A handler and the row it loaded.
Applications == [at : {"idle", "register", "save"}, was : ProfileRows, copy : ProfileRows, entry : Entries]

\* What a verdict leaves behind.
Fine(p) ==
    /\ p.status # "NONE"
    /\ p.live <=> p.status = "APPROVED"
    /\ p.live => Onb!GoLiveMissing(p) = {}
    /\ \/ p.last = p.status
       \/ p.status = "IN_PROGRESS" /\ p.last \in {"DRAFT", "CHANGES_REQUESTED"}
    /\ p.status \in {"REJECTED", "CHANGES_REQUESTED"} => p.note = p.status
    /\ p.completion = Onb!Overall(p)

\* The row a save of the copy p with the entry e leaves of the row r.
Result(r, p, e) ==
    [status |-> p.status, live |-> p.live, filled |-> p.filled, bank |-> p.bank,
     completion |-> p.completion, last |-> IF e.to = "" THEN r.last ELSE e.to,
     note |-> IF e.note = "" THEN r.note ELSE e.note]

\* A bank account that is under review or approved, and there, is not changed.
Locked(r, p) == r.status \in {"SUBMITTED", "APPROVED"} /\ r.bank # "" => p.bank = r.bank

\* The inductive invariant of an application.
OnboardingInv ==
    /\ profile \in ProfileRows /\ caller \in [Callers -> Applications]
    /\ profile = Onb!Nobody \/ Fine(profile)
    /\ \A c \in Callers : caller[c].at = "save" =>
         /\ caller[c].was = profile
         /\ Fine(Result(profile, caller[c].copy, caller[c].entry))
         /\ Locked(profile, caller[c].copy)

\* No profile yet is of its type.
LEMMA NobodyIs ==
    /\ Onb!Nobody \in ProfileRows /\ Onb!NoEntry \in Entries /\ Onb!NoCall \in Applications
    /\ Onb!Nobody.status = "NONE" /\ Onb!NoCall.at = "idle" /\ Onb!NoEntry.to = "" /\ Onb!NoEntry.note = ""
  BY DEF Onb!Nobody, Onb!NoEntry, Onb!NoCall, ProfileRows, Entries, Applications, Standings, Notes

\* The completion counts what is filled in, and the bank details.
LEMMA OverallCounts ==
    ASSUME Onb!OnboardingAssumption, NEW p, p.filled \in SUBSET Onb!GoLiveRequired
    PROVE  Onb!Overall(p) \in Nat
  <1>1. IsFiniteSet(Onb!GoLiveRequired)
    BY SameMeaning, FS_Union DEF Onb!OnboardingAssumption, Onb!GoLiveRequired
  <1>2. IsFiniteSet(p.filled)
    BY <1>1, FS_Subset
  <1>3. Cardinality(p.filled) \in Nat
    BY <1>2, FS_CardinalityType
  <1> QED  BY <1>3, SameMeaning DEF Onb!Overall

\* The overall completion depends on what is filled and the bank.
LEMMA OverallIs ==
    ASSUME NEW p, NEW q, p.filled = q.filled, p.bank = q.bank
    PROVE  Onb!Overall(p) = Onb!Overall(q)
  BY DEF Onb!Overall, Onb!PayoutReady

\* recompute stores the completion there is to store.
LEMMA RecomputedIs ==
    ASSUME Onb!OnboardingAssumption, NEW p \in ProfileRows
    PROVE  LET q == Onb!Recomputed(p)
           IN  /\ q \in ProfileRows /\ q.completion = Onb!Overall(p)
               /\ q.status = p.status /\ q.live = p.live /\ q.filled = p.filled
               /\ q.bank = p.bank /\ q.last = p.last /\ q.note = p.note
  <1>1. Onb!Overall(p) \in Nat
    BY OverallCounts DEF ProfileRows
  <1> QED  BY <1>1 DEF Onb!Recomputed, ProfileRows

\* finalizeSave does, and puts a draft in progress.
LEMMA FinalizedIs ==
    ASSUME Onb!OnboardingAssumption, NEW p \in ProfileRows
    PROVE  LET q == Onb!Finalized(p)
           IN  /\ q \in ProfileRows /\ q.completion = Onb!Overall(p)
               /\ q.live = p.live /\ q.filled = p.filled
               /\ q.bank = p.bank /\ q.last = p.last /\ q.note = p.note
               /\ \/ q.status = p.status
                  \/ p.status \in {"DRAFT", "CHANGES_REQUESTED"} /\ q.status = "IN_PROGRESS"
  <1> DEFINE q == Onb!Recomputed(p)
             s == IF Onb!Overall(p) > 0 /\ q.status \in {"DRAFT", "CHANGES_REQUESTED"}
                    THEN "IN_PROGRESS" ELSE q.status
  <1>1. /\ q \in ProfileRows /\ q.completion = Onb!Overall(p)
        /\ q.status = p.status /\ q.live = p.live /\ q.filled = p.filled
        /\ q.bank = p.bank /\ q.last = p.last /\ q.note = p.note
    BY RecomputedIs
  <1>2. Onb!Finalized(p) = [q EXCEPT !.status = s]
    BY DEF Onb!Finalized
  <1> HIDE DEF q
  <1>3. s \in Standings /\ s \in {p.status, "IN_PROGRESS"}
         /\ (s # p.status => p.status \in {"DRAFT", "CHANGES_REQUESTED"})
    BY <1>1 DEF ProfileRows, Standings
  <1> HIDE DEF s
  <1> QED  BY <1>1, <1>2, <1>3 DEF ProfileRows

\* No profile, or a row of before, satisfies the invariant.
LEMMA OnboardingInit ==
    ASSUME Onb!OnboardingAssumption, Onb!Init PROVE OnboardingInv
  <1>1. caller \in [Callers -> Applications] /\ \A c \in Callers : caller[c].at = "idle"
    BY NobodyIs DEF Onb!Init
  <1>2. CASE profile = Onb!Nobody
    BY <1>1, <1>2, NobodyIs DEF OnboardingInv
  <1>3. CASE profile # Onb!Nobody
    <2>1. PICK F \in SUBSET Fields :
            profile = Onb!Recomputed([Onb!Nobody EXCEPT !.status = "PENDING_REVIEW", !.filled = F,
                                                        !.last = "PENDING_REVIEW"])
      BY <1>3 DEF Onb!Init
    <2> DEFINE p == [Onb!Nobody EXCEPT !.status = "PENDING_REVIEW", !.filled = F,
                                       !.last = "PENDING_REVIEW"]
    <2>2. /\ p \in ProfileRows /\ p.status = "PENDING_REVIEW" /\ p.last = "PENDING_REVIEW"
          /\ ~p.live
      BY NobodyIs DEF ProfileRows, Standings, Onb!Nobody, Onb!GoLiveRequired
    <2>3. profile = Onb!Recomputed(p)
      BY <2>1
    <2> HIDE DEF p
    <2>4. profile \in ProfileRows /\ Fine(profile)
      BY <2>2, <2>3, RecomputedIs, OverallIs DEF Fine
    <2> QED  BY <1>1, <2>4 DEF OnboardingInv
  <1> QED  BY <1>2, <1>3

\* A handler goes to work on a copy, and what its save will leave is fine.
LEMMA WorkKeeps ==
    ASSUME OnboardingInv, NEW c \in Callers, NEW p \in ProfileRows, NEW e \in Entries,
           Onb!Work(c, p, e), profile' = profile, Fine(Result(profile, p, e)), Locked(profile, p)
    PROVE  OnboardingInv'
  <1> DEFINE t == [at |-> "save", was |-> profile, copy |-> p, entry |-> e]
  <1>1. t \in Applications /\ caller' = [caller EXCEPT ![c] = t]
    BY DEF OnboardingInv, Applications, Onb!Work, Onb!Goto
  <1> QED  BY <1>1 DEF OnboardingInv

\* Fine is about the fields a result takes from the copy, the entry and the row.
LEMMA ResultIsFine ==
    ASSUME NEW r \in ProfileRows, NEW p \in ProfileRows, NEW e \in Entries,
           p.status # "NONE", p.live <=> p.status = "APPROVED", p.live => Onb!GoLiveMissing(p) = {},
           \/ e.to = p.status
           \/ e.to = "" /\ r.last = p.status
           \/ /\ p.status = "IN_PROGRESS"
              /\ \/ e.to \in {"DRAFT", "CHANGES_REQUESTED"}
                 \/ e.to = "" /\ r.last \in {"DRAFT", "CHANGES_REQUESTED"},
           p.status \in {"REJECTED", "CHANGES_REQUESTED"} =>
             e.note = p.status \/ (e.note = "" /\ r.note = p.status),
           p.completion = Onb!Overall(p)
    PROVE  Fine(Result(r, p, e))
  <1> DEFINE q == Result(r, p, e)
  <1>1. /\ q.status = p.status /\ q.live = p.live /\ q.filled = p.filled /\ q.bank = p.bank
        /\ q.completion = p.completion
        /\ q.last = (IF e.to = "" THEN r.last ELSE e.to)
        /\ q.note = (IF e.note = "" THEN r.note ELSE e.note)
    BY DEF Result
  <1>2. Onb!Overall(q) = Onb!Overall(p)
    BY <1>1, OverallIs
  <1>3. Onb!GoLiveMissing(q) = Onb!GoLiveMissing(p)
    BY <1>1 DEF Onb!GoLiveMissing
  <1>4. p.status # ""
    BY DEF ProfileRows, Standings
  <1> SUFFICES Fine(q)
    OBVIOUS
  <1> HIDE DEF q
  <1>5. q.last = q.status \/ (q.status = "IN_PROGRESS" /\ q.last \in {"DRAFT", "CHANGES_REQUESTED"})
    BY <1>1, <1>4
  <1>6. q.status \in {"REJECTED", "CHANGES_REQUESTED"} => q.note = q.status
    BY <1>1
  <1>7. (q.live <=> q.status = "APPROVED") /\ (q.live => Onb!GoLiveMissing(q) = {})
    BY <1>1, <1>3
  <1> QED  BY <1>1, <1>2, <1>5, <1>6, <1>7 DEF Fine

\* What the invariant says of the row and of one handler.
LEMMA ProfileIs ==
    ASSUME OnboardingInv
    PROVE  /\ profile \in ProfileRows
           /\ profile # Onb!Nobody => Fine(profile) /\ profile.status # "NONE"
  BY DEF OnboardingInv, Fine

\* No entry.
LEMMA NoEntryIs == Onb!NoEntry \in Entries /\ Onb!NoEntry.to = "" /\ Onb!NoEntry.note = ""
  BY NobodyIs

\* An entry that only names a status.
LEMMA EntryIs ==
    ASSUME NEW s \in Standings
    PROVE  LET e == [Onb!NoEntry EXCEPT !.to = s] IN e \in Entries /\ e.to = s /\ e.note = ""
  BY NobodyIs DEF Entries

\* Switching a field leaves the verdict alone.
LEMMA ToggledIs ==
    ASSUME NEW p \in ProfileRows, NEW f \in Onb!GoLiveRequired
    PROVE  LET q == Onb!Toggled(p, f)
           IN  /\ q \in ProfileRows /\ q.status = p.status /\ q.live = p.live
               /\ q.bank = p.bank /\ q.last = p.last /\ q.note = p.note
  BY DEF Onb!Toggled, ProfileRows

\* The organizer edits where the status lets them.
LEMMA OrganizerEditsKeep ==
    ASSUME OnboardingInv, Onb!OnboardingAssumption, NEW c \in Callers, Onb!OrganizerEdits(c)
    PROVE  OnboardingInv'
  <1> PICK f \in Onb!GoLiveRequired : Onb!Work(c, Onb!Finalized(Onb!Toggled(profile, f)), Onb!NoEntry)
    BY DEF Onb!OrganizerEdits
  <1> DEFINE q == Onb!Toggled(profile, f)
             p == Onb!Finalized(q)
  <1>1. /\ profile \in ProfileRows /\ Fine(profile) /\ UNCHANGED profile
        /\ profile.status \in {"DRAFT", "IN_PROGRESS", "CHANGES_REQUESTED"}
    BY ProfileIs DEF Onb!OrganizerEdits, Onb!CanOrganizerEdit
  <1>2. /\ q \in ProfileRows /\ q.status = profile.status /\ q.live = profile.live
        /\ q.bank = profile.bank /\ q.last = profile.last /\ q.note = profile.note
    BY <1>1, ToggledIs
  <1> HIDE DEF q
  <1>3. /\ p \in ProfileRows /\ p.completion = Onb!Overall(p)
        /\ p.live = q.live /\ p.bank = q.bank
        /\ \/ p.status = q.status
           \/ q.status \in {"DRAFT", "CHANGES_REQUESTED"} /\ p.status = "IN_PROGRESS"
    BY <1>2, FinalizedIs, OverallIs
  <1> HIDE DEF p
  <1>4. ~p.live
    BY <1>1, <1>2, <1>3 DEF Fine
  <1>5. Fine(Result(profile, p, Onb!NoEntry))
    <2>1. p.status \notin {"NONE", "APPROVED", "REJECTED"}
      BY <1>1, <1>2, <1>3
    <2>2. p.status = "CHANGES_REQUESTED" => profile.note = p.status
      BY <1>1, <1>2, <1>3 DEF Fine
    <2>3. \/ profile.last = p.status
          \/ p.status = "IN_PROGRESS" /\ profile.last \in {"DRAFT", "CHANGES_REQUESTED"}
      BY <1>1, <1>2, <1>3 DEF Fine
    <2> QED  BY <1>1, <1>3, <1>4, <2>1, <2>2, <2>3, NoEntryIs, ResultIsFine
  <1>6. Locked(profile, p)
    BY <1>1 DEF Locked
  <1> QED  BY <1>1, <1>3, <1>5, <1>6, NoEntryIs, WorkKeeps DEF p, q

\* updateBank refuses once an application with a bank is submitted or approved.
LEMMA UpdateBankKeeps ==
    ASSUME OnboardingInv, Onb!OnboardingAssumption, NEW c \in Callers, Onb!UpdateBank(c)
    PROVE  OnboardingInv'
  <1> PICK b \in Accounts \cup {""} : Onb!Work(c, Onb!Finalized([profile EXCEPT !.bank = b]), Onb!NoEntry)
    BY DEF Onb!UpdateBank
  <1> DEFINE q == [profile EXCEPT !.bank = b]
             p == Onb!Finalized(q)
  <1>1. /\ profile \in ProfileRows /\ Fine(profile) /\ UNCHANGED profile /\ Onb!CanEditBank(profile)
    BY ProfileIs DEF Onb!UpdateBank
  <1>2. /\ q \in ProfileRows /\ q.status = profile.status /\ q.live = profile.live
        /\ q.filled = profile.filled /\ q.last = profile.last /\ q.note = profile.note
    BY <1>1 DEF ProfileRows
  <1> HIDE DEF q
  <1>3. /\ p \in ProfileRows /\ p.completion = Onb!Overall(p)
        /\ p.live = q.live /\ p.filled = q.filled
        /\ \/ p.status = q.status
           \/ q.status \in {"DRAFT", "CHANGES_REQUESTED"} /\ p.status = "IN_PROGRESS"
    <2>1. /\ p \in ProfileRows /\ p.completion = Onb!Overall(q)
          /\ p.live = q.live /\ p.filled = q.filled /\ p.bank = q.bank
          /\ \/ p.status = q.status
             \/ q.status \in {"DRAFT", "CHANGES_REQUESTED"} /\ p.status = "IN_PROGRESS"
      BY <1>2, FinalizedIs
    <2> HIDE DEF p
    <2>2. Onb!Overall(p) = Onb!Overall(q)
      BY <2>1, OverallIs
    <2> QED  BY <2>1, <2>2
  <1> HIDE DEF p
  <1>4. p.live <=> p.status = "APPROVED"
    BY <1>1, <1>2, <1>3 DEF Fine
  <1>5. p.live => Onb!GoLiveMissing(p) = {}
    BY <1>1, <1>2, <1>3 DEF Fine, Onb!GoLiveMissing
  <1>6. Fine(Result(profile, p, Onb!NoEntry))
    <2>1. p.status # "NONE" /\ (p.status \in {"REJECTED", "CHANGES_REQUESTED"} => profile.note = p.status)
      BY <1>1, <1>2, <1>3 DEF Fine
    <2>2. \/ profile.last = p.status
          \/ p.status = "IN_PROGRESS" /\ profile.last \in {"DRAFT", "CHANGES_REQUESTED"}
      BY <1>1, <1>2, <1>3 DEF Fine
    <2> QED  BY <1>1, <1>3, <1>4, <1>5, <2>1, <2>2, NoEntryIs, ResultIsFine
  <1>7. Locked(profile, p)
    BY <1>1 DEF Locked, Onb!CanEditBank, Onb!CanOrganizerEdit, Onb!PayoutReady
  <1> QED  BY <1>1, <1>3, <1>6, <1>7, NoEntryIs, WorkKeeps DEF p, q

\* Completing submits what has everything asked for.
LEMMA CompleteOnboardingKeeps ==
    ASSUME OnboardingInv, Onb!OnboardingAssumption, NEW c \in Callers, Onb!CompleteOnboarding(c)
    PROVE  OnboardingInv'
  <1> DEFINE p == [profile EXCEPT !.status = "SUBMITTED"]
             e == [Onb!NoEntry EXCEPT !.to = "SUBMITTED"]
  <1>1. /\ profile \in ProfileRows /\ Fine(profile) /\ UNCHANGED profile
        /\ profile.status \in {"DRAFT", "IN_PROGRESS", "CHANGES_REQUESTED"}
        /\ Onb!Work(c, p, e)
    BY ProfileIs DEF Onb!CompleteOnboarding, Onb!CanOrganizerEdit
  <1>2. /\ p \in ProfileRows /\ p.status = "SUBMITTED" /\ p.live = profile.live
        /\ p.filled = profile.filled /\ p.bank = profile.bank /\ p.completion = profile.completion
    BY <1>1 DEF ProfileRows, Standings
  <1>3. e \in Entries /\ e.to = "SUBMITTED" /\ e.note = ""
    BY EntryIs DEF Standings
  <1> HIDE DEF p, e
  <1>4. ~p.live /\ p.completion = Onb!Overall(p)
    BY <1>1, <1>2, OverallIs DEF Fine
  <1>5. Fine(Result(profile, p, e)) /\ Locked(profile, p)
    BY <1>1, <1>2, <1>3, <1>4, ResultIsFine DEF Locked
  <1> QED  BY <1>1, <1>2, <1>3, <1>5, WorkKeeps

\* An administrator edits what is not approved.
LEMMA AdminEditsKeep ==
    ASSUME OnboardingInv, Onb!OnboardingAssumption, NEW c \in Callers, Onb!AdminEdits(c)
    PROVE  OnboardingInv'
  <1> PICK f \in Fields : Onb!Work(c, Onb!Recomputed(Onb!Toggled(profile, f)),
                                  [Onb!NoEntry EXCEPT !.to = profile.status])
    BY DEF Onb!AdminEdits
  <1> DEFINE q == Onb!Toggled(profile, f)
             p == Onb!Recomputed(q)
             e == [Onb!NoEntry EXCEPT !.to = profile.status]
  <1>1. /\ profile \in ProfileRows /\ Fine(profile) /\ UNCHANGED profile
        /\ profile.status \in {"DRAFT", "IN_PROGRESS", "CHANGES_REQUESTED", "SUBMITTED"}
    BY ProfileIs DEF Onb!AdminEdits, Onb!CanAdminEdit, Onb!CanOrganizerEdit
  <1>2. /\ q \in ProfileRows /\ q.status = profile.status /\ q.live = profile.live
        /\ q.bank = profile.bank
    BY <1>1, ToggledIs DEF Onb!GoLiveRequired
  <1> HIDE DEF q
  <1>3. /\ p \in ProfileRows /\ p.completion = Onb!Overall(p)
        /\ p.live = q.live /\ p.bank = q.bank /\ p.status = q.status
    BY <1>2, RecomputedIs, OverallIs
  <1>4. e \in Entries /\ e.to = profile.status /\ e.note = ""
    BY <1>1, EntryIs DEF ProfileRows
  <1> HIDE DEF p, e
  <1>5. ~p.live /\ p.status # "NONE"
          /\ (p.status \in {"REJECTED", "CHANGES_REQUESTED"} => profile.note = p.status)
    BY <1>1, <1>2, <1>3 DEF Fine
  <1>6. Fine(Result(profile, p, e)) /\ Locked(profile, p)
    BY <1>1, <1>2, <1>3, <1>4, <1>5, ResultIsFine DEF Locked
  <1> QED  BY <1>1, <1>3, <1>4, <1>6, WorkKeeps DEF p, q, e

\* A verdict writes status, listing and note together.
LEMMA TransitionKeeps ==
    ASSUME OnboardingInv, Onb!OnboardingAssumption, NEW c \in Callers, profile # Onb!Nobody,
           NEW to \in {"DRAFT", "APPROVED", "REJECTED", "CHANGES_REQUESTED"}, NEW live \in BOOLEAN,
           NEW note \in Notes, Onb!Transition(c, to, live, note), live <=> to = "APPROVED",
           live => Onb!GoLiveMissing(profile) = {},
           to \in {"REJECTED", "CHANGES_REQUESTED"} => note = to
    PROVE  OnboardingInv'
  <1> DEFINE p == [profile EXCEPT !.status = to, !.live = live]
             e == [to |-> to, note |-> note]
  <1>1. profile \in ProfileRows /\ Fine(profile) /\ UNCHANGED profile /\ Onb!Work(c, p, e)
    BY ProfileIs DEF Onb!Transition
  <1>2. /\ p \in ProfileRows /\ p.status = to /\ p.live = live
        /\ p.filled = profile.filled /\ p.bank = profile.bank /\ p.completion = profile.completion
    BY <1>1 DEF ProfileRows, Standings
  <1>3. e \in Entries /\ e.to = to /\ e.note = note
    BY DEF Entries, Standings
  <1> HIDE DEF p, e
  <1>4. p.completion = Onb!Overall(p) /\ Onb!GoLiveMissing(p) = Onb!GoLiveMissing(profile)
    BY <1>1, <1>2, OverallIs DEF Fine, Onb!GoLiveMissing
  <1>5. Fine(Result(profile, p, e)) /\ Locked(profile, p)
    BY <1>1, <1>2, <1>3, <1>4, ResultIsFine DEF Locked
  <1> QED  BY <1>1, <1>2, <1>3, <1>5, WorkKeeps

\* Approving, rejecting and asking for changes.
LEMMA VerdictsKeep ==
    ASSUME OnboardingInv, Onb!OnboardingAssumption, NEW c \in Callers,
           Onb!Approve(c) \/ Onb!Reject(c) \/ Onb!RequestChanges(c)
    PROVE  OnboardingInv'
  <1>1. profile \in ProfileRows /\ profile # Onb!Nobody /\ Fine(profile)
    BY ProfileIs DEF Onb!Approve, Onb!Reject, Onb!RequestChanges
  <1>2. CASE Onb!Approve(c) /\ profile.status \in {"PENDING_REVIEW", "REJECTED"}
    <2>1. Onb!Transition(c, "DRAFT", profile.live, "") /\ profile.live = FALSE
      BY <1>1, <1>2 DEF Onb!Approve, Fine, ProfileRows
    <2> QED  BY <1>1, <2>1, TransitionKeeps DEF Notes
  <1>3. CASE Onb!Approve(c) /\ profile.status \notin {"PENDING_REVIEW", "REJECTED"}
    BY <1>1, <1>3, TransitionKeeps DEF Onb!Approve, Notes
  <1>4. CASE Onb!Reject(c)
    BY <1>1, <1>4, TransitionKeeps DEF Onb!Reject, Notes
  <1>5. CASE Onb!RequestChanges(c)
    BY <1>1, <1>5, TransitionKeeps DEF Onb!RequestChanges, Notes
  <1> QED  BY <1>2, <1>3, <1>4, <1>5

\* What registering filled in, in progress when there is something.
LEMMA OpenedIs ==
    ASSUME Onb!OnboardingAssumption, NEW p \in ProfileRows, NEW F \in SUBSET Fields,
           p.status \in {"DRAFT", "IN_PROGRESS", "CHANGES_REQUESTED"}
    PROVE  LET q == Onb!Opened(p, F)
           IN  /\ q \in ProfileRows /\ q.completion = Onb!Overall(q) /\ q.live = p.live
               /\ q.status = p.status \/ (p.status = "DRAFT" /\ q.status = "IN_PROGRESS")
  <1> DEFINE r == [p EXCEPT !.filled = @ \cup F]
             s == Onb!Recomputed(r)
             n == IF Onb!Overall(s) > 0 /\ s.status = "DRAFT" THEN "IN_PROGRESS" ELSE s.status
  <1>1. /\ r \in ProfileRows /\ r.status = p.status /\ r.live = p.live
    BY DEF ProfileRows, Onb!GoLiveRequired
  <1>2. Onb!Opened(p, F) = [s EXCEPT !.status = n]
    BY DEF Onb!Opened, Onb!CanOrganizerEdit
  <1> HIDE DEF r
  <1>3. /\ s \in ProfileRows /\ s.completion = Onb!Overall(s) /\ s.status = p.status /\ s.live = p.live
    BY <1>1, RecomputedIs, OverallIs
  <1> HIDE DEF s
  <1>4. n \in Standings /\ (n = p.status \/ (p.status = "DRAFT" /\ n = "IN_PROGRESS"))
    BY <1>3 DEF ProfileRows, Standings
  <1> HIDE DEF n
  <1> DEFINE q == [s EXCEPT !.status = n]
  <1>5. /\ q \in ProfileRows /\ q.status = n /\ q.live = s.live /\ q.filled = s.filled
        /\ q.bank = s.bank /\ q.completion = s.completion
    BY <1>3, <1>4 DEF ProfileRows
  <1> HIDE DEF q
  <1>6. q.completion = Onb!Overall(q)
    BY <1>3, <1>5, OverallIs
  <1>7. Onb!Opened(p, F) = q
    BY <1>2 DEF q
  <1> QED  BY <1>3, <1>4, <1>5, <1>6, <1>7

\* Registering makes the profile, reopens one from before, or fills it.
LEMMA FillKeeps ==
    ASSUME OnboardingInv, Onb!OnboardingAssumption, NEW c \in Callers, Onb!FillProfile(c)
    PROVE  OnboardingInv'
  <1>0. profile \in ProfileRows /\ UNCHANGED profile
    BY ProfileIs DEF Onb!FillProfile
  <1>1. PICK F \in SUBSET Fields :
         CASE profile = Onb!Nobody ->
                Onb!Work(c, Onb!Opened([Onb!Nobody EXCEPT !.status = "DRAFT"], F),
                         [Onb!NoEntry EXCEPT !.to = "DRAFT"])
           [] profile.status = "PENDING_REVIEW" ->
                Onb!Work(c, Onb!Opened([profile EXCEPT !.status = "DRAFT"], F),
                         [Onb!NoEntry EXCEPT !.to = "DRAFT"])
           [] OTHER -> Onb!Work(c, Onb!Opened(profile, F), Onb!NoEntry)
    BY DEF Onb!FillProfile
  <1> DEFINE q == [profile EXCEPT !.status = "DRAFT"]
             e == [Onb!NoEntry EXCEPT !.to = "DRAFT"]
  <1>2. q \in ProfileRows /\ q.status = "DRAFT" /\ q.live = profile.live
    BY <1>0 DEF ProfileRows, Standings
  <1>3. e \in Entries /\ e.to = "DRAFT" /\ e.note = ""
    BY EntryIs DEF Standings
  <1>4. CASE profile = Onb!Nobody \/ profile.status = "PENDING_REVIEW"
    <2> DEFINE p == Onb!Opened(q, F)
    <2>1. Onb!Work(c, p, e)
      BY <1>1, <1>4, NobodyIs
    <2>2. profile.live = FALSE /\ profile.status \notin {"SUBMITTED", "APPROVED"}
      <3>1. CASE profile = Onb!Nobody
        BY <3>1 DEF Onb!Nobody
      <3>2. CASE profile # Onb!Nobody
        BY <1>0, <1>4, <3>2, ProfileIs DEF Fine, ProfileRows
      <3> QED  BY <3>1, <3>2
    <2> HIDE DEF q, e
    <2>3. /\ p \in ProfileRows /\ p.completion = Onb!Overall(p) /\ p.live = FALSE
          /\ p.status \in {"DRAFT", "IN_PROGRESS"}
      BY <1>2, <2>2, OpenedIs
    <2> HIDE DEF p
    <2>4. Fine(Result(profile, p, e)) /\ Locked(profile, p)
      BY <1>0, <1>3, <2>2, <2>3, ResultIsFine DEF Locked
    <2> QED  BY <1>0, <1>3, <2>1, <2>3, <2>4, WorkKeeps
  <1>5. CASE profile # Onb!Nobody /\ profile.status # "PENDING_REVIEW"
    <2>1. Onb!Work(c, Onb!Opened(profile, F), Onb!NoEntry)
      BY <1>1, <1>5
    <2>2. Fine(profile)
      BY <1>5, ProfileIs
    <2>3. CASE Onb!CanOrganizerEdit(profile)
      <3> DEFINE p == Onb!Opened(profile, F)
      <3>1. profile.status \in {"DRAFT", "IN_PROGRESS", "CHANGES_REQUESTED"} /\ ~profile.live
        BY <2>2, <2>3 DEF Onb!CanOrganizerEdit, Fine
      <3>2. /\ p \in ProfileRows /\ p.completion = Onb!Overall(p) /\ p.live = profile.live
            /\ p.status = profile.status \/ (profile.status = "DRAFT" /\ p.status = "IN_PROGRESS")
        BY <1>0, <3>1, OpenedIs
      <3> HIDE DEF p
      <3>3. /\ p.status # "NONE" /\ p.status # "APPROVED" /\ ~p.live
            /\ (p.status \in {"REJECTED", "CHANGES_REQUESTED"} => profile.note = p.status)
            /\ \/ profile.last = p.status
               \/ p.status = "IN_PROGRESS" /\ profile.last \in {"DRAFT", "CHANGES_REQUESTED"}
        BY <2>2, <3>1, <3>2 DEF Fine
      <3>4. Fine(Result(profile, p, Onb!NoEntry)) /\ Locked(profile, p)
        BY <1>0, <3>1, <3>2, <3>3, NoEntryIs, ResultIsFine DEF Locked
      <3> QED  BY <1>0, <2>1, <3>2, <3>4, NoEntryIs, WorkKeeps DEF p
    <2>4. CASE ~Onb!CanOrganizerEdit(profile)
      <3>1. Onb!Work(c, profile, Onb!NoEntry)
        BY <2>1, <2>4 DEF Onb!Opened
      <3>2. /\ profile.status # "NONE" /\ profile.completion = Onb!Overall(profile)
            /\ (profile.live <=> profile.status = "APPROVED")
            /\ (profile.live => Onb!GoLiveMissing(profile) = {})
            /\ (profile.status \in {"REJECTED", "CHANGES_REQUESTED"} => profile.note = profile.status)
            /\ \/ profile.last = profile.status
               \/ profile.status = "IN_PROGRESS" /\ profile.last \in {"DRAFT", "CHANGES_REQUESTED"}
        BY <2>2 DEF Fine
      <3>3. Fine(Result(profile, profile, Onb!NoEntry)) /\ Locked(profile, profile)
        BY <1>0, <3>2, NoEntryIs, ResultIsFine DEF Locked
      <3> QED  BY <1>0, <3>1, <3>3, NoEntryIs, WorkKeeps
    <2> QED  BY <2>3, <2>4
  <1> QED  BY <1>4, <1>5

\* Where handlers do not overlap, the row that is saved over is the row that was read.
LEMMA SavedIs ==
    ASSUME OnboardingInv, NEW c \in Callers, Onb!Save(c)
    PROVE  profile' = Result(profile, caller[c].copy, caller[c].entry)
  <1> DEFINE t == caller[c]
  <1>1. /\ t \in Applications /\ t.was = profile /\ profile \in ProfileRows
    BY DEF OnboardingInv, Onb!Save
  <1>2. profile' = Onb!Saved(c)
    BY <1>1 DEF Onb!Save
  <1>3. Onb!Toggles(c) = t.copy.filled
    BY <1>1 DEF Onb!Toggles, Applications, ProfileRows
  <1>4. \A p \in {"status", "live", "bank", "completion"} : Onb!Path(c, p) = t.copy[p]
    BY <1>1 DEF Onb!Path
  <1> QED  BY <1>2, <1>3, <1>4 DEF Onb!Saved, Result

\* The save.
LEMMA SaveProfileKeeps ==
    ASSUME OnboardingInv, Onb!Alone, NEW c \in Callers, Onb!Save(c)
    PROVE  OnboardingInv'
  <1>1. profile' = Result(profile, caller[c].copy, caller[c].entry) /\ Fine(profile')
    BY SavedIs DEF OnboardingInv, Onb!Save
  <1>2. profile' \in ProfileRows
    <2>1. /\ caller[c].copy \in ProfileRows /\ caller[c].entry \in Entries /\ profile \in ProfileRows
      BY DEF OnboardingInv, Applications
    <2> QED  BY <1>1, <2>1 DEF Result, ProfileRows, Entries
  <1>3. caller' \in [Callers -> Applications] /\ \A d \in Callers : caller'[d].at = "idle"
    BY NobodyIs DEF OnboardingInv, Onb!Save, Onb!Goto, Onb!Alone
  <1> QED  BY <1>1, <1>2, <1>3 DEF OnboardingInv

\* Every step keeps the invariant.
LEMMA OnboardingStep ==
    ASSUME OnboardingInv, Onb!OnboardingAssumption, Onb!Alone, [Onb!Next]_(Onb!onboardingVars)
    PROVE  OnboardingInv'
  <1>1. CASE UNCHANGED Onb!onboardingVars
    BY <1>1 DEF Onb!onboardingVars, OnboardingInv
  <1>2. ASSUME NEW c \in Callers, Onb!Register(c) \/ Onb!Crash(c)
        PROVE  OnboardingInv'
    <2>1. \E t \in Applications : caller' = [caller EXCEPT ![c] = t] /\ t.at # "save"
      BY <1>2, NobodyIs DEF Onb!Register, Onb!Crash, Onb!Goto, Applications
    <2>2. UNCHANGED profile
      BY <1>2 DEF Onb!Register, Onb!Crash
    <2> QED  BY <2>1, <2>2 DEF OnboardingInv
  <1>3. CASE Onb!Next
    BY <1>2, <1>3, FillKeeps, OrganizerEditsKeep, UpdateBankKeeps, CompleteOnboardingKeeps, VerdictsKeep,
       AdminEditsKeep, SaveProfileKeeps DEF Onb!Next
  <1> QED  BY <1>1, <1>3

\* The invariant holds where handlers do not overlap.
LEMMA OnboardingInvHolds ==
    ASSUME Onb!OnboardingAssumption, Onb!Alone PROVE Onb!Spec => []OnboardingInv
  <1>1. Onb!Init => OnboardingInv
    BY OnboardingInit
  <1>2. OnboardingInv /\ [Onb!Next]_(Onb!onboardingVars) => OnboardingInv'
    BY OnboardingStep
  <1> QED  BY <1>1, <1>2, PTL DEF Onb!Spec

\* Where handlers do not overlap, whoever is listed was approved with everything asked
\* for, and status, note, trail and completion tell the organizer and the administrator
\* the same (transition, finalize).
THEOREM VerdictsStandFirm ==
    ASSUME Onb!OnboardingAssumption
    PROVE  Onb!Spec => []Onb!VerdictsStand
  <1>1. CASE Onb!Alone
    <2>1. OnboardingInv => Onb!VerdictsStand
      <3> SUFFICES ASSUME OnboardingInv PROVE Onb!ListedIsApproved /\ Onb!TrailTellsTheStatus
        BY DEF Onb!VerdictsStand
      <3>1. Onb!ListedIsApproved
        <4>1. CASE profile = Onb!Nobody
          BY <4>1 DEF Onb!ListedIsApproved, Onb!FindPublic, Onb!Verified, Onb!Nobody
        <4>2. CASE profile # Onb!Nobody
          BY <4>2, ProfileIs DEF Fine, Onb!ListedIsApproved, Onb!FindPublic, Onb!Verified
        <4> QED  BY <4>1, <4>2
      <3>2. Onb!TrailTellsTheStatus
        <4> SUFFICES ASSUME profile # Onb!Nobody PROVE Onb!TrailTellsTheStatus
          BY DEF Onb!TrailTellsTheStatus
        <4>1. Fine(profile)
          BY ProfileIs
        <4>2. Onb!OnboardingStatus.canSubmit => Onb!CanTransition(profile.status, "SUBMITTED")
          <5>1. Onb!OnboardingStatus.canSubmit => Onb!CanOrganizerEdit(profile)
            BY DEF Onb!OnboardingStatus
          <5>2. \A s \in {"DRAFT", "IN_PROGRESS", "CHANGES_REQUESTED"} : "SUBMITTED" \in Onb!Allowed[s]
            BY DEF Onb!Allowed
          <5> QED  BY <5>1, <5>2 DEF Onb!CanOrganizerEdit, Onb!CanTransition
        <4>3. Onb!OrganizerView.note = Onb!OutstandingNote(profile)
          BY DEF Onb!OrganizerView
        <4>4. Onb!AdminRow.completion = Onb!Overall(profile)
          BY <4>1 DEF Onb!AdminRow, Fine
        <4>5. profile.status \in {"REJECTED", "CHANGES_REQUESTED"} => Onb!OrganizerView.note = profile.status
          BY <4>1, <4>3 DEF Fine, Onb!OutstandingNote
        <4>6. \/ profile.last = profile.status
              \/ profile.status = "IN_PROGRESS" /\ profile.last \in {"DRAFT", "CHANGES_REQUESTED"}
          BY <4>1 DEF Fine
        <4> QED  BY <4>2, <4>4, <4>5, <4>6 DEF Onb!TrailTellsTheStatus
      <3> QED  BY <3>1, <3>2
    <2> QED  BY <1>1, <2>1, OnboardingInvHolds, PTL
  <1>2. CASE ~Onb!Alone
    <2>1. Onb!VerdictsStand
      BY <1>2 DEF Onb!VerdictsStand
    <2> QED  BY <2>1, PTL
  <1> QED  BY <1>1, <1>2

\* Where handlers do not overlap, the bank account of an application under review or
\* approved is the one that was reviewed (updateBank).
THEOREM BankStaysLocked ==
    ASSUME Onb!OnboardingAssumption, Onb!Alone
    PROVE  Onb!Spec => Onb!BankIsLocked
  <1>1. OnboardingInv /\ [Onb!Next]_(Onb!onboardingVars) => [Onb!BankStays]_(Onb!onboardingVars)
    <2> SUFFICES ASSUME OnboardingInv, Onb!Next PROVE Onb!BankStays
      BY DEF Onb!BankStays
    <2>1. CASE profile' = profile
      BY <2>1 DEF Onb!BankStays
    <2>2. CASE profile' # profile
      <3>1. PICK c \in Callers : Onb!Save(c)
        BY <2>2 DEF Onb!Next, Onb!Register, Onb!FillProfile, Onb!OrganizerEdits, Onb!UpdateBank,
                    Onb!CompleteOnboarding, Onb!Approve, Onb!Reject, Onb!RequestChanges, Onb!AdminEdits,
                    Onb!Transition, Onb!Crash
      <3>2. Locked(profile, caller[c].copy)
        BY <3>1 DEF OnboardingInv, Onb!Save
      <3>3. profile' = Result(profile, caller[c].copy, caller[c].entry)
        BY <3>1, SavedIs
      <3>4. profile'.bank = caller[c].copy.bank
        BY <3>3 DEF Result
      <3> QED  BY <3>2, <3>4 DEF Onb!BankStays, Onb!OrganizerView, Onb!PayoutReady, Locked
    <2> QED  BY <2>1, <2>2
  <1> QED  BY <1>1, OnboardingInvHolds, PTL DEF Onb!Spec, Onb!BankIsLocked

-----------------------------------------------------------------------------
(* Files and their deletion (AssetLifecycle).                               *)

\* Where a worker is, what a row says, the number of a search; and a worker.
WorkerLabels   == {"idle", "record", "release", "before", "claim", "after", "destroy", "gone", "failed"}
AssetStatuses == {"NONE", "ACTIVE", "DELETING", "DELETE_FAILED", "DELETED"}
Searches  == Nat \ {0}

WorkerRows == [at : WorkerLabels, file : Files \cup {"none"}, retry : BOOLEAN, next : Searches,
          steady : SUBSET Store!PlaceSet]

\* Types of the files, their rows, what refers to them, and the workers.
AssetTyped ==
    /\ stored \subseteq Files
    /\ asset \in [Files -> [status : AssetStatuses, attempts : Nat]]
    /\ refers \in [Store!PlaceSet -> Files \cup {"none"}]
    /\ worker \in [Workers -> WorkerRows]
    /\ \A w \in Workers : ~Store!At(w, "idle") => Store!File(w) \in Files

\* What a worker at t knows of the file it has claimed, search by search.
KnowsFile(t, held) ==
    /\ t.at = "claim" => t.next = 1
    /\ t.at = "after" => /\ \A p \in t.steady : held[p] = t.file
                         /\ \A i \in DOMAIN Places : i < t.next => Places[i] \notin t.steady
    /\ t.at = "destroy" => t.steady = {}

Watched == \A w \in Workers : KnowsFile(worker[w], refers)

\* Only tracked files are deleted, and "gone" is not said of a stored one.
Handles(t, rows, files) ==
    /\ t.at \in {"after", "destroy", "gone", "failed"} => rows[t.file].status # "NONE"
    /\ t.at = "gone" => t.file \notin files

Handled == \A w \in Workers : Handles(worker[w], asset, stored)

\* The inductive invariant of the files.
AssetInv == AssetTyped /\ Watched /\ Handled /\ Store!DeletedIsGone

(* Every step keeps the types.                                             *)

\* Nothing stored is of its type.
LEMMA AssetsInitTyped == Store!Init => AssetTyped
<1> SUFFICES ASSUME Store!Init PROVE AssetTyped
  OBVIOUS
<1>1. Store!Rested \in WorkerRows
  BY DEF Store!Rested, WorkerRows, WorkerLabels, Searches
<1> QED BY <1>1 DEF Store!Init, AssetTyped, AssetStatuses, Store!Rested, Store!NoRow, Store!At

RowTyped    == asset \in [Files -> [status : AssetStatuses, attempts : Nat]]
RefersTyped == refers \in [Store!PlaceSet -> Files \cup {"none"}]

\* What a worker may go to.
FitFor(t) == t \in WorkerRows /\ (t.at # "idle" => t.file \in Files)

\* A worker at rest.
LEMMA RestFitsWorker == FitFor(Store!Rested)
  BY DEF FitFor, Store!Rested, WorkerRows, WorkerLabels, Searches

\* A worker that goes to a fitting place leaves everything typed.
LEMMA OneMoves ==
  ASSUME AssetTyped, NEW w \in Workers, NEW t, FitFor(t), Store!Goto(w, t),
         stored' \subseteq Files, RowTyped', RefersTyped'
  PROVE  AssetTyped'
<1>1. worker' \in [Workers -> WorkerRows]
  BY DEF AssetTyped, FitFor, Store!Goto
<1>2. \A v \in Workers : ~Store!At(v, "idle")' => Store!File(v)' \in Files
  <2> SUFFICES ASSUME NEW v \in Workers, ~Store!At(v, "idle")' PROVE Store!File(v)' \in Files
    OBVIOUS
  <2>1. CASE v = w
    BY <2>1 DEF AssetTyped, FitFor, Store!Goto, Store!At, Store!File
  <2>2. CASE v # w
    BY <2>2 DEF AssetTyped, Store!Goto, Store!At, Store!File
  <2> QED BY <2>1, <2>2
<1> QED BY <1>1, <1>2 DEF AssetTyped, RowTyped, RefersTyped

\* A worker that ends leaves everything typed,
LEMMA RestTyped ==
  ASSUME AssetTyped, NEW w \in Workers, Store!Rest(w), stored' \subseteq Files, RowTyped', RefersTyped'
  PROVE  AssetTyped'
  BY OneMoves, RestFitsWorker DEF Store!Rest

\* and so does a row that is marked.
LEMMA MarkTyped ==
  ASSUME RowTyped, NEW f \in Files, NEW s \in AssetStatuses, Store!Mark(f, s)
  PROVE  RowTyped'
  BY DEF RowTyped, Store!Mark

\* A worker at work on a file, moved on.
LEMMA WorkFits ==
  ASSUME AssetTyped, NEW w \in Workers, ~Store!At(w, "idle")
  PROVE  /\ Store!File(w) \in Files /\ worker[w] \in WorkerRows /\ FitFor(worker[w])
         /\ \A l \in WorkerLabels : FitFor([worker[w] EXCEPT !.at = l])
         /\ \A l \in WorkerLabels : FitFor([worker[w] EXCEPT !.at = l, !.next = 1])
         /\ \A l \in WorkerLabels, S \in SUBSET Store!PlaceSet : FitFor([worker[w] EXCEPT !.at = l, !.steady = S])
         /\ FitFor([worker[w] EXCEPT !.next = @ + 1])
<1>1. worker[w] \in WorkerRows /\ worker[w].file \in Files
  BY DEF AssetTyped, Store!At, Store!File
<1>2. \A l \in WorkerLabels : FitFor([worker[w] EXCEPT !.at = l])
  BY <1>1 DEF FitFor, WorkerRows
<1>3. \A l \in WorkerLabels : FitFor([worker[w] EXCEPT !.at = l, !.next = 1])
  <2> TAKE l \in WorkerLabels
  <2>1. 1 \in Searches
    BY DEF Searches
  <2>2. [worker[w] EXCEPT !.at = l, !.next = 1] \in WorkerRows
    BY <1>1, <2>1 DEF WorkerRows
  <2>3. [worker[w] EXCEPT !.at = l, !.next = 1].file = worker[w].file
    BY <1>1 DEF WorkerRows
  <2> QED BY <1>1, <2>2, <2>3 DEF FitFor
<1>4. \A l \in WorkerLabels, S \in SUBSET Store!PlaceSet : FitFor([worker[w] EXCEPT !.at = l, !.steady = S])
  BY <1>1 DEF FitFor, WorkerRows
<1>5. FitFor([worker[w] EXCEPT !.next = @ + 1])
  BY <1>1 DEF FitFor, WorkerRows, Searches
<1>6. Store!File(w) \in Files /\ FitFor(worker[w])
  BY <1>1 DEF FitFor, Store!File
<1> QED BY <1>1, <1>2, <1>3, <1>4, <1>5, <1>6

\* A worker that starts on a file.
LEMMA StartFits ==
  ASSUME NEW f \in Files, NEW l \in WorkerLabels
  PROVE  /\ FitFor([Store!Rested EXCEPT !.at = l, !.file = f])
         /\ FitFor([Store!Rested EXCEPT !.at = l, !.file = f, !.retry = TRUE])
<1>1. Store!Rested \in WorkerRows
  BY DEF Store!Rested, WorkerRows, Searches, WorkerLabels
<1>2. FitFor([Store!Rested EXCEPT !.at = l, !.file = f])
  BY <1>1 DEF FitFor, WorkerRows
<1>3. FitFor([Store!Rested EXCEPT !.at = l, !.file = f, !.retry = TRUE])
  BY <1>1 DEF FitFor, WorkerRows
<1> QED BY <1>2, <1>3

\* A search goes on or ends.
LEMMA LookTyped ==
  ASSUME AssetTyped, NEW w \in Workers, UNCHANGED <<stored, refers>>, Store!LookBefore(w) \/ Store!LookAfter(w)
  PROVE  AssetTyped'
<1>1. /\ stored' \subseteq Files /\ RefersTyped' /\ RowTyped /\ ~Store!At(w, "idle")
  BY DEF AssetTyped, RefersTyped, RowTyped, Store!LookBefore, Store!LookAfter, Store!At
<1>2. ASSUME NEW b \in BOOLEAN, Store!Keep(w, b)
      PROVE  AssetTyped'
  <2>1. RowTyped'
    BY <1>1, <1>2, WorkFits, MarkTyped DEF Store!Keep, AssetStatuses, RowTyped
  <2> QED BY <1>1, <1>2, <2>1, RestTyped DEF Store!Keep
<1>3. ASSUME NEW t, FitFor(t), Store!Goto(w, t), UNCHANGED asset
      PROVE  AssetTyped'
  <2>1. RowTyped'
    BY <1>1, <1>3 DEF RowTyped
  <2> QED BY <1>1, <1>3, <2>1, OneMoves
<1>4. worker[w].retry \in BOOLEAN
  BY DEF AssetTyped, WorkerRows
<1>5. CASE Store!LookBefore(w)
  <2>1. \/ Store!Keep(w, worker[w].retry)
        \/ Store!Goto(w, [worker[w] EXCEPT !.next = @ + 1]) /\ UNCHANGED asset
        \/ Store!Goto(w, [worker[w] EXCEPT !.at = "claim", !.next = 1]) /\ UNCHANGED asset
    BY <1>5 DEF Store!LookBefore, Store!Looked
  <2>2. FitFor([worker[w] EXCEPT !.next = @ + 1]) /\ FitFor([worker[w] EXCEPT !.at = "claim", !.next = 1])
    BY <1>1, WorkFits DEF WorkerLabels
  <2> QED BY <2>1, <2>2, <1>2, <1>3, <1>4
<1>6. CASE Store!LookAfter(w)
  <2>1. \/ Store!Keep(w, TRUE)
        \/ Store!Goto(w, [worker[w] EXCEPT !.next = @ + 1]) /\ UNCHANGED asset
        \/ Store!Goto(w, [worker[w] EXCEPT !.at = "destroy"]) /\ UNCHANGED asset
    BY <1>6 DEF Store!LookAfter, Store!Looked
  <2>2. FitFor([worker[w] EXCEPT !.next = @ + 1]) /\ FitFor([worker[w] EXCEPT !.at = "destroy"])
    BY <1>1, WorkFits DEF WorkerLabels
  <2> QED BY <2>1, <2>2, <1>2, <1>3
<1> QED BY <1>5, <1>6

\* A save records the file, or points a collection elsewhere.
LEMMA SaveTyped ==
  ASSUME AssetTyped, NEW w \in Workers, NEW p \in Store!PlaceSet, Store!SaveRecord(w, p)
  PROVE  AssetTyped'
<1> PICK f \in stored \cup {"none"} :
       /\ refers' = [refers EXCEPT ![p] = f]
       /\ worker' = [v \in Workers |->
            IF v = w THEN IF refers[p] = "none" THEN Store!Rested
                          ELSE [Store!Rested EXCEPT !.at = "release", !.file = refers[p]]
                     ELSE [worker[v] EXCEPT !.steady = @ \ {p}]]
  BY DEF Store!SaveRecord
<1>1. stored' = stored /\ asset' = asset /\ refers' \in [Store!PlaceSet -> Files \cup {"none"}]
  BY DEF Store!SaveRecord, AssetTyped
<1>2. \A v \in Workers : FitFor(worker'[v])
  <2> SUFFICES ASSUME NEW v \in Workers PROVE FitFor(worker'[v])
    OBVIOUS
  <2>1. CASE v = w /\ refers[p] = "none"
    BY <2>1, RestFitsWorker
  <2>2. CASE v = w /\ refers[p] # "none"
    <3>1. refers[p] \in Files /\ "release" \in WorkerLabels
      BY <2>2 DEF AssetTyped, WorkerLabels
    <3> QED BY <2>2, <3>1, StartFits
  <2>3. CASE v # w
    <3>1. worker'[v] = [worker[v] EXCEPT !.steady = @ \ {p}] /\ worker[v] \in WorkerRows
      BY <2>3 DEF AssetTyped
    <3>2. worker[v].at # "idle" => worker[v].file \in Files
      BY DEF AssetTyped, Store!At, Store!File
    <3> QED BY <3>1, <3>2 DEF FitFor, WorkerRows
  <2> QED BY <2>1, <2>2, <2>3
<1>3. worker' \in [Workers -> WorkerRows]
  BY <1>2 DEF FitFor
<1> QED BY <1>1, <1>2, <1>3 DEF AssetTyped, FitFor, Store!At, Store!File

\* Every step keeps the types.
LEMMA StepTyped ==
  ASSUME Store!AssetAssumption, AssetTyped, [Store!Next]_(Store!assetVars)
  PROVE  AssetTyped'
<1>0. stored \subseteq Files /\ RowTyped /\ RefersTyped
  BY DEF AssetTyped, RowTyped, RefersTyped
<1>a. UNCHANGED stored => stored' \subseteq Files
  BY <1>0
<1>b. UNCHANGED asset => RowTyped'
  BY <1>0 DEF RowTyped
<1>c. UNCHANGED refers => RefersTyped'
  BY <1>0 DEF RefersTyped
<1>1. CASE UNCHANGED Store!assetVars
  BY <1>1 DEF Store!assetVars, AssetTyped, Store!At, Store!File
<1>2. ASSUME NEW w \in Workers, Store!Upload(w)
      PROVE  AssetTyped'
  <2> PICK f \in {g \in Files \ stored : asset[g] = Store!NoRow} :
        stored' = stored \cup {f} /\ Store!Goto(w, [Store!Rested EXCEPT !.at = "record", !.file = f])
    BY <1>2 DEF Store!Upload
  <2>1. FitFor([Store!Rested EXCEPT !.at = "record", !.file = f])
    BY StartFits DEF WorkerLabels
  <2>2. stored' \subseteq Files /\ RowTyped' /\ RefersTyped'
    BY <1>2, <1>0, <1>b, <1>c DEF Store!Upload
  <2> QED BY <2>1, <2>2, OneMoves
<1>3. ASSUME NEW w \in Workers, Store!Record(w)
      PROVE  AssetTyped'
  <2>1. Store!File(w) \in Files
    BY <1>3, WorkFits DEF Store!Record, Store!At
  <2>2. RowTyped'
    BY <1>3, <2>1, <1>0, <1>b, MarkTyped DEF Store!Record, AssetStatuses
  <2> QED BY <1>3, <2>2, <1>a, <1>c, RestTyped DEF Store!Record
<1>4. ASSUME NEW w \in Workers, NEW p \in Store!PlaceSet, Store!SaveRecord(w, p)
      PROVE  AssetTyped'
  BY <1>4, SaveTyped
<1>5. ASSUME NEW w \in Workers, Store!ReleaseOne(w)
      PROVE  AssetTyped'
  <2>1. FitFor([worker[w] EXCEPT !.at = "before"])
    BY <1>5, WorkFits DEF Store!ReleaseOne, Store!At, WorkerLabels
  <2>2. Store!Rest(w) \/ Store!Goto(w, [worker[w] EXCEPT !.at = "before"])
    BY <1>5 DEF Store!ReleaseOne
  <2>3. stored' \subseteq Files /\ RowTyped' /\ RefersTyped'
    BY <1>5, <1>a, <1>b, <1>c DEF Store!ReleaseOne
  <2> QED BY <2>1, <2>2, <2>3, OneMoves, RestTyped
<1>6. ASSUME NEW w \in Workers, Store!CleanUp(w)
      PROVE  AssetTyped'
  <2>1. stored' \subseteq Files /\ RowTyped' /\ RefersTyped'
    BY <1>6, <1>a, <1>b, <1>c DEF Store!CleanUp, Store!RetryFailed, Store!DeleteOrphan
  <2>2. \E t : FitFor(t) /\ Store!Goto(w, t)
    BY <1>6, StartFits DEF Store!CleanUp, Store!RetryFailed, Store!DeleteOrphan, WorkerLabels
  <2> QED BY <2>1, <2>2, OneMoves
<1>7. ASSUME NEW w \in Workers, Store!LookBefore(w) \/ Store!LookAfter(w)
      PROVE  AssetTyped'
  BY <1>7, LookTyped DEF Store!LookBefore, Store!LookAfter
<1>8. ASSUME NEW w \in Workers, Store!Claim(w)
      PROVE  AssetTyped'
  <2>1. Store!File(w) \in Files /\ Store!Holders(Store!File(w)) \in SUBSET Store!PlaceSet /\ ~Store!At(w, "idle")
    BY <1>8, WorkFits DEF Store!Claim, Store!At, Store!Holders
  <2>2. FitFor([worker[w] EXCEPT !.at = "after", !.steady = Store!Holders(Store!File(w))])
    BY <2>1, WorkFits DEF WorkerLabels
  <2>3. RowTyped'
    BY <1>8, <2>1, <1>0, <1>b, MarkTyped DEF Store!Claim, AssetStatuses
  <2>4. Store!Rest(w) \/ Store!Goto(w, [worker[w] EXCEPT !.at = "after", !.steady = Store!Holders(Store!File(w))])
    BY <1>8 DEF Store!Claim
  <2> QED BY <1>8, <2>2, <2>3, <2>4, <1>a, <1>c, OneMoves, RestTyped DEF Store!Claim
<1>9. ASSUME NEW w \in Workers, Store!Remove(w)
      PROVE  AssetTyped'
  <2>1. stored' \subseteq Files /\ RowTyped' /\ RefersTyped'
    BY <1>9, <1>a, <1>b, <1>c DEF Store!Remove
  <2>2. \E t : FitFor(t) /\ Store!Goto(w, t)
    BY <1>9, StartFits DEF Store!Remove, WorkerLabels
  <2> QED BY <2>1, <2>2, OneMoves
<1>10. ASSUME NEW w \in Workers, Store!Destroy(w)
       PROVE  AssetTyped'
  <2>1. stored' \subseteq Files /\ RowTyped' /\ RefersTyped'
    BY <1>10, <1>0, <1>b, <1>c DEF Store!Destroy
  <2>2. \E t : FitFor(t) /\ Store!Goto(w, t)
    BY <1>10, WorkFits DEF Store!Destroy, Store!At, WorkerLabels
  <2> QED BY <2>1, <2>2, OneMoves
<1>11. ASSUME NEW w \in Workers, Store!MarkDeleted(w)
       PROVE  AssetTyped'
  <2>1. RowTyped'
    BY <1>11, <1>0, WorkFits, MarkTyped DEF Store!MarkDeleted, Store!At, AssetStatuses
  <2> QED BY <1>11, <2>1, <1>a, <1>c, RestTyped DEF Store!MarkDeleted
<1>12. ASSUME NEW w \in Workers, Store!MarkFailed(w)
       PROVE  AssetTyped'
  <2>1. Store!File(w) \in Files
    BY <1>12, WorkFits DEF Store!MarkFailed, Store!At
  <2>2. RowTyped'
    BY <1>12, <2>1, <1>0 DEF Store!MarkFailed, RowTyped, AssetStatuses, Store!AssetAssumption
  <2> QED BY <1>12, <2>2, <1>a, <1>c, RestTyped DEF Store!MarkFailed
<1>13. ASSUME NEW w \in Workers, Store!Crash(w)
       PROVE  AssetTyped'
  BY <1>13, <1>a, <1>b, <1>c, RestTyped DEF Store!Crash
<1> QED
  BY <1>1, <1>2, <1>3, <1>4, <1>5, <1>6, <1>7, <1>8, <1>9, <1>10, <1>11, <1>12, <1>13
  DEF Store!Next

(* What is in use is kept.                                                 *)

\* What one worker knows, and the others know still.
LEMMA OneKnows ==
  ASSUME AssetTyped, Watched, NEW w \in Workers, NEW t, Store!Goto(w, t), KnowsFile(t, refers), UNCHANGED refers
  PROVE  Watched'
<1> SUFFICES ASSUME NEW v \in Workers PROVE KnowsFile(worker'[v], refers')
  BY DEF Watched
<1>1. refers' = refers /\ KnowsFile(worker[v], refers)
  BY DEF Watched
<1>2. worker'[v] = IF v = w THEN t ELSE worker[v]
  BY DEF AssetTyped, Store!Goto
<1> QED BY <1>1, <1>2

\* A worker at rest knows nothing.
LEMMA RestKnows ==
  ASSUME AssetTyped, Watched, NEW w \in Workers, Store!Rest(w), UNCHANGED refers
  PROVE  Watched'
<1>1. KnowsFile(Store!Rested, refers)
  BY DEF KnowsFile, Store!Rested
<1> QED BY <1>1, OneKnows DEF Store!Rest

\* Another record that comes to point elsewhere is no longer on anyone's list.
LEMMA SaveKnows ==
  ASSUME AssetTyped, Watched, NEW w \in Workers, NEW p \in Store!PlaceSet, Store!SaveRecord(w, p)
  PROVE  Watched'
<1> PICK f \in stored \cup {"none"} :
       /\ refers' = [refers EXCEPT ![p] = f]
       /\ worker' = [v \in Workers |->
            IF v = w THEN IF refers[p] = "none" THEN Store!Rested
                          ELSE [Store!Rested EXCEPT !.at = "release", !.file = refers[p]]
                     ELSE [worker[v] EXCEPT !.steady = @ \ {p}]]
  BY DEF Store!SaveRecord
<1> SUFFICES ASSUME NEW v \in Workers PROVE KnowsFile(worker'[v], refers')
  BY DEF Watched
<1>1. CASE v = w
  BY <1>1 DEF KnowsFile, Store!Rested
<1>2. CASE v # w
  <2>1. worker'[v] = [worker[v] EXCEPT !.steady = @ \ {p}] /\ worker[v] \in WorkerRows
    BY <1>2 DEF AssetTyped
  <2>2. /\ worker'[v].at = worker[v].at /\ worker'[v].file = worker[v].file
        /\ worker'[v].next = worker[v].next /\ worker'[v].steady = worker[v].steady \ {p}
    BY <2>1 DEF WorkerRows
  <2>3. \A q \in worker'[v].steady : refers'[q] = refers[q]
    BY <2>1, <2>2 DEF AssetTyped, WorkerRows
  <2> QED BY <2>2, <2>3 DEF KnowsFile, Watched
<1> QED BY <1>1, <1>2

\* The search after the claim: past the last collection, nothing is left that
\* has pointed at the file all along.
LEMMA AfterKnows ==
  ASSUME Store!AssetAssumption, AssetTyped, Watched, NEW w \in Workers, Store!LookAfter(w)
  PROVE  Watched'
<1>1. UNCHANGED refers /\ Store!At(w, "after") /\ worker[w] \in WorkerRows
  BY DEF Store!LookAfter, AssetTyped
<1>2. CASE Store!Keep(w, TRUE)
  BY <1>1, <1>2, RestKnows DEF Store!Keep
<1>3. CASE ~Store!Keep(w, TRUE)
  <2> DEFINE n == worker[w].next
  <2>1. /\ refers[Places[n]] # Store!File(w)
        /\ IF n < Len(Places) THEN Store!Goto(w, [worker[w] EXCEPT !.next = @ + 1])
                              ELSE Store!Goto(w, [worker[w] EXCEPT !.at = "destroy"])
    BY <1>3 DEF Store!LookAfter, Store!Looked
  <2>2. /\ n \in Nat \ {0} /\ worker[w].steady \subseteq Store!PlaceSet
        /\ \A p \in worker[w].steady : refers[p] = worker[w].file
        /\ \A i \in DOMAIN Places : i < n => Places[i] \notin worker[w].steady
    BY <1>1 DEF Watched, KnowsFile, Store!At, WorkerRows, Searches
  <2>3. Places[n] \notin worker[w].steady
    BY <2>1, <2>2 DEF Store!File
  <2>4. \A i \in DOMAIN Places : i \in Nat
    BY DEF Store!AssetAssumption
  <2>5. \A i \in DOMAIN Places : i < n + 1 => Places[i] \notin worker[w].steady
    <3> TAKE i \in DOMAIN Places
    <3> HAVE i < n + 1
    <3>1. i < n \/ i = n
      BY <2>2, <2>4
    <3> QED BY <3>1, <2>2, <2>3
  <2>6. CASE n < Len(Places)
    <3> DEFINE t == [worker[w] EXCEPT !.next = @ + 1]
    <3>1. t.at = "after" /\ t.next = n + 1 /\ t.steady = worker[w].steady /\ t.file = worker[w].file
      BY <1>1 DEF WorkerRows, Store!At
    <3>2. KnowsFile(t, refers)
      BY <3>1, <2>2, <2>5 DEF KnowsFile
    <3>3. Store!Goto(w, t)
      BY <2>1, <2>6
    <3> QED BY <3>2, <3>3, <1>1, OneKnows
  <2>7. CASE ~(n < Len(Places))
    <3>1. \A i \in DOMAIN Places : i < n + 1
      BY <2>2, <2>7 DEF Store!AssetAssumption
    <3>2. \A i \in DOMAIN Places : Places[i] \notin worker[w].steady
      BY <3>1, <2>5
    <3>3. worker[w].steady = {}
      BY <3>2, <2>2 DEF Store!PlaceSet
    <3> DEFINE t == [worker[w] EXCEPT !.at = "destroy"]
    <3>4. t.at = "destroy" /\ t.steady = {}
      BY <1>1, <3>3 DEF WorkerRows
    <3>5. KnowsFile(t, refers)
      BY <3>4 DEF KnowsFile
    <3>6. Store!Goto(w, t)
      BY <2>1, <2>7
    <3> QED BY <3>5, <3>6, <1>1, OneKnows
  <2> QED BY <2>6, <2>7
<1> QED BY <1>2, <1>3

\* Every step keeps what the workers know.
LEMMA StepKnows ==
  ASSUME Store!AssetAssumption, AssetTyped, Watched, [Store!Next]_(Store!assetVars)
  PROVE  Watched'
<1>1. CASE UNCHANGED Store!assetVars
  BY <1>1 DEF Store!assetVars, Watched
<1>2. ASSUME NEW w \in Workers, Store!Upload(w)
      PROVE  Watched'
  <2> PICK f \in Files : Store!Goto(w, [Store!Rested EXCEPT !.at = "record", !.file = f])
    BY <1>2 DEF Store!Upload
  <2>1. KnowsFile([Store!Rested EXCEPT !.at = "record", !.file = f], refers)
    BY DEF KnowsFile, Store!Rested
  <2> QED BY <1>2, <2>1, OneKnows DEF Store!Upload
<1>3. ASSUME NEW w \in Workers, Store!Record(w) \/ Store!MarkDeleted(w) \/ Store!MarkFailed(w) \/ Store!Crash(w)
      PROVE  Watched'
  BY <1>3, RestKnows DEF Store!Record, Store!MarkDeleted, Store!MarkFailed, Store!Crash
<1>4. ASSUME NEW w \in Workers, NEW p \in Store!PlaceSet, Store!SaveRecord(w, p)
      PROVE  Watched'
  BY <1>4, SaveKnows
<1>5. ASSUME NEW w \in Workers, Store!ReleaseOne(w)
      PROVE  Watched'
  <2>1. Store!Rest(w) \/ Store!Goto(w, [worker[w] EXCEPT !.at = "before"])
    BY <1>5 DEF Store!ReleaseOne
  <2>2. KnowsFile([worker[w] EXCEPT !.at = "before"], refers)
    BY DEF KnowsFile, AssetTyped, WorkerRows
  <2> QED BY <1>5, <2>1, <2>2, OneKnows, RestKnows DEF Store!ReleaseOne
<1>6. ASSUME NEW w \in Workers, Store!CleanUp(w)
      PROVE  Watched'
  <2>1. \/ \E f \in Files : Store!Goto(w, [Store!Rested EXCEPT !.at = "before", !.file = f, !.retry = TRUE])
        \/ \E f \in Files : Store!Goto(w, [Store!Rested EXCEPT !.at = "before", !.file = f])
    BY <1>6 DEF Store!CleanUp, Store!RetryFailed, Store!DeleteOrphan
  <2>2. \A f \in Files : /\ KnowsFile([Store!Rested EXCEPT !.at = "before", !.file = f, !.retry = TRUE], refers)
                         /\ KnowsFile([Store!Rested EXCEPT !.at = "before", !.file = f], refers)
    BY DEF KnowsFile, Store!Rested
  <2> QED BY <1>6, <2>1, <2>2, OneKnows DEF Store!CleanUp, Store!RetryFailed, Store!DeleteOrphan
<1>7. ASSUME NEW w \in Workers, Store!LookBefore(w)
      PROVE  Watched'
  <2>1. Store!At(w, "before") /\ UNCHANGED refers /\ worker[w] \in WorkerRows
    BY <1>7 DEF Store!LookBefore, AssetTyped
  <2>2. \/ Store!Rest(w)
        \/ Store!Goto(w, [worker[w] EXCEPT !.next = @ + 1])
        \/ Store!Goto(w, [worker[w] EXCEPT !.at = "claim", !.next = 1])
    BY <1>7 DEF Store!LookBefore, Store!Looked, Store!Keep
  <2>3. /\ KnowsFile([worker[w] EXCEPT !.next = @ + 1], refers)
        /\ KnowsFile([worker[w] EXCEPT !.at = "claim", !.next = 1], refers)
    BY <2>1 DEF KnowsFile, WorkerRows, Store!At
  <2> QED BY <2>1, <2>2, <2>3, OneKnows, RestKnows
<1>8. ASSUME NEW w \in Workers, Store!LookAfter(w)
      PROVE  Watched'
  BY <1>8, AfterKnows
<1>9. ASSUME NEW w \in Workers, Store!Claim(w)
      PROVE  Watched'
  <2>1. Store!At(w, "claim") /\ UNCHANGED refers /\ worker[w] \in WorkerRows /\ worker[w].next = 1
    BY <1>9 DEF Store!Claim, AssetTyped, Watched, KnowsFile, Store!At
  <2> DEFINE t == [worker[w] EXCEPT !.at = "after", !.steady = Store!Holders(Store!File(w))]
  <2>2. Store!Rest(w) \/ Store!Goto(w, t)
    BY <1>9 DEF Store!Claim
  <2>3. t.at = "after" /\ t.next = 1 /\ t.file = Store!File(w) /\ t.steady = Store!Holders(Store!File(w))
    BY <2>1 DEF WorkerRows, Store!File
  <2>4. \A i \in DOMAIN Places : ~(i < 1)
    BY DEF Store!AssetAssumption
  <2>5. KnowsFile(t, refers)
    BY <2>3, <2>4 DEF KnowsFile, Store!Holders
  <2> QED BY <2>1, <2>2, <2>5, OneKnows, RestKnows
<1>10. ASSUME NEW w \in Workers, Store!Remove(w)
       PROVE  Watched'
  <2> PICK f \in Files : Store!Goto(w, [Store!Rested EXCEPT !.at = "destroy", !.file = f])
    BY <1>10 DEF Store!Remove
  <2>1. KnowsFile([Store!Rested EXCEPT !.at = "destroy", !.file = f], refers)
    BY DEF KnowsFile, Store!Rested
  <2> QED BY <1>10, <2>1, OneKnows DEF Store!Remove
<1>11. ASSUME NEW w \in Workers, Store!Destroy(w)
       PROVE  Watched'
  <2>1. \E l \in {"gone", "failed"} : Store!Goto(w, [worker[w] EXCEPT !.at = l])
    BY <1>11 DEF Store!Destroy
  <2>2. \A l \in {"gone", "failed"} : KnowsFile([worker[w] EXCEPT !.at = l], refers)
    BY DEF KnowsFile, AssetTyped, WorkerRows
  <2> QED BY <1>11, <2>1, <2>2, OneKnows DEF Store!Destroy
<1> QED
  BY <1>1, <1>2, <1>3, <1>4, <1>5, <1>6, <1>7, <1>8, <1>9, <1>10, <1>11 DEF Store!Next

(* What says deleted is gone.                                              *)

\* The rows after a step: a tracked file stays tracked, and its copy does not
\* come back.
Tracked ==
    \A f \in Files : asset[f].status # "NONE" =>
      /\ asset'[f].status # "NONE"
      /\ f \notin stored => f \notin stored'

\* What one worker handles, and the others handle still.
LEMMA OneHandles ==
  ASSUME AssetTyped, Handled, NEW w \in Workers, NEW t, Store!Goto(w, t), Tracked, Handles(t, asset', stored')
  PROVE  Handled'
<1> SUFFICES ASSUME NEW v \in Workers PROVE Handles(worker'[v], asset', stored')
  BY DEF Handled
<1>1. Handles(worker[v], asset, stored) /\ (~Store!At(v, "idle") => Store!File(v) \in Files)
  BY DEF Handled, AssetTyped
<1>2. Handles(worker[v], asset', stored')
  BY <1>1 DEF Handles, Tracked, Store!At, Store!File
<1>3. worker'[v] = IF v = w THEN t ELSE worker[v]
  BY DEF AssetTyped, Store!Goto
<1> QED BY <1>2, <1>3

\* A worker at rest handles nothing.
LEMMA RestHandles ==
  ASSUME AssetTyped, Handled, NEW w \in Workers, Store!Rest(w), Tracked
  PROVE  Handled'
<1>1. Handles(Store!Rested, asset', stored')
  BY DEF Handles, Store!Rested
<1> QED BY <1>1, OneHandles DEF Store!Rest

\* Marking a row leaves every file tracked that was,
LEMMA MarkTracks ==
  ASSUME AssetTyped, NEW f \in Files, NEW s \in AssetStatuses \ {"NONE"}, Store!Mark(f, s), UNCHANGED stored
  PROVE  Tracked
  BY DEF AssetTyped, Store!Mark, Tracked

\* and marks deleted only what is gone.
LEMMA MarkGone ==
  ASSUME AssetTyped, Store!DeletedIsGone, NEW f \in Files, NEW s \in AssetStatuses \ {"DELETED"}, Store!Mark(f, s),
         UNCHANGED stored
  PROVE  Store!DeletedIsGone'
  BY DEF AssetTyped, Store!Mark, Store!DeletedIsGone

\* A worker looking for references.
LEMMA LookHandles ==
  ASSUME AssetTyped, Handled, Store!DeletedIsGone, NEW w \in Workers, Store!LookBefore(w) \/ Store!LookAfter(w)
  PROVE  Handled' /\ Store!DeletedIsGone'
<1>1. UNCHANGED stored /\ worker[w] \in WorkerRows /\ Store!File(w) \in Files /\ Handles(worker[w], asset, stored)
  BY DEF Store!LookBefore, Store!LookAfter, AssetTyped, Handled, Store!At
<1>2. ASSUME Store!Mark(Store!File(w), "ACTIVE"), Store!Rest(w)
      PROVE  Handled' /\ Store!DeletedIsGone'
  <2>1. Tracked /\ Store!DeletedIsGone'
    BY <1>1, <1>2, MarkTracks, MarkGone DEF AssetStatuses
  <2> QED BY <1>2, <2>1, RestHandles
<1>3. ASSUME NEW t, Store!Goto(w, t), UNCHANGED asset, Handles(t, asset, stored)
      PROVE  Handled' /\ Store!DeletedIsGone'
  <2>1. Tracked /\ Store!DeletedIsGone'
    BY <1>1, <1>3 DEF Tracked, Store!DeletedIsGone
  <2>2. Handles(t, asset', stored')
    BY <1>1, <1>3 DEF Handles
  <2> QED BY <1>3, <2>1, <2>2, OneHandles
<1>4. Handles(Store!Rested, asset, stored)
  BY DEF Handles, Store!Rested
<1>5. CASE Store!LookBefore(w)
  <2>1. \/ Store!Mark(Store!File(w), "ACTIVE") /\ Store!Rest(w)
        \/ UNCHANGED asset /\ \/ Store!Goto(w, Store!Rested)
                              \/ Store!Goto(w, [worker[w] EXCEPT !.next = @ + 1])
                              \/ Store!Goto(w, [worker[w] EXCEPT !.at = "claim", !.next = 1])
    BY <1>5 DEF Store!LookBefore, Store!Looked, Store!Keep, Store!Rest
  <2>2. /\ Handles([worker[w] EXCEPT !.next = @ + 1], asset, stored)
        /\ Handles([worker[w] EXCEPT !.at = "claim", !.next = 1], asset, stored)
    BY <1>1 DEF Handles, WorkerRows
  <2> QED BY <2>1, <2>2, <1>2, <1>3, <1>4
<1>6. CASE Store!LookAfter(w)
  <2>1. \/ Store!Mark(Store!File(w), "ACTIVE") /\ Store!Rest(w)
        \/ UNCHANGED asset /\ \/ Store!Goto(w, [worker[w] EXCEPT !.next = @ + 1])
                              \/ Store!Goto(w, [worker[w] EXCEPT !.at = "destroy"])
    BY <1>6 DEF Store!LookAfter, Store!Looked, Store!Keep
  <2>2. Store!At(w, "after")
    BY <1>6 DEF Store!LookAfter
  <2>3. /\ Handles([worker[w] EXCEPT !.next = @ + 1], asset, stored)
        /\ Handles([worker[w] EXCEPT !.at = "destroy"], asset, stored)
    BY <1>1, <2>2 DEF Handles, WorkerRows, Store!At
  <2> QED BY <2>1, <2>3, <1>2, <1>3
<1> QED BY <1>5, <1>6

\* Every step keeps what the workers handle.
LEMMA StepHandles ==
  ASSUME Store!AssetAssumption, AssetTyped, Handled, Store!DeletedIsGone, [Store!Next]_(Store!assetVars)
  PROVE  Handled' /\ Store!DeletedIsGone'
<1>a. ASSUME UNCHANGED <<stored, asset>>
      PROVE  Tracked /\ Store!DeletedIsGone'
  BY <1>a DEF Tracked, Store!DeletedIsGone
<1>1. CASE UNCHANGED Store!assetVars
  BY <1>1 DEF Store!assetVars, Handled, Store!DeletedIsGone
<1>2. ASSUME NEW w \in Workers, Store!Upload(w)
      PROVE  Handled' /\ Store!DeletedIsGone'
  <2> PICK f \in {g \in Files \ stored : asset[g] = Store!NoRow} :
        stored' = stored \cup {f} /\ Store!Goto(w, [Store!Rested EXCEPT !.at = "record", !.file = f])
    BY <1>2 DEF Store!Upload
  <2>1. asset' = asset /\ asset[f].status = "NONE"
    BY <1>2 DEF Store!Upload, Store!NoRow
  <2>2. Tracked /\ Store!DeletedIsGone'
    BY <2>1 DEF Tracked, Store!DeletedIsGone
  <2>3. Handles([Store!Rested EXCEPT !.at = "record", !.file = f], asset', stored')
    BY DEF Handles, Store!Rested
  <2> QED BY <2>2, <2>3, OneHandles
<1>3. ASSUME NEW w \in Workers, Store!Record(w)
      PROVE  Handled' /\ Store!DeletedIsGone'
  <2>1. Store!File(w) \in Files /\ UNCHANGED stored /\ Store!Rest(w)
    BY <1>3 DEF Store!Record, AssetTyped, Store!At
  <2>2. Tracked /\ Store!DeletedIsGone'
    <3>1. CASE Store!Mark(Store!File(w), "ACTIVE")
      BY <3>1, <2>1, MarkTracks, MarkGone DEF AssetStatuses
    <3>2. CASE UNCHANGED asset
      BY <3>2, <2>1, <1>a
    <3> QED BY <1>3, <3>1, <3>2 DEF Store!Record
  <2> QED BY <2>1, <2>2, RestHandles
<1>4. ASSUME NEW w \in Workers, NEW p \in Store!PlaceSet, Store!SaveRecord(w, p)
      PROVE  Handled' /\ Store!DeletedIsGone'
  <2>1. UNCHANGED <<stored, asset>>
    BY <1>4 DEF Store!SaveRecord
  <2> SUFFICES ASSUME NEW v \in Workers PROVE Handles(worker'[v], asset, stored)
    BY <2>1, <1>a DEF Handled
  <2>2. CASE v = w
    <3>1. \/ worker'[v] = Store!Rested
          \/ worker'[v] = [Store!Rested EXCEPT !.at = "release", !.file = refers[p]]
      BY <1>4, <2>2 DEF Store!SaveRecord
    <3>2. Handles(Store!Rested, asset, stored)
      BY DEF Handles, Store!Rested
    <3>3. \A f \in Files \cup {"none"} :
            Handles([Store!Rested EXCEPT !.at = "release", !.file = f], asset, stored)
      BY DEF Handles, Store!Rested
    <3>4. refers[p] \in Files \cup {"none"}
      BY DEF AssetTyped
    <3> QED BY <3>1, <3>2, <3>3, <3>4
  <2>3. CASE v # w
    <3>1. worker'[v] = [worker[v] EXCEPT !.steady = @ \ {p}] /\ worker[v] \in WorkerRows
      BY <1>4, <2>3 DEF Store!SaveRecord, AssetTyped
    <3>2. worker'[v].at = worker[v].at /\ worker'[v].file = worker[v].file
      BY <3>1 DEF WorkerRows
    <3> QED BY <3>2 DEF Handled, Handles
  <2> QED BY <2>2, <2>3
<1>5. ASSUME NEW w \in Workers, NEW t, Store!Goto(w, t), UNCHANGED <<stored, asset>>,
             Handles(t, asset, stored)
      PROVE  Handled' /\ Store!DeletedIsGone'
  <2>1. Handles(t, asset', stored')
    BY <1>5
  <2> QED BY <1>5, <2>1, <1>a, OneHandles
<1>6. ASSUME NEW w \in Workers, Store!ReleaseOne(w) \/ Store!CleanUp(w) \/ Store!Remove(w) \/ Store!Crash(w)
      PROVE  Handled' /\ Store!DeletedIsGone'
  <2>1. Handles(Store!Rested, asset, stored)
    BY DEF Handles, Store!Rested
  <2>2. CASE Store!ReleaseOne(w)
    <3>1. Store!Goto(w, Store!Rested) \/ Store!Goto(w, [worker[w] EXCEPT !.at = "before"])
      BY <2>2 DEF Store!ReleaseOne, Store!Rest
    <3>2. Handles([worker[w] EXCEPT !.at = "before"], asset, stored)
      BY DEF Handles, AssetTyped, WorkerRows
    <3> QED BY <2>1, <2>2, <3>1, <3>2, <1>5 DEF Store!ReleaseOne
  <2>3. CASE Store!CleanUp(w)
    <3>1. \/ \E f \in Files : Store!Goto(w, [Store!Rested EXCEPT !.at = "before", !.file = f, !.retry = TRUE])
          \/ \E f \in Files : Store!Goto(w, [Store!Rested EXCEPT !.at = "before", !.file = f])
      BY <2>3 DEF Store!CleanUp, Store!RetryFailed, Store!DeleteOrphan
    <3>2. \A f \in Files :
            /\ Handles([Store!Rested EXCEPT !.at = "before", !.file = f, !.retry = TRUE], asset, stored)
            /\ Handles([Store!Rested EXCEPT !.at = "before", !.file = f], asset, stored)
      BY DEF Handles, Store!Rested
    <3> QED BY <2>3, <3>1, <3>2, <1>5 DEF Store!CleanUp, Store!RetryFailed, Store!DeleteOrphan
  <2>4. CASE Store!Remove(w)
    <3> PICK f \in Files : /\ asset[f].status # "NONE"
                           /\ Store!Goto(w, [Store!Rested EXCEPT !.at = "destroy", !.file = f])
      BY <2>4 DEF Store!Remove
    <3>1. Handles([Store!Rested EXCEPT !.at = "destroy", !.file = f], asset, stored)
      BY DEF Handles, Store!Rested
    <3> QED BY <2>4, <3>1, <1>5 DEF Store!Remove
  <2>5. CASE Store!Crash(w)
    BY <2>1, <2>5, <1>5 DEF Store!Crash, Store!Rest
  <2> QED BY <1>6, <2>2, <2>3, <2>4, <2>5
<1>7. ASSUME NEW w \in Workers, Store!LookBefore(w) \/ Store!LookAfter(w)
      PROVE  Handled' /\ Store!DeletedIsGone'
  BY <1>7, LookHandles
<1>8. ASSUME NEW w \in Workers, Store!Claim(w)
      PROVE  Handled' /\ Store!DeletedIsGone'
  <2>1. Store!File(w) \in Files /\ UNCHANGED stored /\ worker[w] \in WorkerRows
    BY <1>8 DEF Store!Claim, AssetTyped, Store!At
  <2>2. CASE Store!Rest(w) /\ UNCHANGED asset
    BY <2>1, <2>2, <1>a, RestHandles
  <2>3. CASE /\ Store!Mark(Store!File(w), "DELETING")
             /\ Store!Goto(w, [worker[w] EXCEPT !.at = "after", !.steady = Store!Holders(Store!File(w))])
    <3>1. Tracked /\ Store!DeletedIsGone'
      BY <2>1, <2>3, MarkTracks, MarkGone DEF AssetStatuses
    <3>2. asset'[Store!File(w)].status = "DELETING"
      BY <2>1, <2>3 DEF Store!Mark, AssetTyped
    <3>3. Handles([worker[w] EXCEPT !.at = "after", !.steady = Store!Holders(Store!File(w))], asset', stored')
      BY <2>1, <3>2 DEF Handles, WorkerRows, Store!File
    <3> QED BY <2>3, <3>1, <3>3, OneHandles
  <2> QED BY <1>8, <2>2, <2>3 DEF Store!Claim
<1>9. ASSUME NEW w \in Workers, Store!Destroy(w)
      PROVE  Handled' /\ Store!DeletedIsGone'
  <2>1. /\ asset' = asset /\ worker[w] \in WorkerRows /\ Store!File(w) \in Files
        /\ stored' \subseteq stored /\ asset[Store!File(w)].status # "NONE"
    BY <1>9 DEF Store!Destroy, AssetTyped, Store!At, Handled, Handles, Store!File
  <2>2. Tracked /\ Store!DeletedIsGone'
    BY <2>1 DEF Tracked, Store!DeletedIsGone
  <2>3. \/ Store!Goto(w, [worker[w] EXCEPT !.at = "gone"]) /\ Store!File(w) \notin stored'
        \/ Store!Goto(w, [worker[w] EXCEPT !.at = "failed"])
    BY <1>9 DEF Store!Destroy
  <2>4. /\ Store!File(w) \notin stored' => Handles([worker[w] EXCEPT !.at = "gone"], asset', stored')
        /\ Handles([worker[w] EXCEPT !.at = "failed"], asset', stored')
    BY <2>1 DEF Handles, WorkerRows, Store!File
  <2> QED BY <2>2, <2>3, <2>4, OneHandles
<1>10. ASSUME NEW w \in Workers, Store!MarkDeleted(w)
       PROVE  Handled' /\ Store!DeletedIsGone'
  <2>1. /\ Store!Mark(Store!File(w), "DELETED") /\ UNCHANGED stored /\ Store!Rest(w)
        /\ Store!File(w) \in Files /\ Store!File(w) \notin stored
    BY <1>10 DEF Store!MarkDeleted, AssetTyped, Store!At, Handled, Handles, Store!File
  <2>2. Tracked
    BY <2>1, MarkTracks DEF AssetStatuses
  <2>3. Store!DeletedIsGone'
    BY <2>1 DEF AssetTyped, Store!Mark, Store!DeletedIsGone
  <2> QED BY <2>1, <2>2, <2>3, RestHandles
<1>11. ASSUME NEW w \in Workers, Store!MarkFailed(w)
       PROVE  Handled' /\ Store!DeletedIsGone'
  <2>1. /\ Store!File(w) \in Files /\ UNCHANGED stored /\ Store!Rest(w)
        /\ \E n : asset' = [asset EXCEPT ![Store!File(w)] = [status |-> "DELETE_FAILED", attempts |-> n]]
    BY <1>11 DEF Store!MarkFailed, AssetTyped, Store!At
  <2>2. Tracked /\ Store!DeletedIsGone'
    BY <2>1 DEF AssetTyped, Tracked, Store!DeletedIsGone
  <2> QED BY <2>1, <2>2, RestHandles
<1> QED
  BY <1>1, <1>2, <1>3, <1>4, <1>6, <1>7, <1>8, <1>9, <1>10, <1>11 DEF Store!Next

\* Nothing stored satisfies the invariant.
LEMMA AssetInit == Store!Init => AssetInv
<1> SUFFICES ASSUME Store!Init PROVE AssetInv
  OBVIOUS
<1>1. \A w \in Workers : worker[w] = Store!Rested
  BY DEF Store!Init
<1>2. Watched /\ Handled
  BY <1>1 DEF Watched, KnowsFile, Handled, Handles, Store!Rested
<1>3. Store!DeletedIsGone
  BY DEF Store!Init, Store!DeletedIsGone
<1> QED BY <1>2, <1>3, AssetsInitTyped DEF AssetInv

\* Every step keeps the invariant.
LEMMA AssetStep == Store!AssetAssumption /\ AssetInv /\ [Store!Next]_(Store!assetVars) => AssetInv'
  BY StepTyped, StepKnows, StepHandles DEF AssetInv

\* The invariant holds of every behaviour of the files.
LEMMA AssetInvHolds == ASSUME Store!AssetAssumption PROVE Store!Spec => []AssetInv
<1>1. AssetInv /\ [Store!Next]_(Store!assetVars) => AssetInv'
  BY AssetStep
<1> QED BY <1>1, AssetInit, PTL DEF Store!Spec

\* However many workers release, retry and clean up at once, and whatever saves
\* come between: a file some record has pointed at ever since it was claimed is
\* not handed to the provider for deletion.
THEOREM InUseKept == ASSUME Store!AssetAssumption PROVE Store!Spec => []Store!InUseIsKept
<1>1. AssetInv => Store!InUseIsKept
  BY DEF AssetInv, Watched, KnowsFile, Store!InUseIsKept, Store!At
<1> QED BY <1>1, AssetInvHolds, PTL

\* A row never says deleted of a file that is still stored, so what a failed
\* deletion leaves behind can be found.
THEOREM DeletedGone == ASSUME Store!AssetAssumption PROVE Store!Spec => []Store!DeletedIsGone
<1>1. AssetInv => Store!DeletedIsGone
  BY DEF AssetInv
<1> QED BY <1>1, AssetInvHolds, PTL

\* The two together, as the small instance checks them: however release, retry
\* and clean-up interleave and fail, nothing in use is deleted and nothing is
\* called deleted that is not.
THEOREM FilesStandKept == ASSUME Store!AssetAssumption PROVE Store!Spec => []Store!FilesAreKept
<1>1. AssetInv => Store!FilesAreKept
  BY DEF AssetInv, Watched, KnowsFile, Store!InUseIsKept, Store!At, Store!FilesAreKept
<1> QED BY <1>1, AssetInvHolds, PTL

-----------------------------------------------------------------------------
(* The tasks of a team (EventTasks).                                        *)

\* A removal keeps every other element, in order.
LEMMA RemoveAtIs ==
    ASSUME NEW S, NEW s \in Seq(S), NEW i \in 1..Len(s)
    PROVE  LET r == Team!RemoveAt(s, i)
           IN  /\ r \in Seq(S) /\ Len(r) = Len(s) - 1
               /\ \A j \in 1..Len(r) : r[j] = s[IF j < i THEN j ELSE j + 1]
  <1> DEFINE a == SubSeq(s, 1, i - 1)
             b == SubSeq(s, i + 1, Len(s))
  <1>1. a \in Seq(S) /\ Len(a) = i - 1 /\ \A j \in 1..(i - 1) : a[j] = s[j]
    OBVIOUS
  <1>2. b \in Seq(S) /\ Len(b) = Len(s) - i /\ \A j \in 1..(Len(s) - i) : b[j] = s[i + j]
    OBVIOUS
  <1>3. Team!RemoveAt(s, i) = a \o b
    BY DEF Team!RemoveAt
  <1> HIDE DEF a, b
  <1> DEFINE r == a \o b
  <1>4. /\ r \in Seq(S) /\ Len(r) = Len(a) + Len(b)
        /\ \A j \in 1..(Len(a) + Len(b)) : r[j] = IF j <= Len(a) THEN a[j] ELSE b[j - Len(a)]
    BY <1>1, <1>2, ConcatProperties
  <1>5. Len(r) = Len(s) - 1 /\ Len(a) + Len(b) = Len(s) - 1
    BY <1>1, <1>2, <1>4
  <1> HIDE DEF r
  <1>6. ASSUME NEW j \in 1..Len(r) PROVE r[j] = s[IF j < i THEN j ELSE j + 1]
    <2>1. CASE j < i
      BY <1>1, <1>4, <1>5, <2>1
    <2>2. CASE j >= i
      <3>1. r[j] = b[j - (i - 1)]
        BY <1>1, <1>4, <1>5, <2>2
      <3>2. j - (i - 1) \in 1..(Len(s) - i)
        BY <1>5, <2>2
      <3> QED  BY <1>2, <2>2, <3>1, <3>2
    <2> QED  BY <2>1, <2>2
  <1>7. Team!RemoveAt(s, i) = r
    BY <1>3 DEF r
  <1> QED  BY <1>4, <1>5, <1>6, <1>7

\* The types of a task.
Assignments == {"unassigned", "pending", "accepted", "declined"}
\* A task of the team.
TaskRows == [id : Nat, vendor : {Team!Nobody} \cup Vendors, assignment : Assignments, status : {"todo", "done"}]

\* Each id once, and none that was not given out.
Listed(ts, n) ==
    /\ ts \in Seq(TaskRows)
    /\ \A i \in DOMAIN ts : ts[i].id \in 1..n
    /\ \A i, j \in DOMAIN ts : ts[i].id = ts[j].id => i = j

\* A change is of the fields an update, an answer or a report may write.
IsChange(w) ==
    /\ DOMAIN w \subseteq {"vendor", "assignment", "status"}
    /\ "vendor" \in DOMAIN w => w["vendor"] \in {Team!Nobody} \cup Vendors
    /\ "assignment" \in DOMAIN w => w["assignment"] \in Assignments
    /\ "status" \in DOMAIN w => w["status"] \in {"todo", "done"}

\* A task with the fields of a change.
Merged(t, w) == [f \in DOMAIN t |-> IF f \in DOMAIN w THEN w[f] ELSE t[f]]

\* A merged task is a task, and the same one.
LEMMA MergedIs ==
    ASSUME NEW t \in TaskRows, NEW w, IsChange(w)
    PROVE  Merged(t, w) \in TaskRows /\ Merged(t, w).id = t.id
  <1>1. Merged(t, w) = [id |-> t.id,
                        vendor |-> IF "vendor" \in DOMAIN w THEN w["vendor"] ELSE t.vendor,
                        assignment |-> IF "assignment" \in DOMAIN w THEN w["assignment"] ELSE t.assignment,
                        status |-> IF "status" \in DOMAIN w THEN w["status"] ELSE t.status]
    BY DEF Merged, TaskRows, IsChange
  <1> QED  BY <1>1 DEF TaskRows, IsChange

\* What a request that waits to save holds: the place of its task, an array.
Waits(d, ts, n) ==
    /\ d.at = "save" => d.index \in DOMAIN ts /\ ts[d.index].id = d.task /\ IsChange(d.change)
    /\ d.at = "remove" => Listed(d.rest, n)

\* The inductive invariant of a list of tasks, whatever overlaps.
TasksInv ==
    /\ added \in Nat /\ Listed(tasks, added)
    /\ DOMAIN desk = Callers
    /\ \A c \in Callers : Waits(desk[c], tasks, added)

\* A handler at rest.
LEMMA NoTaskDeskIs == Team!NoDesk.at = "idle"
  BY DEF Team!NoDesk

\* No task satisfies the invariant.
LEMMA TasksInit == Team!Init => TasksInv
  BY NoTaskDeskIs DEF Team!Init, TasksInv, Listed, Waits

\* A handler goes on with what it holds, and nothing else moves.
LEMMA GoesOn ==
    ASSUME TasksInv, NEW c \in Callers, NEW d, Team!Goto(c, d), UNCHANGED <<tasks, added>>,
           Waits(d, tasks, added)
    PROVE  TasksInv'
  BY DEF TasksInv, Team!Goto

\* What Change leaves on the desk.
LEMMA ChangeIs ==
    ASSUME TasksInv, NEW c \in Callers, NEW who, NEW i \in DOMAIN tasks, NEW w, IsChange(w),
           Team!Change(c, who, i, w), UNCHANGED <<tasks, added>>
    PROVE  TasksInv'
  <1> DEFINE F == {f \in DOMAIN w : w[f] # tasks[i][f]}
             v == [f \in F |-> w[f]]
             d == [Team!NoDesk EXCEPT !.at = "save", !.who = who, !.index = i, !.task = tasks[i].id, !.change = v]
  <1>1. IsChange(v)
    BY DEF IsChange
  <1> HIDE DEF v
  <1>2. d.at = "save" /\ d.index = i /\ d.task = tasks[i].id /\ d.change = v
    BY DEF Team!NoDesk
  <1> HIDE DEF d
  <1>3. Waits(d, tasks, added)
    BY <1>1, <1>2 DEF Waits
  <1>4. Waits(Team!NoDesk, tasks, added)
    BY NoTaskDeskIs DEF Waits
  <1>5. Team!Goto(c, Team!NoDesk) \/ Team!Goto(c, d)
    BY DEF Team!Change, d, v
  <1> QED  BY <1>3, <1>4, <1>5, GoesOn

\* The change of an assignment,
LEMMA AssignIs ==
    ASSUME NEW v \in {Team!Nobody} \cup Vendors PROVE IsChange(Team!Assign(v))
  BY DEF Team!Assign, IsChange, Assignments

\* of a status,
LEMMA StatusIs == \A s \in {"todo", "done"} : IsChange([status |-> s])
  BY DEF IsChange

\* and of an answer.
LEMMA AnswerIs == \A a \in {"accepted", "declined"} : IsChange([assignment |-> a])
  BY DEF IsChange, Assignments

\* Updating, answering and reporting hold the place they found the task at.
LEMMA LoadsKeep ==
    ASSUME TasksInv, NEW c \in Callers, Team!LoadToUpdate(c) \/ Team!LoadToRespond(c) \/ Team!LoadToWork(c)
    PROVE  TasksInv'
  <1>1. CASE Team!LoadToUpdate(c)
    <2>1. UNCHANGED <<tasks, added>>
      BY <1>1 DEF Team!LoadToUpdate
    <2>2. PICK i \in DOMAIN tasks :
            \/ \E v \in {Team!Nobody} \cup Vendors : Team!Change(c, "organizer", i, Team!Assign(v))
            \/ \E s \in {"todo", "done"} : Team!Change(c, "organizer", i, [status |-> s])
      BY <1>1 DEF Team!LoadToUpdate
    <2> QED  BY <2>1, <2>2, AssignIs, StatusIs, ChangeIs
  <1>2. CASE Team!LoadToRespond(c)
    <2>1. UNCHANGED <<tasks, added>>
      BY <1>2 DEF Team!LoadToRespond
    <2>2. PICK v \in Vendors, i \in DOMAIN tasks, a \in {"accepted", "declined"} :
            Team!Change(c, v, i, [assignment |-> a])
      BY <1>2 DEF Team!LoadToRespond, Team!OwnTasks
    <2> QED  BY <2>1, <2>2, AnswerIs, ChangeIs
  <1>3. CASE Team!LoadToWork(c)
    <2>1. UNCHANGED <<tasks, added>>
      BY <1>3 DEF Team!LoadToWork
    <2>2. PICK v \in Vendors, i \in DOMAIN tasks : Team!Change(c, v, i, [status |-> "done"])
      BY <1>3 DEF Team!LoadToWork, Team!OwnTasks
    <2> QED  BY <2>1, <2>2, StatusIs, ChangeIs
  <1> QED  BY <1>1, <1>2, <1>3

\* The array moved: whoever held a place or an array is refused.
LEMMA MovedKeeps ==
    ASSUME TasksInv, NEW c \in Callers, Team!Moved(c), added' \in Nat, Listed(tasks, added)'
    PROVE  TasksInv'
  <1>1. DOMAIN desk' = Callers /\ \A x \in Callers : desk'[x].at \in {"idle", "conflict"}
    BY NoTaskDeskIs DEF Team!Moved, Team!NoDesk
  <1> QED  BY <1>1 DEF TasksInv, Waits

\* A new task has an id of its own.
LEMMA AddKeeps ==
    ASSUME TasksInv, NEW c \in Callers, Team!AddTask(c) PROVE TasksInv'
  <1> PICK v \in {Team!Nobody} \cup Vendors :
        tasks' = Append(tasks, [Team!NoTask EXCEPT !.id = added + 1, !.vendor = v,
                            !.assignment = IF v = Team!Nobody THEN "unassigned" ELSE "pending"])
    BY DEF Team!AddTask
  <1> DEFINE t == [Team!NoTask EXCEPT !.id = added + 1, !.vendor = v,
                               !.assignment = IF v = Team!Nobody THEN "unassigned" ELSE "pending"]
  <1>0. added + 1 \in Nat /\ (IF v = Team!Nobody THEN "unassigned" ELSE "pending") \in Assignments
    BY DEF TasksInv, Assignments
  <1>1. t \in TaskRows /\ t.id = added + 1
    BY <1>0 DEF Team!NoTask, TaskRows
  <1>2. /\ added \in Nat /\ added' = added + 1 /\ tasks' = Append(tasks, t) /\ Team!Moved(c)
        /\ tasks \in Seq(TaskRows)
    BY DEF Team!AddTask, TasksInv, Listed
  <1> HIDE DEF t
  <1>3. /\ tasks' \in Seq(TaskRows) /\ DOMAIN tasks' = 1..(Len(tasks) + 1)
        /\ DOMAIN tasks = 1..Len(tasks) /\ Len(tasks) \in Nat
        /\ \A i \in DOMAIN tasks : tasks'[i] = tasks[i]
        /\ tasks'[Len(tasks) + 1] = t
    BY <1>1, <1>2
  <1>4. \A i \in DOMAIN tasks : tasks'[i].id \in 1..added
    BY <1>3 DEF TasksInv, Listed
  <1>5. \A i \in DOMAIN tasks' : i \in DOMAIN tasks \/ i = Len(tasks) + 1
    BY <1>3
  <1>6. tasks'[Len(tasks) + 1].id = added + 1
    BY <1>1, <1>3
  <1>7. \A i \in DOMAIN tasks' : tasks'[i].id \in 1..added'
    BY <1>2, <1>4, <1>5, <1>6
  <1>8. \A i, j \in DOMAIN tasks' : tasks'[i].id = tasks'[j].id => i = j
    <2> SUFFICES ASSUME NEW i \in DOMAIN tasks', NEW j \in DOMAIN tasks', tasks'[i].id = tasks'[j].id
                 PROVE  i = j
      OBVIOUS
    <2>1. CASE i \in DOMAIN tasks /\ j \in DOMAIN tasks
      BY <1>3, <2>1 DEF TasksInv, Listed
    <2>2. CASE i \notin DOMAIN tasks \/ j \notin DOMAIN tasks
      BY <1>2, <1>4, <1>5, <1>6, <2>2
    <2> QED  BY <2>1, <2>2
  <1>9. Listed(tasks, added)'
    BY <1>3, <1>7, <1>8 DEF Listed
  <1> QED  BY <1>2, <1>9, MovedKeeps

\* A removal holds the array without the task.
LEMMA LoadToRemoveKeeps ==
    ASSUME TasksInv, NEW c \in Callers, Team!LoadToRemove(c) PROVE TasksInv'
  <1> PICK i \in DOMAIN tasks :
        Team!Goto(c, [Team!NoDesk EXCEPT !.at = "remove", !.task = tasks[i].id, !.rest = Team!RemoveAt(tasks, i)])
    BY DEF Team!LoadToRemove
  <1> DEFINE r == Team!RemoveAt(tasks, i)
             d == [Team!NoDesk EXCEPT !.at = "remove", !.task = tasks[i].id, !.rest = r]
  <1>1. tasks \in Seq(TaskRows) /\ i \in 1..Len(tasks) /\ DOMAIN tasks = 1..Len(tasks)
    BY DEF TasksInv, Listed
  <1>2. /\ r \in Seq(TaskRows) /\ Len(r) = Len(tasks) - 1
        /\ \A j \in 1..Len(r) : r[j] = tasks[IF j < i THEN j ELSE j + 1]
    BY <1>1, RemoveAtIs
  <1>3. d.at = "remove" /\ d.rest = r
    BY DEF Team!NoDesk
  <1> HIDE DEF r, d
  <1>4. Listed(r, added)
    <2>1. DOMAIN r = 1..Len(r) /\ \A j \in 1..Len(r) : (IF j < i THEN j ELSE j + 1) \in DOMAIN tasks
      BY <1>1, <1>2
    <2>2. \A j \in DOMAIN r : r[j].id \in 1..added
      BY <1>2, <2>1 DEF TasksInv, Listed
    <2>3. \A j, k \in DOMAIN r : r[j].id = r[k].id => j = k
      <3> SUFFICES ASSUME NEW j \in DOMAIN r, NEW k \in DOMAIN r, r[j].id = r[k].id PROVE j = k
        OBVIOUS
      <3>1. (IF j < i THEN j ELSE j + 1) = (IF k < i THEN k ELSE k + 1)
        BY <1>2, <2>1 DEF TasksInv, Listed
      <3> QED  BY <1>1, <2>1, <3>1
    <2> QED  BY <1>2, <2>2, <2>3 DEF Listed
  <1>5. Waits(d, tasks, added)
    BY <1>3, <1>4 DEF Waits
  <1> QED  BY <1>5, GoesOn DEF Team!LoadToRemove, d, r

\* The row a save leaves at the place it loaded.
LEMMA SaveIs ==
    ASSUME TasksInv, NEW c \in Callers, Team!Save(c)
    PROVE  LET d == desk[c] IN
           /\ d.index \in DOMAIN tasks /\ tasks[d.index].id = d.task /\ IsChange(d.change)
           /\ tasks \in Seq(TaskRows)
           /\ tasks' = [tasks EXCEPT ![d.index] = Merged(tasks[d.index], d.change)]
           /\ Merged(tasks[d.index], d.change) \in TaskRows
           /\ Merged(tasks[d.index], d.change).id = tasks[d.index].id
  <1> DEFINE d == desk[c]
  <1>1. /\ d.index \in DOMAIN tasks /\ tasks[d.index].id = d.task /\ IsChange(d.change)
        /\ tasks \in Seq(TaskRows)
    BY DEF TasksInv, Waits, Team!Save, Team!At, Listed
  <1>2. tasks' = [tasks EXCEPT ![d.index] = Merged(tasks[d.index], d.change)]
    BY DEF Team!Save, Merged
  <1>3. tasks[d.index] \in TaskRows
    BY <1>1
  <1> QED  BY <1>1, <1>2, <1>3, MergedIs

\* The save.
LEMMA SaveTaskKeeps ==
    ASSUME TasksInv, NEW c \in Callers, Team!Save(c) PROVE TasksInv'
  <1> DEFINE i == desk[c].index
             w == Merged(tasks[i], desk[c].change)
  <1>1. /\ i \in DOMAIN tasks /\ tasks \in Seq(TaskRows) /\ tasks' = [tasks EXCEPT ![i] = w]
        /\ w \in TaskRows /\ w.id = tasks[i].id
    BY SaveIs
  <1> HIDE DEF i, w
  <1>2. /\ tasks' \in Seq(TaskRows) /\ DOMAIN tasks' = DOMAIN tasks
        /\ \A j \in DOMAIN tasks : tasks'[j].id = tasks[j].id
    BY <1>1
  <1>3. Listed(tasks, added)'
    BY <1>2 DEF Listed, TasksInv, Team!Save
  <1>4. \A x \in Callers : desk'[x] = IF x = c THEN Team!NoDesk ELSE desk[x]
    BY DEF Team!Save, Team!Done, Team!Goto, TasksInv
  <1>5. DOMAIN desk' = Callers /\ added' = added /\ added \in Nat
    BY DEF Team!Save, Team!Done, Team!Goto, TasksInv
  <1>6. \A x \in Callers : Waits(desk[x], tasks, added)'
    BY <1>2, <1>4, <1>5, NoTaskDeskIs DEF TasksInv, Waits
  <1> QED  BY <1>3, <1>5, <1>6 DEF TasksInv

\* The removal stores its array and refuses whoever waits.
LEMMA RemoveTaskKeeps ==
    ASSUME TasksInv, NEW c \in Callers, Team!RemoveTask(c) PROVE TasksInv'
  BY MovedKeeps DEF TasksInv, Waits, Team!RemoveTask, Team!At

\* Every step keeps the invariant.
LEMMA TasksStep ==
    ASSUME TasksInv, [Team!Next]_(Team!taskVars) PROVE TasksInv'
  <1>1. CASE UNCHANGED Team!taskVars
    BY <1>1 DEF Team!taskVars, TasksInv
  <1>2. ASSUME NEW c \in Callers, Team!Conflict(c) PROVE TasksInv'
    <2>1. Waits(Team!NoDesk, tasks, added)
      BY NoTaskDeskIs DEF Waits
    <2> QED  BY <1>2, <2>1, GoesOn DEF Team!Conflict, Team!Done
  <1>3. ASSUME NEW v \in Vendors, Team!Unlink(v) PROVE TasksInv'
    BY <1>3 DEF Team!Unlink, TasksInv
  <1>4. CASE Team!Next
    BY <1>2, <1>3, <1>4, AddKeeps, LoadsKeep, LoadToRemoveKeeps, SaveTaskKeeps, RemoveTaskKeeps DEF Team!Next
  <1> QED  BY <1>1, <1>4

\* A save writes the one place that still holds its task.
LEMMA HitsStep ==
    ASSUME TasksInv, [Team!Next]_(Team!taskVars) PROVE [Team!HitsItsTask]_(Team!taskVars)
  <1> SUFFICES ASSUME NEW c \in Callers, Team!At(c, "save"), desk'[c].at = "idle", Team!Next
               PROVE  /\ Len(tasks') = Len(tasks)
                      /\ \A j \in DOMAIN tasks : tasks[j].id # desk[c].task => tasks'[j] = tasks[j]
    BY DEF Team!HitsItsTask, Team!At
  <1>1. ASSUME NEW x \in Callers, NEW d, Team!Goto(x, d), x # c PROVE FALSE
    BY <1>1 DEF Team!Goto, Team!At, TasksInv
  <1>2. ASSUME NEW x \in Callers, Team!Moved(x), x # c PROVE FALSE
    BY <1>2, NoTaskDeskIs DEF Team!Moved, Team!At, Team!NoDesk
  <1>3. ASSUME NEW x \in Callers, \/ Team!AddTask(x) \/ Team!LoadToUpdate(x) \/ Team!LoadToRespond(x)
                                  \/ Team!LoadToWork(x) \/ Team!LoadToRemove(x) \/ Team!RemoveTask(x)
                                  \/ Team!Conflict(x)
        PROVE  FALSE
    <2>1. x # c
      BY <1>3 DEF Team!AddTask, Team!LoadToUpdate, Team!LoadToRespond, Team!LoadToWork, Team!LoadToRemove,
                  Team!RemoveTask, Team!Conflict, Team!At
    <2>2. Team!Moved(x) \/ \E d : Team!Goto(x, d)
      BY <1>3 DEF Team!AddTask, Team!LoadToUpdate, Team!LoadToRespond, Team!LoadToWork, Team!LoadToRemove,
                  Team!RemoveTask, Team!Conflict, Team!Done, Team!Change
    <2> QED  BY <1>1, <1>2, <2>1, <2>2
  <1>4. ASSUME NEW v \in Vendors, Team!Unlink(v) PROVE FALSE
    BY <1>4 DEF Team!Unlink, Team!At
  <1>5. ASSUME NEW x \in Callers, Team!Save(x) PROVE x = c
    BY <1>1, <1>5 DEF Team!Save, Team!Done
  <1>6. Team!Save(c)
    BY <1>3, <1>4, <1>5 DEF Team!Next
  <1> QED
    <2> DEFINE i == desk[c].index
               w == Merged(tasks[i], desk[c].change)
    <2>1. /\ i \in DOMAIN tasks /\ tasks \in Seq(TaskRows) /\ tasks' = [tasks EXCEPT ![i] = w]
          /\ tasks[i].id = desk[c].task /\ w \in TaskRows
      BY <1>6, SaveIs
    <2> HIDE DEF i, w
    <2> QED  BY <2>1

\* However handlers overlap, an update of a task writes that task and no other, though
\* it is saved by its place in the array: the places never move under it (versionKey).
THEOREM UpdatesHitTheirTask == Team!Spec => Team!UpdateHitsItsTask
  <1>1. Team!Init => TasksInv
    BY TasksInit
  <1>2. TasksInv /\ [Team!Next]_(Team!taskVars) => TasksInv'
    BY TasksStep
  <1>3. TasksInv /\ [Team!Next]_(Team!taskVars) => [Team!HitsItsTask]_(Team!taskVars)
    BY HitsStep
  <1> QED  BY <1>1, <1>2, <1>3, PTL DEF Team!Spec, Team!UpdateHitsItsTask

\* What was accepted was accepted by whoever has it.
Answered(ts, a) == \A i \in DOMAIN ts : ts[i].assignment = "accepted" => a[ts[i].id] = ts[i].vendor

\* The same of what a request that waits to save will leave.
Means(d, ts, a) ==
    /\ d.at = "save" =>
         LET t == Merged(ts[d.index], d.change) IN
         t.assignment = "accepted" =>
           (IF [assignment |-> "accepted"] = d.change THEN d.who ELSE a[d.task]) = t.vendor
    /\ d.at = "remove" =>
         Answered(d.rest, a) /\ \A j \in DOMAIN d.rest : d.rest[j].id # d.task

\* The inductive invariant of the answers.
AnswersInv ==
    /\ TasksInv
    /\ added <= MaxTasks /\ MaxTasks \in Nat
    /\ DOMAIN agreed = 1..MaxTasks
    /\ Answered(tasks, agreed)
    /\ \A c \in Callers : Means(desk[c], tasks, agreed)

\* No task, nobody has accepted.
LEMMA AnswersInit ==
    ASSUME Team!TaskAssumption, Team!Init PROVE AnswersInv
  <1>1. TasksInv
    BY TasksInit
  <1> QED  BY <1>1, NoTaskDeskIs DEF Team!TaskAssumption, Team!Init, AnswersInv, Answered, Means

\* A handler goes on with what it holds, and nothing else moves.
LEMMA MeansIt ==
    ASSUME AnswersInv, TasksInv', NEW c \in Callers, NEW d, Team!Goto(c, d),
           UNCHANGED <<tasks, added, agreed>>, Means(d, tasks, agreed)
    PROVE  AnswersInv'
  BY DEF AnswersInv, TasksInv, Team!Goto

\* What Change leaves on the desk, if what it leaves of the task is meant.
LEMMA ChangeMeans ==
    ASSUME AnswersInv, TasksInv', NEW c \in Callers, NEW who, NEW i \in DOMAIN tasks, NEW w, IsChange(w),
           Team!Change(c, who, i, w), UNCHANGED <<tasks, added, agreed>>,
           LET v == [f \in {g \in DOMAIN w : w[g] # tasks[i][g]} |-> w[f]]
               t == Merged(tasks[i], v)
           IN  t.assignment = "accepted" =>
                 (IF [assignment |-> "accepted"] = v THEN who ELSE agreed[tasks[i].id]) = t.vendor
    PROVE  AnswersInv'
  <1> DEFINE F == {f \in DOMAIN w : w[f] # tasks[i][f]}
             v == [f \in F |-> w[f]]
             d == [Team!NoDesk EXCEPT !.at = "save", !.who = who, !.index = i, !.task = tasks[i].id, !.change = v]
  <1>0. LET t == Merged(tasks[i], v)
        IN  t.assignment = "accepted" =>
              (IF [assignment |-> "accepted"] = v THEN who ELSE agreed[tasks[i].id]) = t.vendor
    OBVIOUS
  <1> HIDE DEF v
  <1>2. d.at = "save" /\ d.index = i /\ d.task = tasks[i].id /\ d.change = v /\ d.who = who
    BY DEF Team!NoDesk
  <1> HIDE DEF d
  <1>3. Means(d, tasks, agreed)
    BY <1>0, <1>2 DEF Means
  <1>4. Means(Team!NoDesk, tasks, agreed)
    BY NoTaskDeskIs DEF Means
  <1>5. Team!Goto(c, Team!NoDesk) \/ Team!Goto(c, d)
    BY DEF Team!Change, d, v
  <1> QED  BY <1>3, <1>4, <1>5, MeansIt

\* The merged row has the new answer, or the one it had.
LEMMA MergedHas ==
    ASSUME NEW t \in TaskRows, NEW w, IsChange(w)
    PROVE  LET v == [f \in {g \in DOMAIN w : w[g] # t[g]} |-> w[f]]
           IN  /\ "assignment" \in DOMAIN w => Merged(t, v).assignment = w["assignment"]
               /\ "assignment" \notin DOMAIN w =>
                    Merged(t, v).assignment = t.assignment /\ "assignment" \notin DOMAIN v
               /\ "vendor" \notin DOMAIN w => Merged(t, v).vendor = t.vendor
  BY DEF Merged, TaskRows, IsChange

\* An answer is of a task the sub-vendor has; an assignment asks anew.
LEMMA LoadsMeanIt ==
    ASSUME AnswersInv, NEW c \in Callers, Team!LoadToUpdate(c) \/ Team!LoadToRespond(c) \/ Team!LoadToWork(c)
    PROVE  AnswersInv'
  <1>0. /\ TasksInv' /\ UNCHANGED <<tasks, added, agreed>> /\ Answered(tasks, agreed)
        /\ \A i \in DOMAIN tasks : tasks[i] \in TaskRows
    BY LoadsKeep DEF AnswersInv, TasksInv, Listed, Team!LoadToUpdate, Team!LoadToRespond, Team!LoadToWork
  <1>1. ASSUME NEW v \in {Team!Nobody} \cup Vendors, NEW i \in DOMAIN tasks,
               Team!Change(c, "organizer", i, Team!Assign(v))
        PROVE  AnswersInv'
    <2> DEFINE w == Team!Assign(v)
               u == [f \in {g \in DOMAIN w : w[g] # tasks[i][g]} |-> w[f]]
    <2>1. "assignment" \in DOMAIN w /\ w["assignment"] # "accepted" /\ IsChange(w)
      BY AssignIs DEF Team!Assign
    <2> HIDE DEF w
    <2>2. Merged(tasks[i], u).assignment # "accepted"
      BY <1>0, <2>1, MergedHas
    <2> QED  BY <1>0, <1>1, <2>1, <2>2, ChangeMeans DEF w
  <1>2. ASSUME NEW i \in DOMAIN tasks, NEW s \in {"todo", "done"}, NEW who,
               Team!Change(c, who, i, [status |-> s])
        PROVE  AnswersInv'
    <2> DEFINE w == [status |-> s]
               u == [f \in {g \in DOMAIN w : w[g] # tasks[i][g]} |-> w[f]]
    <2>1. "assignment" \notin DOMAIN w /\ "vendor" \notin DOMAIN w /\ IsChange(w)
      BY StatusIs
    <2> HIDE DEF w
    <2>2. /\ Merged(tasks[i], u).assignment = tasks[i].assignment
          /\ Merged(tasks[i], u).vendor = tasks[i].vendor
          /\ "assignment" \notin DOMAIN u
      BY <1>0, <2>1, MergedHas
    <2>3. [assignment |-> "accepted"] # u
      BY <2>2
    <2>4. tasks[i].assignment = "accepted" => agreed[tasks[i].id] = tasks[i].vendor
      BY <1>0 DEF Answered
    <2> HIDE DEF u
    <2> QED  BY <1>0, <1>2, <2>1, <2>2, <2>3, <2>4, ChangeMeans DEF w, u
  <1>3. ASSUME NEW v \in Vendors, NEW i \in Team!OwnTasks(v), NEW a \in {"accepted", "declined"},
               Team!Change(c, v, i, [assignment |-> a])
        PROVE  AnswersInv'
    <2> DEFINE w == [assignment |-> a]
               u == [f \in {g \in DOMAIN w : w[g] # tasks[i][g]} |-> w[f]]
    <2>0. i \in DOMAIN tasks /\ tasks[i].vendor = v
      BY DEF Team!OwnTasks
    <2>1. DOMAIN w = {"assignment"} /\ w["assignment"] = a /\ IsChange(w)
      BY AnswerIs
    <2> HIDE DEF w
    <2>2. Merged(tasks[i], u).assignment = a /\ Merged(tasks[i], u).vendor = v
      BY <1>0, <2>0, <2>1, MergedHas
    <2>3. CASE a = tasks[i].assignment
      <3>1. a = "accepted" => agreed[tasks[i].id] = v
        BY <1>0, <2>0, <2>3 DEF Answered
      <3> HIDE DEF u
      <3> QED  BY <1>0, <1>3, <2>0, <2>1, <2>2, <3>1, ChangeMeans DEF w, u
    <2>4. CASE a # tasks[i].assignment
      <3>1. a = "accepted" => u = [assignment |-> "accepted"]
        BY <2>1, <2>4
      <3> HIDE DEF u
      <3> QED  BY <1>0, <1>3, <2>0, <2>1, <2>2, <3>1, ChangeMeans DEF w, u
    <2> QED  BY <2>3, <2>4
  <1>4. CASE Team!LoadToUpdate(c)
    BY <1>1, <1>2, <1>4 DEF Team!LoadToUpdate
  <1>5. CASE Team!LoadToRespond(c)
    BY <1>3, <1>5 DEF Team!LoadToRespond
  <1>6. CASE Team!LoadToWork(c)
    <2>1. PICK v \in Vendors, i \in DOMAIN tasks : Team!Change(c, v, i, [status |-> "done"])
      BY <1>6 DEF Team!LoadToWork, Team!OwnTasks
    <2> QED  BY <1>2, <2>1
  <1> QED  BY <1>4, <1>5, <1>6

\* A new task is nobody's answer.
LEMMA AddAnswers ==
    ASSUME AnswersInv, NEW c \in Callers, Team!AddTask(c) PROVE AnswersInv'
  <1> PICK v \in {Team!Nobody} \cup Vendors :
        tasks' = Append(tasks, [Team!NoTask EXCEPT !.id = added + 1, !.vendor = v,
                            !.assignment = IF v = Team!Nobody THEN "unassigned" ELSE "pending"])
    BY DEF Team!AddTask
  <1> DEFINE t == [Team!NoTask EXCEPT !.id = added + 1, !.vendor = v,
                               !.assignment = IF v = Team!Nobody THEN "unassigned" ELSE "pending"]
  <1>1. t.assignment # "accepted"
    BY DEF Team!NoTask
  <1>2. tasks' = Append(tasks, t) /\ tasks \in Seq(TaskRows)
    BY DEF AnswersInv, TasksInv, Listed
  <1> HIDE DEF t
  <1>3. Answered(tasks, agreed)'
    <2>1. UNCHANGED agreed
      BY DEF Team!AddTask
    <2>2. \A i \in DOMAIN tasks' : (i \in DOMAIN tasks /\ tasks'[i] = tasks[i]) \/ tasks'[i] = t
      BY <1>2
    <2> QED  BY <1>1, <2>1, <2>2 DEF Answered, AnswersInv
  <1>4. TasksInv' /\ DOMAIN desk' = Callers /\ \A x \in Callers : desk'[x].at \in {"idle", "conflict"}
    BY AddKeeps, NoTaskDeskIs DEF AnswersInv, Team!AddTask, Team!Moved, Team!NoDesk
  <1>5. added' <= MaxTasks /\ MaxTasks \in Nat /\ DOMAIN agreed' = 1..MaxTasks
    BY DEF AnswersInv, TasksInv, Team!AddTask
  <1> QED  BY <1>3, <1>4, <1>5 DEF AnswersInv, Means

\* A removal keeps every other answer.
LEMMA LoadToRemoveMeans ==
    ASSUME AnswersInv, NEW c \in Callers, Team!LoadToRemove(c) PROVE AnswersInv'
  <1> PICK i \in DOMAIN tasks :
        Team!Goto(c, [Team!NoDesk EXCEPT !.at = "remove", !.task = tasks[i].id, !.rest = Team!RemoveAt(tasks, i)])
    BY DEF Team!LoadToRemove
  <1> DEFINE r == Team!RemoveAt(tasks, i)
             d == [Team!NoDesk EXCEPT !.at = "remove", !.task = tasks[i].id, !.rest = r]
  <1>1. tasks \in Seq(TaskRows) /\ i \in 1..Len(tasks) /\ DOMAIN tasks = 1..Len(tasks)
    BY DEF AnswersInv, TasksInv, Listed
  <1>2. /\ r \in Seq(TaskRows) /\ Len(r) = Len(tasks) - 1
        /\ \A j \in 1..Len(r) : r[j] = tasks[IF j < i THEN j ELSE j + 1]
    BY <1>1, RemoveAtIs
  <1>3. d.at = "remove" /\ d.rest = r /\ d.task = tasks[i].id
    BY DEF Team!NoDesk
  <1> HIDE DEF r, d
  <1>4. \A j \in DOMAIN r : \E k \in DOMAIN tasks : k # i /\ r[j] = tasks[k]
    <2> SUFFICES ASSUME NEW j \in DOMAIN r PROVE \E k \in DOMAIN tasks : k # i /\ r[j] = tasks[k]
      OBVIOUS
    <2>1. j \in 1..Len(r)
      BY <1>2
    <2>2. (IF j < i THEN j ELSE j + 1) \in DOMAIN tasks /\ (IF j < i THEN j ELSE j + 1) # i
      BY <1>1, <1>2, <2>1
    <2> QED  BY <1>2, <2>1, <2>2
  <1>5. Answered(r, agreed)
    BY <1>4 DEF Answered, AnswersInv
  <1>6. \A j \in DOMAIN r : r[j].id # tasks[i].id
    BY <1>4 DEF AnswersInv, TasksInv, Listed
  <1>7. Means(d, tasks, agreed)
    BY <1>3, <1>5, <1>6 DEF Means
  <1>8. TasksInv' /\ UNCHANGED <<tasks, added, agreed>>
    BY LoadToRemoveKeeps DEF AnswersInv, Team!LoadToRemove
  <1> QED  BY <1>7, <1>8, MeansIt DEF d, r

\* With nothing waiting, the answers on the tasks are all there is to show.
LEMMA NothingWaits ==
    ASSUME AnswersInv, TasksInv', added' = added, DOMAIN agreed' = DOMAIN agreed,
           Answered(tasks, agreed)', \A x \in Callers : desk'[x].at \in {"idle", "conflict"}
    PROVE  AnswersInv'
  BY DEF AnswersInv, Means

\* The save leaves what it meant to.
LEMMA SaveAnswers ==
    ASSUME AnswersInv, Team!Alone, NEW c \in Callers, Team!Save(c) PROVE AnswersInv'
  <1> DEFINE d == desk[c]
             i == desk[c].index
             w == Merged(tasks[i], desk[c].change)
  <1>1. /\ i \in DOMAIN tasks /\ tasks \in Seq(TaskRows) /\ tasks' = [tasks EXCEPT ![i] = w]
        /\ tasks[i].id = d.task /\ w.id = d.task
    BY SaveIs DEF AnswersInv
  <1>2. w.assignment = "accepted" =>
          (IF [assignment |-> "accepted"] = d.change THEN d.who ELSE agreed[d.task]) = w.vendor
    BY DEF AnswersInv, Means, Team!Save, Team!At
  <1>3. agreed' = IF [assignment |-> "accepted"] = d.change
                    THEN [agreed EXCEPT ![d.task] = d.who] ELSE agreed
    BY DEF Team!Save
  <1>4. TasksInv' /\ added' = added
    BY SaveTaskKeeps DEF AnswersInv, Team!Save
  <1>5. \A x \in Callers : desk'[x].at \in {"idle", "conflict"}
    BY NoTaskDeskIs DEF Team!Save, Team!Done, Team!Goto, Team!Alone, AnswersInv, TasksInv
  <1>6. d.task \in DOMAIN agreed /\ DOMAIN agreed' = DOMAIN agreed
    BY <1>1, <1>3 DEF AnswersInv, TasksInv, Listed
  <1> HIDE DEF d, i, w
  <1>7. \A j \in DOMAIN tasks : j # i => tasks[j].id # d.task
    BY <1>1 DEF AnswersInv, TasksInv, Listed
  <1>8. DOMAIN tasks' = DOMAIN tasks /\ tasks'[i] = w /\ \A j \in DOMAIN tasks : j # i => tasks'[j] = tasks[j]
    BY <1>1
  <1>9. \A k : k # d.task => agreed'[k] = agreed[k]
    BY <1>3, <1>6
  <1>10. w.assignment = "accepted" => agreed'[d.task] = w.vendor
    BY <1>2, <1>3, <1>6
  <1>11. Answered(tasks, agreed)'
    BY <1>1, <1>7, <1>8, <1>9, <1>10 DEF Answered, AnswersInv
  <1> QED  BY <1>4, <1>5, <1>6, <1>11, NothingWaits

\* The removal forgets the answer with the task.
LEMMA RemoveAnswers ==
    ASSUME AnswersInv, NEW c \in Callers, Team!RemoveTask(c) PROVE AnswersInv'
  <1>1. TasksInv' /\ added' = added
    BY RemoveTaskKeeps DEF AnswersInv, Team!RemoveTask
  <1>2. \A x \in Callers : desk'[x].at \in {"idle", "conflict"}
    BY NoTaskDeskIs DEF Team!RemoveTask, Team!Moved, Team!NoDesk
  <1>3. /\ tasks' = desk[c].rest /\ agreed' = [agreed EXCEPT ![desk[c].task] = Team!Nobody]
        /\ Answered(desk[c].rest, agreed) /\ \A j \in DOMAIN desk[c].rest : desk[c].rest[j].id # desk[c].task
    BY DEF Team!RemoveTask, AnswersInv, Means, Team!At
  <1>4. Answered(tasks, agreed)'
    BY <1>3 DEF Answered
  <1> QED  BY <1>1, <1>2, <1>3, <1>4, NothingWaits

\* Every step keeps the invariant.
LEMMA AnswersStep ==
    ASSUME AnswersInv, Team!Alone, [Team!Next]_(Team!taskVars) PROVE AnswersInv'
  <1>0. TasksInv'
    BY TasksStep DEF AnswersInv
  <1>1. CASE UNCHANGED Team!taskVars
    BY <1>0, <1>1 DEF Team!taskVars, AnswersInv
  <1>2. ASSUME NEW c \in Callers, Team!Conflict(c) PROVE AnswersInv'
    <2>1. Means(Team!NoDesk, tasks, agreed)
      BY NoTaskDeskIs DEF Means
    <2> QED  BY <1>0, <1>2, <2>1, MeansIt DEF Team!Conflict, Team!Done
  <1>3. ASSUME NEW v \in Vendors, Team!Unlink(v) PROVE AnswersInv'
    BY <1>0, <1>3 DEF Team!Unlink, AnswersInv
  <1>4. CASE Team!Next
    BY <1>2, <1>3, <1>4, AddAnswers, LoadsMeanIt, LoadToRemoveMeans, SaveAnswers, RemoveAnswers DEF Team!Next
  <1> QED  BY <1>1, <1>4

\* What the two screens count is the same by what they count.
LEMMA TeamAgrees == Team!TeamAndVendorAgree
  <1> SUFFICES ASSUME NEW v \in linked, NEW completed \in BOOLEAN
               PROVE  LET p == Team!Performance(v, completed) IN
                      /\ Team!TeamStats(v) = [accepted |-> Team!Cardinality(p.accepted), done |-> Team!Cardinality(p.done)]
                      /\ p.accepted \ p.pendingPayout = IF completed THEN p.done ELSE {}
    BY DEF Team!TeamAndVendorAgree
  <1> DEFINE p == Team!Performance(v, completed)
  <1>1. /\ p.accepted = Team!Accepted(v)
        /\ p.done = {i \in Team!Accepted(v) : tasks[i].status = "done"}
        /\ p.pendingPayout = {i \in Team!Accepted(v) : Team!PaymentOf(i, completed) # "paid"}
    BY DEF Team!Performance
  <1>2. Team!TeamStats(v) = [accepted |-> Team!Cardinality(p.accepted), done |-> Team!Cardinality(p.done)]
    BY <1>1 DEF Team!TeamStats
  <1>3. \A i : Team!PaymentOf(i, completed) = "paid" <=> completed /\ tasks[i].status = "done"
    BY DEF Team!PaymentOf
  <1>4. p.accepted \ p.pendingPayout = IF completed THEN p.done ELSE {}
    BY <1>1, <1>3
  <1> QED  BY <1>2, <1>4

\* The invariant holds where handlers do not overlap.
LEMMA AnswersHold ==
    ASSUME Team!TaskAssumption, Team!Alone PROVE Team!Spec => []AnswersInv
  <1>1. Team!Init => AnswersInv
    BY AnswersInit
  <1>2. AnswersInv /\ [Team!Next]_(Team!taskVars) => AnswersInv'
    BY AnswersStep
  <1> QED  BY <1>1, <1>2, PTL DEF Team!Spec

\* The organizer's page of a sub-vendor and the sub-vendor's own count the same tasks,
\* whatever overlaps; and where handlers do not, a task shown as accepted was accepted by
\* whoever it is assigned to (update asks anew when it assigns).
THEOREM TeamStaysHonest ==
    ASSUME Team!TaskAssumption PROVE Team!Spec => []Team!TeamIsHonest
  <1>1. CASE Team!Alone
    <2>1. AnswersInv => Team!TeamIsHonest
      BY TeamAgrees DEF AnswersInv, Answered, Team!TeamIsHonest, Team!AcceptedByTheAssignee
    <2> QED  BY <1>1, <2>1, AnswersHold, PTL
  <1>2. CASE ~Team!Alone
    <2>1. Team!TeamIsHonest
      BY <1>2, TeamAgrees DEF Team!TeamIsHonest
    <2> QED  BY <2>1, PTL
  <1> QED  BY <1>1, <1>2

-----------------------------------------------------------------------------
(* The links to sub-vendors (SubVendors).                                   *)

\* The instance counts a set as this module does.
LEMMA NetCounts ==
    \A S : Net!Cardinality(S) = Cardinality(S) /\ (Net!IsFiniteSet(S) <=> IsFiniteSet(S))
  BY Zenon DEF Net!Cardinality, Cardinality, Net!IsFiniteSet, IsFiniteSet

\* The types of a link, and of a handler.
LinkStates == {"NONE", "PENDING", "ACTIVE", "REMOVED"}
\* A row of the network.
LinkRows ==
    [org : Organizers \cup {"none"}, vendor : BOOLEAN, invited : BOOLEAN, status : LinkStates,
     total : Nat, count : Nat]
\* A handler of the network.
VendorDesks ==
    [at : {"idle", "resolve", "find", "link", "invite", "send", "rate"}, org : Organizers \cup {"none"},
     id : Ids \cup {"none"}, copy : LinkRows]

\* A link that is or may come to be.
Live(r) == r.status \in {"PENDING", "ACTIVE"}

\* A row: empty, or an invitation or a link as its state has it.
Shaped(r) ==
    \/ r = Net!NoLink
    \/ /\ r.org \in Organizers /\ r.status # "NONE" /\ (r.vendor \/ r.invited)
       /\ r.status = "PENDING" => r.invited /\ ~r.vendor
       /\ r.status = "ACTIVE" => r.vendor

\* The rows together; ex: the sub-vendor has signed up; op: its invitations are
\* still being looked for.
Network(ls, ex, op) ==
    /\ ls \in [Ids -> LinkRows] /\ \A l \in Ids : Shaped(ls[l])
    /\ \A l, k \in Ids : ls[l].org = ls[k].org /\ Live(ls[l]) /\ Live(ls[k]) => l = k
    /\ \A l, k \in Ids : ls[l].org = ls[k].org /\ ls[l].vendor /\ ls[k].vendor => l = k
    /\ \A l, k \in Ids : ls[l].vendor => ls[k].status # "PENDING"
    /\ ~ex => \A l \in Ids : ~ls[l].vendor
    /\ ex /\ ~op => \A l \in Ids : ls[l].status # "PENDING"

\* A sub-vendor has signed up and its invitations are being looked for.
Resolving == \E c \in Callers : desk[c].at = "resolve"

\* Where a handler stands, and what it found on its way.
Stands(d) ==
    /\ d.at \in {"resolve", "find", "link"} => profile.exists
    /\ d.at \in {"invite", "send"} => ~profile.exists
    /\ d.at \in {"find", "link", "invite", "send"} => d.org \in Organizers
    /\ d.at = "link" => Net!Between(d.org) = {}
    /\ d.at = "send" => Net!Invites(d.org) = {}
    /\ d.at = "rate" => d.id \in Net!Taken

\* The inductive invariant of a sub-vendor's links.
LinksInv ==
    /\ profile \in [exists : BOOLEAN, active : BOOLEAN, request : BOOLEAN]
    /\ desk \in [Callers -> VendorDesks]
    /\ Network(links, profile.exists, Resolving)
    /\ \A c \in Callers : Stands(desk[c])

\* No link and a handler at rest are of their types.
LEMMA NoLinkIs ==
    /\ Net!NoLink \in LinkRows /\ ~Net!NoLink.vendor /\ ~Net!NoLink.invited /\ Net!NoLink.status = "NONE"
    /\ Net!NoDesk \in VendorDesks /\ Net!NoDesk.at = "idle"
  BY DEF Net!NoLink, Net!NoDesk, LinkRows, LinkStates, VendorDesks

\* No rows satisfy the invariant.
LEMMA LinksInit == Net!Init => LinksInv
  <1> SUFFICES ASSUME Net!Init PROVE LinksInv
    OBVIOUS
  <1>1. /\ links \in [Ids -> LinkRows] /\ \A l \in Ids : links[l] = Net!NoLink
    BY NoLinkIs DEF Net!Init
  <1>2. Network(links, profile.exists, Resolving)
    BY <1>1, NoLinkIs DEF Network, Shaped, Live
  <1>3. profile \in [exists : BOOLEAN, active : BOOLEAN, request : BOOLEAN]
    BY DEF Net!Init, Net!NoProfile
  <1>4. desk \in [Callers -> VendorDesks] /\ \A c \in Callers : desk[c].at = "idle"
    BY NoLinkIs DEF Net!Init
  <1> QED  BY <1>2, <1>3, <1>4 DEF LinksInv, Stands

\* Where handlers do not overlap, the one at work is the only one anywhere.
LEMMA OnlyOne ==
    ASSUME LinksInv, Net!Alone, NEW c \in Callers, NEW d \in VendorDesks, Net!Goto(c, d)
    PROVE  /\ desk' \in [Callers -> VendorDesks] /\ \A x \in Callers : desk'[x] = d
           /\ Resolving' = (d.at = "resolve")
           /\ Resolving = (desk[c].at = "resolve")
  <1>1. desk' \in [Callers -> VendorDesks] /\ \A x \in Callers : desk'[x] = d /\ x = c
    BY DEF LinksInv, Net!Goto, Net!Alone
  <1> QED  BY <1>1 DEF Resolving

\* The handler goes on, the rows as they are.
LEMMA LinkDeskStep ==
    ASSUME LinksInv, Net!Alone, NEW c \in Callers, NEW d \in VendorDesks, Net!Goto(c, d),
           UNCHANGED links, profile' \in [exists : BOOLEAN, active : BOOLEAN, request : BOOLEAN],
           profile.exists => profile'.exists,
           profile'.exists /\ ~profile.exists => d.at = "resolve",
           desk[c].at = "resolve" => d.at = "resolve",
           Stands(d)'
    PROVE  LinksInv'
  <1>1. desk' \in [Callers -> VendorDesks] /\ \A x \in Callers : desk'[x] = d
    BY OnlyOne
  <1>2. Network(links', profile'.exists, Resolving')
    <2>1. Resolving => Resolving'
      BY OnlyOne
    <2>2. profile'.exists /\ ~profile.exists => Resolving'
      BY OnlyOne
    <2> QED  BY <2>1, <2>2 DEF LinksInv, Network
  <1> QED  BY <1>1, <1>2 DEF LinksInv

\* The handler writes the rows and is done, or goes on to look for its link.
LEMMA RowsStep ==
    ASSUME LinksInv, Net!Alone, NEW c \in Callers, NEW d \in VendorDesks, Net!Goto(c, d), UNCHANGED profile,
           d.at = "idle" \/ (d.at = "find" /\ profile.exists /\ d.org \in Organizers),
           Network(links', profile.exists, FALSE)
    PROVE  LinksInv'
  <1>1. desk' \in [Callers -> VendorDesks] /\ \A x \in Callers : desk'[x] = d
    BY OnlyOne
  <1>2. Resolving' = FALSE
    BY OnlyOne
  <1>3. Stands(d)'
    BY DEF Stands
  <1> QED  BY <1>1, <1>2, <1>3 DEF LinksInv

\* Signing up makes the profile before the invitations are looked for.
LEMMA OnboardKeeps ==
    ASSUME LinksInv, Net!Alone, NEW c \in Callers, Net!Onboard(c) PROVE LinksInv'
  <1> PICK o \in Organizers \cup {"none"}, other \in BOOLEAN :
         /\ profile' = IF profile.exists THEN profile
                       ELSE [exists |-> TRUE, active |-> TRUE, request |-> other]
         /\ Net!Goto(c, [Net!NoDesk EXCEPT !.at = "resolve", !.org = o])
    BY DEF Net!Onboard
  <1> DEFINE d == [Net!NoDesk EXCEPT !.at = "resolve", !.org = o]
  <1>1. d \in VendorDesks /\ d.at = "resolve" /\ Net!Goto(c, d)
    BY NoLinkIs DEF VendorDesks
  <1>2. /\ profile' \in [exists : BOOLEAN, active : BOOLEAN, request : BOOLEAN] /\ profile'.exists
        /\ UNCHANGED links
    BY DEF LinksInv, Net!Onboard
  <1> HIDE DEF d
  <1>3. Stands(d)'
    BY <1>1, <1>2 DEF Stands
  <1> QED  BY <1>1, <1>2, <1>3, LinkDeskStep

\* Resolving turns every open invitation into a link.
LEMMA ResolveKeeps ==
    ASSUME LinksInv, Net!Alone, NEW c \in Callers, Net!ResolveInvites(c) PROVE LinksInv'
  <1>1. profile.exists /\ desk[c].at = "resolve" /\ desk[c] \in VendorDesks
    BY DEF LinksInv, Stands, Net!ResolveInvites, Net!At
  <1>2. Network(links, TRUE, TRUE)
    BY <1>1 DEF LinksInv, Network
  <1>3. \A l \in Ids : l \in Net!Waiting <=> links[l].status = "PENDING"
    BY <1>2, NoLinkIs DEF Net!Waiting, Net!Taken, Network, Shaped
  <1>4. \A l \in Ids : links'[l] = IF links[l].status = "PENDING"
                                     THEN [links[l] EXCEPT !.vendor = TRUE, !.status = "ACTIVE"] ELSE links[l]
    BY <1>3 DEF Net!ResolveInvites
  <1>5. \A l \in Ids : links[l] \in LinkRows /\ Shaped(links[l])
    BY <1>2 DEF Network
  <1>6. ASSUME NEW l \in Ids
        PROVE  /\ links'[l] \in LinkRows /\ links'[l].org = links[l].org /\ links'[l].status # "PENDING"
               /\ links'[l].vendor = (links[l].vendor \/ links[l].status = "PENDING")
               /\ Live(links'[l]) = Live(links[l])
    <2>1. CASE links[l].status = "PENDING"
      <3> DEFINE r == links[l]
                 q == [r EXCEPT !.vendor = TRUE, !.status = "ACTIVE"]
      <3>1. r \in LinkRows /\ links'[l] = q
        BY <1>4, <1>5, <2>1
      <3> HIDE DEF r
      <3>2. q \in LinkRows /\ q.org = r.org /\ q.status = "ACTIVE"
        BY <3>1 DEF LinkRows, LinkStates
      <3>3. q.vendor = TRUE
        BY <3>1 DEF LinkRows
      <3>4. Live(q) = TRUE /\ Live(links[l]) = TRUE
        BY <2>1, <3>2 DEF Live
      <3> QED  BY <2>1, <3>1, <3>2, <3>3, <3>4 DEF r
    <2>2. CASE links[l].status # "PENDING"
      BY <1>4, <1>5, <2>2 DEF LinkRows
    <2> QED  BY <2>1, <2>2
  <1>7. ASSUME NEW l \in Ids PROVE Shaped(links'[l])
    <2>1. CASE links[l].status = "PENDING"
      <3>1. links[l].org \in Organizers /\ links'[l] = [links[l] EXCEPT !.vendor = TRUE, !.status = "ACTIVE"]
        BY <1>4, <1>5, <2>1, NoLinkIs DEF Shaped
      <3> QED  BY <1>5, <3>1 DEF Shaped, LinkRows
    <2>2. CASE links[l].status # "PENDING"
      BY <1>4, <1>5, <2>2
    <2> QED  BY <2>1, <2>2
  <1>8. DOMAIN links' = Ids /\ links' \in [Ids -> LinkRows]
    BY <1>6 DEF Net!ResolveInvites
  <1>9. \A l, k \in Ids : links'[l].org = links'[k].org /\ Live(links'[l]) /\ Live(links'[k]) => l = k
    BY <1>2, <1>6 DEF Network
  <1>10. \A l, k \in Ids : links'[l].org = links'[k].org /\ links'[l].vendor /\ links'[k].vendor => l = k
    BY <1>2, <1>6 DEF Network, Live
  <1>11. Network(links', profile.exists, FALSE)
    BY <1>1, <1>6, <1>7, <1>8, <1>9, <1>10 DEF Network
  <1>12. UNCHANGED profile
    BY DEF Net!ResolveInvites
  <1>13. CASE desk[c].org = "none"
    BY <1>11, <1>12, <1>13, NoLinkIs, RowsStep DEF Net!ResolveInvites, Net!Done
  <1>14. CASE desk[c].org # "none"
    <2> DEFINE d == [desk[c] EXCEPT !.at = "find"]
    <2>1. d \in VendorDesks /\ d.at = "find" /\ d.org \in Organizers
      BY <1>1, <1>14 DEF VendorDesks
    <2>2. Net!Goto(c, d)
      BY <1>14 DEF Net!ResolveInvites
    <2> HIDE DEF d
    <2> QED  BY <1>1, <1>11, <1>12, <2>1, <2>2, RowsStep
  <1> QED  BY <1>13, <1>14

\* A row of the organizer o for the sub-vendor or for an invitation is written.
LEMMA NewRowIs ==
    ASSUME NEW o \in Organizers, NEW vendor \in BOOLEAN, NEW l \in Ids
    PROVE  LET f == IF vendor THEN "vendor" ELSE "invited"
               s == IF vendor THEN "ACTIVE" ELSE "PENDING"
               r == [[Net!NoLink EXCEPT ![f] = TRUE] EXCEPT !.org = o, !.status = s]
           IN  /\ r \in LinkRows /\ Shaped(r) /\ r.org = o /\ r.status = s
               /\ r.vendor = vendor
  BY DEF Net!NoLink, LinkRows, LinkStates, Shaped

\* What the invariant says of one row.
LEMMA TakenIs ==
    ASSUME LinksInv, NEW l \in Ids
    PROVE  /\ Live(links[l]) \/ links[l].vendor => l \in Net!Taken
           /\ l \in Net!Taken => Shaped(links[l]) /\ links[l].org \in Organizers
                                  /\ (links[l].vendor \/ links[l].invited)
           /\ links[l] \in LinkRows
  BY NoLinkIs DEF Net!Taken, LinksInv, Network, Shaped, Live

\* linkActive revives the row of before,
LEMMA FindKeeps ==
    ASSUME LinksInv, Net!Alone, NEW c \in Callers, Net!FindLink(c) PROVE LinksInv'
  <1>1. /\ profile.exists /\ desk[c].at = "find" /\ desk[c] \in VendorDesks /\ UNCHANGED profile
        /\ desk[c].org \in Organizers
    BY DEF LinksInv, Stands, Net!FindLink, Net!At
  <1>2. Network(links, TRUE, FALSE)
    <2>1. ~Resolving
      BY <1>1, NoLinkIs DEF Resolving, Net!Alone
    <2> QED  BY <1>1, <2>1 DEF LinksInv, Network
  <1>3. CASE Net!Between(desk[c].org) = {}
    <2>0. PICK d \in VendorDesks : d = [desk[c] EXCEPT !.at = "link"]
      BY <1>1 DEF VendorDesks
    <2>1. /\ d.at = "link" /\ d.org = desk[c].org /\ Net!Goto(c, d) /\ UNCHANGED links
      BY <1>1, <1>3, <2>0 DEF VendorDesks, Net!FindLink
    <2>2. Net!Between(d.org)' = {}
      BY <1>3, <2>1 DEF Net!Between, Net!Taken
    <2>3. Stands(d)'
      BY <1>1, <2>1, <2>2 DEF Stands
    <2>4. profile' \in [exists : BOOLEAN, active : BOOLEAN, request : BOOLEAN]
      BY <1>1 DEF LinksInv
    <2> QED  BY <1>1, <2>1, <2>3, <2>4, LinkDeskStep
  <1>4. CASE Net!Between(desk[c].org) # {}
    <2>1. PICK l \in Net!Between(desk[c].org) : links' = [links EXCEPT ![l].status = "ACTIVE"] /\ Net!Done(c)
      BY <1>4 DEF Net!FindLink
    <2> DEFINE r == [links[l] EXCEPT !.status = "ACTIVE"]
    <2>2. /\ l \in Ids /\ l \in Net!Taken /\ links[l].vendor /\ links[l].org = desk[c].org
          /\ links[l] \in LinkRows /\ links[l].org \in Organizers
      BY TakenIs DEF Net!Between, Net!Taken
    <2>3. r \in LinkRows /\ r.org = links[l].org /\ r.status = "ACTIVE"
      BY <2>2 DEF LinkRows, LinkStates
    <2>4. r.vendor = TRUE
      BY <2>2 DEF LinkRows
    <2>5. Shaped(r)
      BY <2>2, <2>3, <2>4 DEF Shaped
    <2>6. /\ links' \in [Ids -> LinkRows] /\ links'[l] = r
          /\ \A k \in Ids : k # l => links'[k] = links[k]
      BY <1>2, <2>1, <2>2, <2>3 DEF Network
    <2> HIDE DEF r
    <2>7. Network(links', TRUE, FALSE)
      <3>1. \A k \in Ids : Live(links[k]) => links[k].vendor
        BY <1>2, NoLinkIs DEF Network, Shaped, Live
      <3>2. \A k, j \in Ids : links'[k].org = links'[j].org /\ Live(links'[k]) /\ Live(links'[j]) => k = j
        BY <1>2, <2>2, <2>3, <2>6, <3>1 DEF Network
      <3>3. \A k, j \in Ids : links'[k].org = links'[j].org /\ links'[k].vendor /\ links'[j].vendor => k = j
        BY <1>2, <2>2, <2>3, <2>6 DEF Network
      <3> QED  BY <1>2, <2>3, <2>5, <2>6, <3>2, <3>3 DEF Network
    <2> QED  BY <1>1, <2>1, <2>7, NoLinkIs, RowsStep DEF Net!Done
  <1> QED  BY <1>3, <1>4

\* or makes one when there was none.
LEMMA CreateLinkKeeps ==
    ASSUME LinksInv, Net!Alone, NEW c \in Callers, Net!CreateLink(c) PROVE LinksInv'
  <1>1. /\ profile.exists /\ desk[c].at = "link" /\ UNCHANGED profile
        /\ desk[c].org \in Organizers /\ Net!Between(desk[c].org) = {}
    BY DEF LinksInv, Stands, Net!CreateLink, Net!At
  <1>2. Network(links, TRUE, FALSE)
    <2>1. ~Resolving
      BY <1>1 DEF Resolving, Net!Alone
    <2> QED  BY <1>1, <2>1 DEF LinksInv, Network
  <1>3. PICK l \in Ids \ Net!Taken : Net!Link(l, desk[c].org, "vendor", "ACTIVE")
    BY DEF Net!CreateLink
  <1> DEFINE r == [[Net!NoLink EXCEPT !["vendor"] = TRUE] EXCEPT !.org = desk[c].org, !.status = "ACTIVE"]
  <1>4. r \in LinkRows /\ Shaped(r) /\ r.org = desk[c].org /\ r.status = "ACTIVE" /\ r.vendor = TRUE
    BY <1>1, <1>3, NewRowIs
  <1>5. /\ links' \in [Ids -> LinkRows] /\ links'[l] = r
        /\ \A k \in Ids : k # l => links'[k] = links[k]
    BY <1>2, <1>3, <1>4 DEF Network, Net!Link
  <1> HIDE DEF r
  <1>6. \A k \in Ids : links[k].org = desk[c].org => ~links[k].vendor /\ ~Live(links[k])
    <2>1. \A k \in Ids : Live(links[k]) => links[k].vendor
      BY <1>2, NoLinkIs DEF Network, Shaped, Live
    <2> QED  BY <1>1, <2>1, TakenIs DEF Net!Between
  <1>7. \A k, j \in Ids : links'[k].org = links'[j].org /\ Live(links'[k]) /\ Live(links'[j]) => k = j
    BY <1>2, <1>4, <1>5, <1>6 DEF Network
  <1>8. \A k, j \in Ids : links'[k].org = links'[j].org /\ links'[k].vendor /\ links'[j].vendor => k = j
    BY <1>2, <1>4, <1>5, <1>6 DEF Network
  <1>9. Network(links', TRUE, FALSE)
    BY <1>2, <1>4, <1>5, <1>7, <1>8 DEF Network
  <1> QED  BY <1>1, <1>9, NoLinkIs, RowsStep DEF Net!Done, Net!CreateLink

\* Inviting looks for the sub-vendor, then for an invitation.
LEMMA InviteKeeps ==
    ASSUME LinksInv, Net!Alone, NEW c \in Callers, Net!Invite(c) \/ Net!FindInvite(c) PROVE LinksInv'
  <1>0. /\ UNCHANGED <<links, profile>> /\ desk[c] \in VendorDesks /\ Stands(desk[c])
        /\ desk[c].at # "resolve"
        /\ profile' \in [exists : BOOLEAN, active : BOOLEAN, request : BOOLEAN]
    BY DEF Net!Invite, Net!FindInvite, Net!At, LinksInv
  <1>1. CASE Net!Invite(c)
    <2>1. PICK o \in Organizers :
           Net!Goto(c, [Net!NoDesk EXCEPT !.at = IF profile.exists THEN "find" ELSE "invite", !.org = o])
      BY <1>1 DEF Net!Invite
    <2>0. PICK d \in VendorDesks :
            d = [Net!NoDesk EXCEPT !.at = IF profile.exists THEN "find" ELSE "invite", !.org = o]
      BY NoLinkIs DEF VendorDesks
    <2>2. d.org = o /\ d.at = (IF profile.exists THEN "find" ELSE "invite") /\ Net!Goto(c, d)
      BY <2>0, <2>1, NoLinkIs DEF VendorDesks
    <2>3. Stands(d)'
      BY <1>0, <2>2 DEF Stands
    <2>4. d.at # "resolve"
      BY <2>2
    <2> QED  BY <1>0, <2>2, <2>3, <2>4, LinkDeskStep
  <1>2. CASE Net!FindInvite(c) /\ Net!Invites(desk[c].org) = {}
    <2>0. PICK d \in VendorDesks : d = [desk[c] EXCEPT !.at = "send"]
      BY <1>0 DEF VendorDesks
    <2>1. d.org = desk[c].org /\ d.at = "send" /\ desk[c].at = "invite" /\ Net!Goto(c, d)
      BY <1>0, <1>2, <2>0 DEF VendorDesks, Net!FindInvite, Net!At
    <2>2. Net!Invites(d.org)' = {}
      BY <1>0, <1>2, <2>1 DEF Net!Invites, Net!Taken
    <2>3. Stands(d)'
      BY <1>0, <2>1, <2>2 DEF Stands
    <2> QED  BY <1>0, <2>1, <2>3, LinkDeskStep
  <1>3. CASE Net!FindInvite(c) /\ Net!Invites(desk[c].org) # {}
    <2>1. Stands(Net!NoDesk)'
      BY NoLinkIs DEF Stands
    <2> QED  BY <1>0, <1>3, <2>1, NoLinkIs, LinkDeskStep DEF Net!FindInvite, Net!Done
  <1> QED  BY <1>1, <1>2, <1>3

\* A new invitation is made when none was found.
LEMMA SendKeeps ==
    ASSUME LinksInv, Net!Alone, NEW c \in Callers, Net!SendInvite(c) PROVE LinksInv'
  <1>1. /\ ~profile.exists /\ desk[c].at = "send" /\ UNCHANGED profile
        /\ desk[c].org \in Organizers /\ Net!Invites(desk[c].org) = {}
    BY DEF LinksInv, Stands, Net!SendInvite, Net!At
  <1>2. Network(links, FALSE, FALSE)
    BY <1>1 DEF LinksInv, Network
  <1>3. PICK l \in Ids \ Net!Taken : Net!Link(l, desk[c].org, "invited", "PENDING")
    BY DEF Net!SendInvite
  <1> DEFINE r == [[Net!NoLink EXCEPT !["invited"] = TRUE] EXCEPT !.org = desk[c].org, !.status = "PENDING"]
  <1>4. r \in LinkRows /\ Shaped(r) /\ r.org = desk[c].org /\ r.status = "PENDING" /\ r.vendor = FALSE
    BY <1>1, <1>3, NewRowIs
  <1>5. /\ links' \in [Ids -> LinkRows] /\ links'[l] = r
        /\ \A k \in Ids : k # l => links'[k] = links[k]
    BY <1>2, <1>3, <1>4 DEF Network, Net!Link
  <1> HIDE DEF r
  <1>6. \A k \in Ids : ~links[k].vendor /\ ~links'[k].vendor
    BY <1>2, <1>4, <1>5 DEF Network
  <1>7. \A k \in Ids : links[k].org = desk[c].org => ~Live(links[k])
    <2>1. \A k \in Ids : Live(links[k]) => links[k].invited /\ links[k].status # "REMOVED" /\ k \in Net!Taken
      BY <1>6, TakenIs DEF Live
    <2> QED  BY <1>1, <2>1 DEF Net!Invites
  <1>8. \A k, j \in Ids : links'[k].org = links'[j].org /\ Live(links'[k]) /\ Live(links'[j]) => k = j
    BY <1>2, <1>4, <1>5, <1>7 DEF Network
  <1>9. Network(links', profile.exists, FALSE)
    BY <1>1, <1>2, <1>4, <1>5, <1>6, <1>8 DEF Network
  <1> QED  BY <1>1, <1>9, NoLinkIs, RowsStep DEF Net!Done, Net!SendInvite

\* Removing ends the link and keeps the row.
LEMMA RemoveLinkKeeps ==
    ASSUME LinksInv, Net!Alone, NEW c \in Callers, Net!Remove(c) PROVE LinksInv'
  <1>1. PICK l \in Net!Taken : links' = [links EXCEPT ![l].status = "REMOVED"]
    BY DEF Net!Remove
  <1> DEFINE r == [links[l] EXCEPT !.status = "REMOVED"]
  <1>2. /\ l \in Ids /\ links[l] \in LinkRows /\ links[l].org \in Organizers
        /\ (links[l].vendor \/ links[l].invited) /\ UNCHANGED <<profile, desk>>
    BY TakenIs DEF Net!Taken, Net!Remove
  <1>3. /\ r \in LinkRows /\ r.org = links[l].org /\ r.status = "REMOVED" /\ r.invited = links[l].invited
    BY <1>2 DEF LinkRows, LinkStates
  <1>4. r.vendor = links[l].vendor
    BY <1>2 DEF LinkRows
  <1>5. Shaped(r) /\ ~Live(r)
    BY <1>2, <1>3, <1>4 DEF Shaped, Live
  <1>6. Network(links, profile.exists, Resolving)
    BY DEF LinksInv
  <1>7. /\ links' \in [Ids -> LinkRows] /\ links'[l] = r
        /\ \A k \in Ids : k # l => links'[k] = links[k]
    BY <1>1, <1>2, <1>3, <1>6 DEF Network
  <1> HIDE DEF r
  <1>8. \A k, j \in Ids : links'[k].org = links'[j].org /\ Live(links'[k]) /\ Live(links'[j]) => k = j
    BY <1>5, <1>6, <1>7 DEF Network
  <1>9. \A k \in Ids : links'[k].org = links[k].org /\ links'[k].vendor = links[k].vendor
    BY <1>3, <1>4, <1>7
  <1>10. \A k, j \in Ids : links'[k].org = links'[j].org /\ links'[k].vendor /\ links'[j].vendor => k = j
    BY <1>6, <1>9 DEF Network
  <1>11. Network(links', profile.exists, Resolving)
    BY <1>3, <1>5, <1>6, <1>7, <1>8, <1>9, <1>10 DEF Network
  <1>12. desk[c].at = "idle" /\ \A x \in Callers : desk[x].at = "idle"
    BY DEF Net!Remove, Net!At, Net!Alone
  <1>13. Resolving' = Resolving
    BY <1>2 DEF Resolving
  <1> QED  BY <1>2, <1>11, <1>12, <1>13 DEF LinksInv, Stands

\* A rating starts from a row that is there.
LEMMA RateKeeps ==
    ASSUME LinksInv, Net!Alone, NEW c \in Callers, Net!Rate(c) PROVE LinksInv'
  <1>1. PICK l \in Net!Taken : Net!Goto(c, [Net!NoDesk EXCEPT !.at = "rate", !.id = l, !.copy = links[l]])
    BY DEF Net!Rate
  <1>2. links[l] \in LinkRows /\ l \in Ids
    BY TakenIs DEF Net!Taken
  <1>0. PICK d \in VendorDesks : d = [Net!NoDesk EXCEPT !.at = "rate", !.id = l, !.copy = links[l]]
    BY <1>2, NoLinkIs DEF VendorDesks
  <1>3. d.at = "rate" /\ d.id = l /\ Net!Goto(c, d)
    BY <1>0, <1>1, NoLinkIs DEF VendorDesks
  <1>4. /\ UNCHANGED <<links, profile>> /\ desk[c].at # "resolve" /\ Net!Taken' = Net!Taken
        /\ profile' \in [exists : BOOLEAN, active : BOOLEAN, request : BOOLEAN]
    BY DEF Net!Rate, Net!At, Net!Taken, LinksInv
  <1>5. Stands(d)'
    BY <1>3, <1>4 DEF Stands
  <1> QED  BY <1>3, <1>4, <1>5, LinkDeskStep

\* The rating counts on the row.
LEMMA SaveRatingKeeps ==
    ASSUME LinksInv, Net!SubVendorAssumption, Net!Alone, NEW c \in Callers, Net!SaveRating(c) PROVE LinksInv'
  <1> DEFINE l == desk[c].id
  <1>1. PICK s \in Stars :
          links' = [links EXCEPT ![l].total = desk[c].copy.total + s, ![l].count = desk[c].copy.count + 1]
    BY DEF Net!SaveRating
  <1>2. /\ l \in Ids /\ l \in Net!Taken /\ links[l] \in LinkRows /\ links[l].org \in Organizers
        /\ (links[l].vendor \/ links[l].invited) /\ Shaped(links[l])
    BY TakenIs DEF Net!Taken, Net!SaveRating, LinksInv, Stands, Net!At
  <1>3. /\ desk[c].at = "rate" /\ UNCHANGED profile /\ desk[c].copy \in LinkRows /\ ~Resolving
    <2>1. desk[c].at = "rate" /\ UNCHANGED profile /\ desk[c] \in VendorDesks
      BY DEF Net!SaveRating, Net!At, LinksInv
    <2>2. \A x \in Callers : desk[x].at = "rate"
      BY <2>1 DEF Net!Alone
    <2> QED  BY <2>1, <2>2 DEF VendorDesks, Resolving
  <1>4. desk[c].copy.total + s \in Nat /\ desk[c].copy.count + 1 \in Nat
    <2>1. desk[c].copy.total \in Nat /\ desk[c].copy.count \in Nat
      BY <1>3 DEF LinkRows
    <2>2. s \in 1..5
      BY DEF Net!SubVendorAssumption
    <2> QED  BY <2>1, <2>2
  <1> DEFINE r == [links[l] EXCEPT !.total = desk[c].copy.total + s, !.count = desk[c].copy.count + 1]
  <1>5. /\ r \in LinkRows /\ r.org = links[l].org /\ r.status = links[l].status
        /\ r.invited = links[l].invited
    BY <1>2, <1>4 DEF LinkRows
  <1>6. r.vendor = links[l].vendor
    BY <1>2, <1>4 DEF LinkRows
  <1>7. Shaped(r) /\ Live(r) = Live(links[l])
    BY <1>2, <1>5, <1>6, NoLinkIs DEF Shaped, Live
  <1>8. Network(links, profile.exists, FALSE)
    BY <1>3 DEF LinksInv, Network
  <1>9. /\ links' \in [Ids -> LinkRows] /\ links'[l] = r
        /\ \A k \in Ids : k # l => links'[k] = links[k]
    BY <1>1, <1>2, <1>5, <1>8 DEF Network
  <1> HIDE DEF r, l
  <1>10. \A k \in Ids : /\ links'[k].org = links[k].org /\ links'[k].vendor = links[k].vendor
                        /\ links'[k].status = links[k].status /\ Live(links'[k]) = Live(links[k])
                        /\ Shaped(links'[k])
    BY <1>5, <1>6, <1>7, <1>8, <1>9 DEF Network
  <1>11. Network(links', profile.exists, FALSE)
    BY <1>8, <1>9, <1>10 DEF Network
  <1> QED  BY <1>3, <1>11, NoLinkIs, RowsStep DEF Net!Done, Net!SaveRating

\* The sub-vendor opens and closes its profile.
LEMMA ProfileKeeps ==
    ASSUME LinksInv, NEW c \in Callers, Net!SetActive(c) \/ Net!ResolveCategoryRequest(c) PROVE LinksInv'
  <1>1. /\ profile' \in [exists : BOOLEAN, active : BOOLEAN, request : BOOLEAN]
        /\ profile'.exists = profile.exists /\ UNCHANGED <<links, desk>>
    BY DEF LinksInv, Net!SetActive, Net!ResolveCategoryRequest
  <1>2. Net!Taken' = Net!Taken /\ Resolving' = Resolving
        /\ \A o : Net!Between(o)' = Net!Between(o) /\ Net!Invites(o)' = Net!Invites(o)
    BY <1>1 DEF Net!Taken, Resolving, Net!Between, Net!Invites
  <1>3. \A x \in Callers : Stands(desk[x])'
    BY <1>1, <1>2 DEF LinksInv, Stands
  <1> QED  BY <1>1, <1>2, <1>3 DEF LinksInv

\* Every step keeps the invariant.
LEMMA LinksStep ==
    ASSUME LinksInv, Net!SubVendorAssumption, Net!Alone, [Net!Next]_(Net!subVendorVars) PROVE LinksInv'
  <1>1. CASE UNCHANGED Net!subVendorVars
    <2>1. UNCHANGED <<links, profile, desk>>
      BY <1>1 DEF Net!subVendorVars
    <2>2. \A o : Net!Between(o)' = Net!Between(o) /\ Net!Invites(o)' = Net!Invites(o) /\ Net!Taken' = Net!Taken
      BY <2>1 DEF Net!Taken, Net!Between, Net!Invites
    <2>3. \A x \in Callers : Stands(desk[x])'
      BY <2>1, <2>2 DEF LinksInv, Stands
    <2>4. Resolving' = Resolving
      BY <2>1 DEF Resolving
    <2> QED  BY <2>1, <2>3, <2>4 DEF LinksInv
  <1>2. CASE Net!Next
    BY <1>2, OnboardKeeps, ResolveKeeps, InviteKeeps, FindKeeps, CreateLinkKeeps, SendKeeps, RemoveLinkKeeps,
       RateKeeps, SaveRatingKeeps, ProfileKeeps DEF Net!Next
  <1> QED  BY <1>1, <1>2

\* The links that count are as many as the organizers they are of.
LEMMA CountsAgree ==
    ASSUME LinksInv, Net!SubVendorAssumption
    PROVE  Net!OrganizerCount = Net!Cardinality({o \in Organizers : Net!AssertLinked(o)})
  <1> DEFINE S == {l \in Net!Taken : links[l].vendor /\ links[l].status = "ACTIVE"}
             T == {o \in Organizers : Net!AssertLinked(o)}
             f == [l \in S |-> links[l].org]
  <1>1. S \subseteq Ids /\ IsFiniteSet(S)
    BY NetCounts, FS_Subset DEF Net!Taken, Net!SubVendorAssumption
  <1>2. \A l \in S : links[l].org \in T
    BY TakenIs DEF Net!Taken, Net!AssertLinked, Net!ActiveLinksFor, Net!Between
  <1>3. f \in [S -> T]
    BY <1>2
  <1>4. \A l, k \in S : f[l] = f[k] => l = k
    BY DEF LinksInv, Network, Net!Taken
  <1>5. \A o \in T : \E l \in S : f[l] = o
    BY DEF Net!AssertLinked, Net!ActiveLinksFor, Net!Between
  <1> HIDE DEF f
  <1>6. f \in Bijection(S, T)
    BY <1>3, <1>4, <1>5, Fun_IsBij
  <1>7. Cardinality(T) = Cardinality(S)
    BY <1>1, <1>6, FS_Bijection DEF ExistsBijection
  <1> QED  BY <1>7, NetCounts DEF Net!OrganizerCount

\* An organizer lists a sub-vendor once.
LEMMA ListedOnce ==
    ASSUME LinksInv, NEW o \in Organizers PROVE Net!Cardinality(Net!ListForOrganizer(o)) <= 1
  <1> DEFINE L == Net!ListForOrganizer(o)
  <1>1. \A l, k \in L : l = k
    <2>1. \A l \in L : l \in Ids /\ links[l].org = o /\ Live(links[l])
      BY TakenIs, NoLinkIs DEF Net!ListForOrganizer, Net!Taken, Live, LinksInv, Network, LinkRows, LinkStates, Shaped
    <2> QED  BY <2>1 DEF LinksInv, Network
  <1>2. CASE L = {}
    BY <1>2, FS_EmptySet, NetCounts
  <1>3. CASE L # {}
    <2>1. PICK l \in L : TRUE
      BY <1>3
    <2>2. L = {l}
      BY <1>1, <2>1
    <2>3. Cardinality({l}) = 1
      BY FS_Singleton
    <2>4. Net!Cardinality(L) = 1
      BY <2>2, <2>3, NetCounts
    <2> QED  BY <2>4
  <1> QED  BY <1>2, <1>3

\* The invariant holds where handlers do not overlap.
LEMMA LinksHold ==
    ASSUME Net!SubVendorAssumption, Net!Alone PROVE Net!Spec => []LinksInv
  <1>1. Net!Init => LinksInv
    BY LinksInit
  <1>2. LinksInv /\ [Net!Next]_(Net!subVendorVars) => LinksInv'
    BY LinksStep
  <1> QED  BY <1>1, <1>2, PTL DEF Net!Spec

\* Where handlers do not overlap, an organizer has one live link to a sub-vendor, and no
\* invitation stays open once the sub-vendor has signed up (resolveInvites, linkActive).
THEOREM LinksStaySettled ==
    ASSUME Net!SubVendorAssumption PROVE Net!Spec => []Net!LinksAreSettled
  <1>1. CASE Net!Alone
    <2>1. LinksInv => Net!LinksAreSettled
      <3> SUFFICES ASSUME LinksInv PROVE Net!OneLinkPerOrganizer /\ Net!NoInviteLeftOpen
        BY DEF Net!LinksAreSettled
      <3>1. Net!OneLinkPerOrganizer
        BY CountsAgree, ListedOnce DEF Net!OneLinkPerOrganizer
      <3>2. Net!NoInviteLeftOpen
        BY DEF Net!NoInviteLeftOpen, Net!At, Net!Waiting, Net!Taken, LinksInv, Network, Resolving
      <3> QED  BY <3>1, <3>2
    <2> QED  BY <1>1, <2>1, LinksHold, PTL
  <1>2. CASE ~Net!Alone
    <2>1. Net!LinksAreSettled
      BY <1>2 DEF Net!LinksAreSettled
    <2> QED  BY <2>1, PTL
  <1> QED  BY <1>1, <1>2

-----------------------------------------------------------------------------
(* The standing (Standing).                                                 *)

\* The instance counts a set as this module does.
LEMMA RankCounts ==
    \A X : Rank!Cardinality(X) = Cardinality(X) /\ (Rank!IsFiniteSet(X) <=> IsFiniteSet(X))
  BY Zenon DEF Rank!Cardinality, Cardinality, Rank!IsFiniteSet, IsFiniteSet

\* The average of the reviews rv of the bookings B.
Mean(rv, B) ==
    IF B = {} THEN 0
    ELSE (20 * Rank!SumFunction([b \in B |-> rv[b]]) + Rank!Cardinality(B)) \div (2 * Rank!Cardinality(B))

\* The reviewed bookings.
Rated(rv) == {b \in Bookings : rv[b] # 0}

\* Some of the reviews average to the rating, and are so many.
Averages(rv, rating)     == \E B \in SUBSET Rated(rv) : rating = Mean(rv, B)
\* A rating and a count of the same reviews.
Counts(rv, rating, n)    == \E B \in SUBSET Rated(rv) : n = Rank!Cardinality(B) /\ rating = Mean(rv, B)
\* A stage reached by the lessons.
Trained(pr, stage)       == stage \in 0..3 /\ \A s \in 1..stage : Curriculum[s] \subseteq pr

\* What a tier was given for.
Deserved(t, rv, pr, dn, complaints) ==
    t # "silver" =>
      /\ \A s \in 1..Rank!Requirements[t].stage : Curriculum[s] \subseteq pr
      /\ Rank!Cardinality(dn) >= Rank!Requirements[t].events
      /\ complaints = 0
      /\ \E B \in (SUBSET Rated(rv)) \ {{}} : Mean(rv, B) >= Rank!Requirements[t].rating

\* What a request has read is true of the past, and what is true lasts.
Holds(d, rv, pr, dn) ==
    /\ d.at = "insert" => d.booking \in dn /\ d.stars \in Stars
    /\ d.at = "cache" => Counts(rv, d.rating, d.count)
    /\ d.at = "push" => d.keys \subseteq pr
    /\ d.at = "sync" => Trained(pr, d.stage)
    /\ d.at = "count" => Averages(rv, d.rating) /\ Trained(pr, d.stage)

\* The tiers.
Tiers == {"silver", "gold", "platinum"}

\* The inductive invariant of a standing.
StandingInv ==
    /\ done \subseteq Bookings
    /\ DOMAIN reviews = Bookings /\ Rated(reviews) \subseteq done
    /\ profile = [rating |-> profile.rating, reviews |-> profile.reviews, stage |-> profile.stage,
                  tier |-> profile.tier, complaints |-> profile.complaints]
    /\ profile.tier \in Tiers
    /\ Counts(reviews, profile.rating, profile.reviews)
    /\ Trained(progress, profile.stage)
    /\ Deserved(profile.tier, reviews, progress, done, profile.complaints)
    /\ DOMAIN desk = Callers
    /\ \A c \in Callers : Holds(desk[c], reviews, progress, done)

\* A handler at rest.
LEMMA NoStandingDeskIs == Rank!NoDesk.at = "idle"
  BY DEF Rank!NoDesk

\* The average of some reviews.
LEMMA MeanIs == \A B : Rank!AverageOf(B) = Mean(reviews, B)
  BY DEF Rank!AverageOf, Mean

\* The reviewed bookings are those of the instance.
LEMMA RatedIs == Rank!Reviewed = Rated(reviews)
  BY DEF Rank!Reviewed, Rated

\* The completed stages are the first ones.
LEMMA StageIs ==
    ASSUME NEW keys PROVE Trained(keys, Rank!StageOf(keys))
  <1> DEFINE P == {s \in 1..3 : \A t \in 1..s : Curriculum[t] \subseteq keys}
  <1>1. ASSUME NEW n \in 0..3, P = 1..n PROVE Trained(keys, Rank!StageOf(keys))
    <2>1. Rank!Cardinality(1..n) = n
      <3>1. Cardinality(1..n) = (IF 1 > n THEN 0 ELSE n - 1 + 1)
        BY FS_Interval
      <3>2. Cardinality(1..n) = n
        BY <3>1
      <3> QED  BY <3>2, RankCounts
    <2>2. Rank!StageOf(keys) = n
      BY <1>1, <2>1 DEF Rank!StageOf
    <2>3. \A s \in 1..n : Curriculum[s] \subseteq keys
      BY <1>1
    <2> QED  BY <2>2, <2>3 DEF Trained
  <1>2. \A s \in P : \A t \in 1..s : t \in P
    OBVIOUS
  <1>3. P \subseteq 1..3
    OBVIOUS
  <1> HIDE DEF P
  <1>4. CASE 1 \notin P
    <2>1. P = 1..0
      BY <1>2, <1>3, <1>4
    <2> QED  BY <1>1, <2>1
  <1>5. CASE 1 \in P /\ 2 \notin P
    <2>0. 1 \in P /\ \A x \in P : x \in 1..1
      BY <1>2, <1>3, <1>5
    <2>1. P = 1..1
      BY <2>0
    <2> QED  BY <1>1, <2>1
  <1>6. CASE 2 \in P /\ 3 \notin P
    <2>0. 1 \in P /\ 2 \in P /\ \A x \in P : x \in 1..2
      BY <1>2, <1>3, <1>6
    <2>1. P = 1..2
      BY <2>0
    <2> QED  BY <1>1, <2>1
  <1>7. CASE 3 \in P
    <2>0. 1 \in P /\ 2 \in P /\ 3 \in P /\ \A x \in P : x \in 1..3
      BY <1>2, <1>3, <1>7
    <2>1. P = 1..3
      BY <2>0
    <2> QED  BY <1>1, <2>1
  <1> QED  BY <1>4, <1>5, <1>6, <1>7

\* No events, reviews or lessons satisfy the invariant.
LEMMA StandingInit ==
    ASSUME Rank!Init PROVE StandingInv
  <1>1. /\ done = {} /\ progress = {} /\ DOMAIN reviews = Bookings /\ Rated(reviews) = {}
        /\ DOMAIN desk = Callers /\ \A c \in Callers : desk[c].at = "idle"
    BY NoStandingDeskIs DEF Rank!Init, Rated
  <1>2. /\ profile = [rating |-> profile.rating, reviews |-> profile.reviews, stage |-> profile.stage,
                      tier |-> profile.tier, complaints |-> profile.complaints]
        /\ profile.tier = "silver" /\ profile.stage = 0 /\ profile.rating = 0 /\ profile.reviews = 0
    BY DEF Rank!Init
  <1>3. Counts(reviews, 0, 0)
    <2>1. Rank!Cardinality({}) = 0 /\ Mean(reviews, {}) = 0 /\ {} \in SUBSET Rated(reviews)
      BY FS_EmptySet, RankCounts DEF Mean
    <2> QED  BY <2>1 DEF Counts
  <1> QED  BY <1>1, <1>2, <1>3 DEF StandingInv, Trained, Deserved, Holds, Tiers

\* The record only grows.
Grows ==
    /\ done \subseteq done' /\ done' \subseteq Bookings /\ progress \subseteq progress'
    /\ DOMAIN reviews' = Bookings
    /\ \A b \in Bookings : reviews[b] # 0 => reviews'[b] = reviews[b]

\* An average of reviews that are there stays what it is when more come in.
LEMMA MeanStays ==
    ASSUME Grows, NEW B \in SUBSET Rated(reviews)
    PROVE  Mean(reviews', B) = Mean(reviews, B) /\ B \in SUBSET Rated(reviews')
  <1>1. [b \in B |-> reviews'[b]] = [b \in B |-> reviews[b]]
    BY DEF Grows, Rated
  <1> QED  BY <1>1 DEF Mean, Grows, Rated

\* So does what a handler has read,
LEMMA ReadingsStay ==
    ASSUME Grows, NEW d, Holds(d, reviews, progress, done)
    PROVE  Holds(d, reviews', progress', done')
  <1>1. \A r : Averages(reviews, r) => Averages(reviews', r)
    BY MeanStays DEF Averages
  <1>2. \A r, n : Counts(reviews, r, n) => Counts(reviews', r, n)
    BY MeanStays DEF Counts
  <1>3. \A s : Trained(progress, s) => Trained(progress', s)
    BY DEF Trained, Grows
  <1> QED  BY <1>1, <1>2, <1>3 DEF Holds, Grows

\* and the number of events only grows.
LEMMA MoreDone ==
    ASSUME Rank!StandingAssumption, Grows
    PROVE  Rank!Cardinality(done) \in Nat /\ Rank!Cardinality(done') \in Nat
           /\ Rank!Cardinality(done) <= Rank!Cardinality(done')
  <1>1. IsFiniteSet(Bookings)
    BY RankCounts DEF Rank!StandingAssumption
  <1>2. IsFiniteSet(done') /\ IsFiniteSet(done)
    BY <1>1, FS_Subset DEF Grows
  <1> QED  BY <1>2, FS_Subset, FS_CardinalityType, RankCounts DEF Grows

\* What a tier asks for.
LEMMA RequirementsAre ==
    ASSUME Rank!StandingAssumption, NEW t \in {"gold", "platinum"}
    PROVE  /\ Rank!Requirements[t].events \in Nat /\ Rank!Requirements[t].rating \in {40, 45}
           /\ Rank!Requirements[t].stage \in {2, 3}
  BY DEF Rank!StandingAssumption, Rank!Requirements

\* What a tier was given for is still there.
LEMMA TierStays ==
    ASSUME Rank!StandingAssumption, Grows, NEW t \in Tiers, NEW n, Deserved(t, reviews, progress, done, n)
    PROVE  Deserved(t, reviews', progress', done', n)
  <1> SUFFICES ASSUME t # "silver" PROVE Deserved(t, reviews', progress', done', n)
    BY DEF Deserved
  <1>1. Rank!Cardinality(done') >= Rank!Requirements[t].events
    BY MoreDone, RequirementsAre DEF Deserved, Tiers
  <1>2. \E B \in (SUBSET Rated(reviews')) \ {{}} : Mean(reviews', B) >= Rank!Requirements[t].rating
    BY MeanStays DEF Deserved
  <1> QED  BY <1>1, <1>2 DEF Deserved, Grows

\* A request goes on with what it read, the record grows, the profile stays.
LEMMA StandingDeskStep ==
    ASSUME StandingInv, Rank!StandingAssumption, Grows, Rated(reviews') \subseteq done',
           NEW c \in Callers, NEW d, Rank!Goto(c, d),
           Holds(d, reviews', progress', done'),
           profile' = [rating |-> profile'.rating, reviews |-> profile'.reviews, stage |-> profile'.stage,
                       tier |-> profile'.tier, complaints |-> profile'.complaints],
           profile'.tier \in Tiers,
           Counts(reviews', profile'.rating, profile'.reviews), Trained(progress', profile'.stage),
           Deserved(profile'.tier, reviews', progress', done', profile'.complaints)
    PROVE  StandingInv'
  <1>1. DOMAIN desk' = Callers /\ \A x \in Callers : desk'[x] = IF x = c THEN d ELSE desk[x]
    BY DEF StandingInv, Rank!Goto
  <1>2. \A x \in Callers : Holds(desk[x], reviews', progress', done')
    BY ReadingsStay DEF StandingInv
  <1>3. \A x \in Callers : Holds(desk'[x], reviews', progress', done')
    BY <1>1, <1>2
  <1> QED  BY <1>1, <1>3 DEF StandingInv, Grows

\* A profile that is not written stays true as the world grows.
LEMMA ProfileStays ==
    ASSUME StandingInv, Rank!StandingAssumption, Grows, UNCHANGED profile
    PROVE  /\ profile' = [rating |-> profile'.rating, reviews |-> profile'.reviews, stage |-> profile'.stage,
                          tier |-> profile'.tier, complaints |-> profile'.complaints]
           /\ profile'.tier \in Tiers
           /\ Counts(reviews', profile'.rating, profile'.reviews) /\ Trained(progress', profile'.stage)
           /\ Deserved(profile'.tier, reviews', progress', done', profile'.complaints)
  <1>1. Counts(reviews', profile.rating, profile.reviews)
    BY MeanStays DEF Counts, StandingInv
  <1>2. Trained(progress', profile.stage)
    BY DEF Trained, Grows, StandingInv
  <1>3. Deserved(profile.tier, reviews', progress', done', profile.complaints)
    BY TierStays DEF StandingInv
  <1> QED  BY <1>1, <1>2, <1>3 DEF StandingInv

\* Steps that write neither events nor reviews.
LEMMA SameGrows ==
    ASSUME StandingInv, UNCHANGED <<done, reviews>>, progress \subseteq progress'
    PROVE  Grows /\ Rated(reviews') \subseteq done'
  BY DEF Grows, StandingInv

\* A step that writes neither the profile nor the reviews.
LEMMA ReadKeeps ==
    ASSUME StandingInv, Rank!StandingAssumption, NEW c \in Callers, NEW d, Rank!Goto(c, d),
           UNCHANGED <<done, reviews, profile>>, progress \subseteq progress',
           Holds(d, reviews, progress', done)
    PROVE  StandingInv'
  BY SameGrows, ProfileStays, StandingDeskStep

\* A handler at rest has read nothing.
LEMMA IdleHolds == \A rv, pr, dn : Holds(Rank!NoDesk, rv, pr, dn)
  BY NoStandingDeskIs DEF Holds

\* A review is of an event that took place.
LEMMA CreateReviewKeeps ==
    ASSUME StandingInv, Rank!StandingAssumption, NEW c \in Callers, Rank!Create(c) PROVE StandingInv'
  <1> PICK b \in done \ Rank!Reviewed, s \in Stars :
         Rank!Goto(c, [Rank!NoDesk EXCEPT !.at = "insert", !.booking = b, !.stars = s])
    BY DEF Rank!Create
  <1> DEFINE d == [Rank!NoDesk EXCEPT !.at = "insert", !.booking = b, !.stars = s]
  <1>1. d.at = "insert" /\ d.booking = b /\ d.stars = s
    BY DEF Rank!NoDesk
  <1> HIDE DEF d
  <1>2. Holds(d, reviews, progress', done)
    BY <1>1 DEF Holds
  <1> QED  BY <1>2, ReadKeeps DEF d, Rank!Create

\* The unique index takes one review of a booking.
LEMMA InsertKeeps ==
    ASSUME StandingInv, Rank!StandingAssumption, NEW c \in Callers, Rank!Insert(c) PROVE StandingInv'
  <1> DEFINE b == desk[c].booking
  <1>0. /\ b \in done /\ desk[c].stars \in Stars /\ b \in Bookings
        /\ UNCHANGED <<done, progress, profile>>
    BY DEF StandingInv, Holds, Rank!Insert, Rank!At
  <1>1. CASE reviews[b] # 0
    BY <1>0, <1>1, IdleHolds, ReadKeeps DEF Rank!Insert, Rank!Done
  <1>2. CASE reviews[b] = 0
    <2>1. reviews' = [reviews EXCEPT ![b] = desk[c].stars]
      BY <1>2 DEF Rank!Insert
    <2>2. DOMAIN reviews' = Bookings /\ \A x \in Bookings : x # b => reviews'[x] = reviews[x]
      BY <1>0, <2>1 DEF StandingInv
    <2>3. Grows /\ Rated(reviews') \subseteq done'
      BY <1>0, <1>2, <2>2 DEF Grows, StandingInv, Rated
    <2> DEFINE d == [Rank!NoDesk EXCEPT !.at = "average"]
    <2>4. d.at = "average" /\ Rank!Goto(c, d)
      BY <1>2 DEF Rank!NoDesk, Rank!Insert
    <2> HIDE DEF d
    <2>5. Holds(d, reviews', progress', done')
      BY <2>4 DEF Holds
    <2> QED  BY <1>0, <2>3, <2>4, <2>5, ProfileStays, StandingDeskStep
  <1> QED  BY <1>1, <1>2

\* The average is of the reviews there are,
LEMMA AverageKeeps ==
    ASSUME StandingInv, Rank!StandingAssumption, NEW c \in Callers, Rank!Average(c) PROVE StandingInv'
  <1> DEFINE d == [Rank!NoDesk EXCEPT !.at = "cache", !.rating = Rank!AverageOf(Rank!Reviewed),
                                      !.count = Rank!Cardinality(Rank!Reviewed)]
  <1>1. /\ d.at = "cache" /\ d.rating = Mean(reviews, Rated(reviews))
        /\ d.count = Rank!Cardinality(Rated(reviews)) /\ Rank!Goto(c, d)
    BY MeanIs, RatedIs DEF Rank!NoDesk, Rank!Average
  <1> HIDE DEF d
  <1>2. Counts(reviews, d.rating, d.count)
    BY <1>1 DEF Counts
  <1>3. Holds(d, reviews, progress', done)
    BY <1>1, <1>2 DEF Holds
  <1> QED  BY <1>1, <1>3, ReadKeeps DEF Rank!Average

\* and may be cached after more came in.
LEMMA CacheKeeps ==
    ASSUME StandingInv, Rank!StandingAssumption, NEW c \in Callers, Rank!Cache(c) PROVE StandingInv'
  <1>1. /\ UNCHANGED <<done, reviews, progress>> /\ Rank!Goto(c, Rank!NoDesk)
        /\ Counts(reviews, desk[c].rating, desk[c].count)
    BY DEF Rank!Cache, Rank!Done, StandingInv, Holds, Rank!At
  <1>2. Grows /\ Rated(reviews') \subseteq done'
    BY <1>1, SameGrows
  <1>3. profile' = [rating |-> desk[c].rating, reviews |-> desk[c].count, stage |-> profile.stage,
                    tier |-> profile.tier, complaints |-> profile.complaints]
    BY DEF Rank!Cache, StandingInv
  <1>4. Trained(progress', profile'.stage)
    BY <1>1, <1>3 DEF StandingInv
  <1>5. Deserved(profile'.tier, reviews', progress', done', profile'.complaints)
    BY <1>1, <1>3 DEF StandingInv
  <1> QED  BY <1>1, <1>2, <1>3, <1>4, <1>5, IdleHolds, StandingDeskStep DEF StandingInv

\* What the academy and the promotion read first.
LEMMA LearnKeeps ==
    ASSUME StandingInv, Rank!StandingAssumption, NEW c \in Callers,
           Rank!Learn(c) \/ Rank!GetStatus(c) \/ Rank!Page(c) \/ Rank!LoadProfile(c)
    PROVE  StandingInv'
  <1>0. UNCHANGED <<done, reviews, progress, profile>>
    BY DEF Rank!Learn, Rank!GetStatus, Rank!Page, Rank!LoadProfile
  <1>1. CASE Rank!Learn(c)
    <2> PICK k : Rank!Goto(c, [Rank!NoDesk EXCEPT !.at = "push", !.key = k, !.keys = progress])
      BY <1>1 DEF Rank!Learn
    <2> DEFINE d == [Rank!NoDesk EXCEPT !.at = "push", !.key = k, !.keys = progress]
    <2>1. d.at = "push" /\ d.keys = progress
      BY DEF Rank!NoDesk
    <2> HIDE DEF d
    <2>2. Holds(d, reviews, progress', done)
      BY <1>0, <2>1 DEF Holds
    <2> QED  BY <1>0, <2>2, ReadKeeps DEF d
  <1>2. CASE Rank!GetStatus(c) \/ Rank!Page(c)
    <2> DEFINE d == [Rank!NoDesk EXCEPT !.at = "sync", !.stage = Rank!StageOf(progress)]
    <2>1. d.at = "sync" /\ d.stage = Rank!StageOf(progress) /\ Rank!Goto(c, d)
      BY <1>2 DEF Rank!NoDesk, Rank!GetStatus, Rank!Page
    <2> HIDE DEF d
    <2>2. Trained(progress, d.stage)
      BY <2>1, StageIs
    <2>3. Holds(d, reviews, progress', done)
      BY <1>0, <2>1, <2>2 DEF Holds
    <2> QED  BY <1>0, <2>1, <2>3, ReadKeeps
  <1>3. CASE Rank!LoadProfile(c)
    <2> DEFINE d == [Rank!NoDesk EXCEPT !.at = "count", !.rating = profile.rating,
                                        !.stage = profile.stage, !.tier = profile.tier]
    <2>1. d.at = "count" /\ d.rating = profile.rating /\ d.stage = profile.stage /\ Rank!Goto(c, d)
      BY <1>3 DEF Rank!NoDesk, Rank!LoadProfile
    <2> HIDE DEF d
    <2>2. Averages(reviews, d.rating) /\ Trained(progress, d.stage)
      BY <2>1 DEF StandingInv, Averages, Counts
    <2>3. Holds(d, reviews, progress', done)
      BY <1>0, <2>1, <2>2 DEF Holds
    <2> QED  BY <1>0, <2>1, <2>3, ReadKeeps
  <1> QED  BY <1>1, <1>2, <1>3

\* A lesson finished is added to those there are.
LEMMA PushKeeps ==
    ASSUME StandingInv, Rank!StandingAssumption, NEW c \in Callers, Rank!Push(c) PROVE StandingInv'
  <1> DEFINE keys == desk[c].keys \cup {desk[c].key}
             d == [Rank!NoDesk EXCEPT !.at = "sync", !.stage = Rank!StageOf(keys), !.key = desk[c].key]
  <1>1. /\ desk[c].keys \subseteq progress /\ progress' = progress \cup {desk[c].key}
        /\ UNCHANGED <<done, reviews, profile>>
    BY DEF Rank!Push, StandingInv, Holds, Rank!At
  <1>2. keys \subseteq progress'
    BY <1>1
  <1>3. d.at = "sync" /\ d.stage = Rank!StageOf(keys) /\ Rank!Goto(c, d)
    BY DEF Rank!NoDesk, Rank!Push
  <1> HIDE DEF d, keys
  <1>4. Trained(progress', d.stage)
    BY <1>2, <1>3, StageIs DEF Trained
  <1>5. Holds(d, reviews, progress', done)
    BY <1>3, <1>4 DEF Holds
  <1> QED  BY <1>1, <1>3, <1>5, ReadKeeps

\* The stage that is stored was reached.
LEMMA SyncKeeps ==
    ASSUME StandingInv, Rank!StandingAssumption, NEW c \in Callers, Rank!Sync(c) PROVE StandingInv'
  <1>1. UNCHANGED <<done, reviews, progress>> /\ Trained(progress, desk[c].stage)
    BY DEF Rank!Sync, StandingInv, Holds, Rank!At
  <1>2. Grows /\ Rated(reviews') \subseteq done'
    BY <1>1, SameGrows
  <1>3. profile' = [rating |-> profile.rating, reviews |-> profile.reviews, stage |-> desk[c].stage,
                    tier |-> profile.tier, complaints |-> profile.complaints]
    BY DEF Rank!Sync, StandingInv
  <1>4. Trained(progress', profile'.stage) /\ Counts(reviews', profile'.rating, profile'.reviews)
    BY <1>1, <1>3 DEF StandingInv
  <1>5. Deserved(profile'.tier, reviews', progress', done', profile'.complaints)
    BY <1>1, <1>3 DEF StandingInv
  <1>6. profile' = [rating |-> profile'.rating, reviews |-> profile'.reviews, stage |-> profile'.stage,
                    tier |-> profile'.tier, complaints |-> profile'.complaints] /\ profile'.tier \in Tiers
    BY <1>3 DEF StandingInv
  <1> DEFINE p == [Rank!NoDesk EXCEPT !.at = "page"]
  <1>7. p.at = "page"
    BY DEF Rank!NoDesk
  <1>8. Rank!Goto(c, Rank!NoDesk) \/ Rank!Goto(c, p)
    BY DEF Rank!Sync, Rank!Done
  <1> HIDE DEF p
  <1>9. Holds(p, reviews', progress', done')
    BY <1>7 DEF Holds
  <1> QED  BY <1>2, <1>4, <1>5, <1>6, <1>8, <1>9, IdleHolds, StandingDeskStep

\* What is above the tier held is a tier whose requirements are met.
LEMMA EarnedIs ==
    ASSUME Rank!StandingAssumption, NEW r, NEW n,
           Averages(reviews, r.rating), Trained(progress, r.stage),
           n = Rank!Cardinality(done)
    PROVE  LET t == Rank!EarnedTier(r, n) IN t \in Tiers /\ Deserved(t, reviews, progress, done, r.complaints)
  <1> DEFINE t == Rank!EarnedTier(r, n)
  <1>1. t \in Tiers /\ (t # "silver" => /\ n >= Rank!Requirements[t].events
                                       /\ r.rating >= Rank!Requirements[t].rating
                                       /\ r.stage >= Rank!Requirements[t].stage
                                       /\ r.complaints = 0)
    BY DEF Rank!EarnedTier, Tiers
  <1> SUFFICES t # "silver" => Deserved(t, reviews, progress, done, r.complaints)
    BY <1>1 DEF Deserved
  <1> HIDE DEF t
  <1> SUFFICES ASSUME t # "silver" PROVE Deserved(t, reviews, progress, done, r.complaints)
    OBVIOUS
  <1>2. Rank!Requirements[t].rating \in {40, 45} /\ Rank!Requirements[t].stage \in {2, 3}
    BY <1>1, RequirementsAre DEF Tiers
  <1>3. \A s \in 1..Rank!Requirements[t].stage : Curriculum[s] \subseteq progress
    BY <1>1, <1>2 DEF Trained
  <1>4. PICK B \in SUBSET Rated(reviews) : r.rating = Mean(reviews, B)
    BY DEF Averages
  <1>5. Mean(reviews, B) >= Rank!Requirements[t].rating
    BY <1>1, <1>4
  <1>6. B # {}
    <2>1. CASE B = {}
      <3>1. Mean(reviews, B) = 0
        BY <2>1 DEF Mean
      <3> QED  BY <1>2, <1>5, <3>1
    <2> QED  BY <2>1
  <1> QED  BY <1>1, <1>3, <1>5, <1>6 DEF Deserved

\* A promotion asks what its copy and the events say.
LEMMA PromoteKeeps ==
    ASSUME StandingInv, Rank!StandingAssumption, NEW c \in Callers, Rank!Promote(c) PROVE StandingInv'
  <1>1. /\ UNCHANGED <<done, reviews, progress>> /\ Rank!Goto(c, Rank!NoDesk)
        /\ Averages(reviews, desk[c].rating) /\ Trained(progress, desk[c].stage)
    BY DEF Rank!Promote, Rank!Done, StandingInv, Holds, Rank!At
  <1>2. Grows /\ Rated(reviews') \subseteq done'
    BY <1>1, SameGrows
  <1> DEFINE copy == [desk[c] EXCEPT !.at = "idle"]
             r == [rating |-> copy.rating, stage |-> copy.stage, complaints |-> profile.complaints]
             t == Rank!EarnedTier(r, Rank!Cardinality(done))
  <1>3. profile' = [profile EXCEPT !.tier = t] \/ profile' = profile
    BY DEF Rank!Promote
  <1>4. r.rating = desk[c].rating /\ r.stage = desk[c].stage /\ r.complaints = profile.complaints
    OBVIOUS
  <1> HIDE DEF r
  <1>5. t \in Tiers /\ Deserved(t, reviews, progress, done, profile.complaints)
    BY <1>1, <1>4, EarnedIs
  <1> HIDE DEF t
  <1>6. CASE profile' = profile
    BY <1>1, <1>2, <1>6, ProfileStays, IdleHolds, StandingDeskStep
  <1>7. CASE profile' = [profile EXCEPT !.tier = t]
    <2>1. profile' = [rating |-> profile.rating, reviews |-> profile.reviews, stage |-> profile.stage,
                      tier |-> t, complaints |-> profile.complaints]
      BY <1>7 DEF StandingInv
    <2>2. profile' = [rating |-> profile'.rating, reviews |-> profile'.reviews, stage |-> profile'.stage,
                      tier |-> profile'.tier, complaints |-> profile'.complaints] /\ profile'.tier \in Tiers
      BY <1>5, <2>1
    <2>3. Trained(progress', profile'.stage) /\ Counts(reviews', profile'.rating, profile'.reviews)
      BY <1>1, <2>1 DEF StandingInv
    <2>4. Deserved(profile'.tier, reviews', progress', done', profile'.complaints)
      BY <1>1, <1>5, <2>1
    <2> QED  BY <1>1, <1>2, <2>2, <2>3, <2>4, IdleHolds, StandingDeskStep
  <1> QED  BY <1>3, <1>6, <1>7

\* An event takes place.
LEMMA CompleteEventKeeps ==
    ASSUME StandingInv, Rank!StandingAssumption, NEW b \in Bookings, Rank!Complete(b) PROVE StandingInv'
  <1>1. Grows /\ Rated(reviews') \subseteq done' /\ UNCHANGED <<profile, desk>>
    BY DEF Rank!Complete, Grows, StandingInv
  <1>2. \A c \in Callers : Holds(desk[c], reviews', progress', done')
    BY <1>1, ReadingsStay DEF StandingInv
  <1>3. /\ profile' = [rating |-> profile'.rating, reviews |-> profile'.reviews, stage |-> profile'.stage,
                       tier |-> profile'.tier, complaints |-> profile'.complaints]
        /\ profile'.tier \in Tiers
        /\ Counts(reviews', profile'.rating, profile'.reviews) /\ Trained(progress', profile'.stage)
        /\ Deserved(profile'.tier, reviews', progress', done', profile'.complaints)
    BY <1>1, ProfileStays
  <1>4. DOMAIN desk' = Callers /\ \A c \in Callers : Holds(desk'[c], reviews', progress', done')
    BY <1>1, <1>2 DEF StandingInv
  <1> QED  BY <1>1, <1>3, <1>4 DEF StandingInv, Grows

\* Every step keeps the invariant.
LEMMA StandingStep ==
    ASSUME StandingInv, Rank!StandingAssumption, [Rank!Next]_(Rank!standingVars) PROVE StandingInv'
  <1>1. CASE UNCHANGED Rank!standingVars
    BY <1>1 DEF Rank!standingVars, StandingInv
  <1>2. CASE Rank!Next
    BY <1>2, CreateReviewKeeps, InsertKeeps, AverageKeeps, CacheKeeps, LearnKeeps, PushKeeps, SyncKeeps,
       PromoteKeeps, CompleteEventKeeps DEF Rank!Next
  <1> QED  BY <1>1, <1>2

\* However reviews, lessons and promotions overlap, the rating and the count shown are of
\* one set of reviews that customers gave, and the tier shown was reached: by the events,
\* the lessons, no complaint of the time and reviews that average to what it asks.
THEOREM StandingStaysReal ==
    ASSUME Rank!StandingAssumption PROVE Rank!Spec => []Rank!StandingIsReal
  <1>1. Rank!Init => StandingInv
    BY StandingInit
  <1>2. StandingInv /\ [Rank!Next]_(Rank!standingVars) => StandingInv'
    BY StandingStep
  <1>3. StandingInv => Rank!StandingIsReal
    <2> SUFFICES ASSUME StandingInv PROVE Rank!RatingIsReal /\ Rank!TierWasEarned
      BY DEF Rank!StandingIsReal
    <2>1. Rank!RatingIsReal
      BY MeanIs, RatedIs DEF Rank!RatingIsReal, StandingInv, Counts
    <2>2. Rank!TierWasEarned
      BY MeanIs, RatedIs DEF Rank!TierWasEarned, StandingInv, Deserved
    <2> QED  BY <2>1, <2>2
  <1> QED  BY <1>1, <1>2, <1>3, PTL DEF Rank!Spec

\* The instance sums as this module does.
LEMMA RankSums == \A f : Rank!SumFunction(f) = SumFunction(f)
  BY Zenon DEF Rank!SumFunction, Rank!SumFunctionOnSet, Rank!FoldFunctionOnSet, Rank!MapThenFoldSet,
           SumFunction, SumFunctionOnSet, FoldFunctionOnSet, MapThenFoldSet

\* The stars given.
StarsInv == \A b \in Bookings : reviews[b] \in 0..5

\* No review yet.
LEMMA StarsInit == Rank!Init => StarsInv
  BY DEF Rank!Init, StarsInv

\* A review gives one to five stars.
LEMMA StarsStep ==
    ASSUME Rank!StandingAssumption, StandingInv, StarsInv, [Rank!Next]_(Rank!standingVars)
    PROVE  StarsInv'
  <1>1. CASE UNCHANGED reviews
    BY <1>1 DEF StarsInv
  <1>2. ASSUME NEW c \in Callers, Rank!Insert(c) PROVE StarsInv'
    <2>1. desk[c].at = "insert" /\ desk[c].stars \in 1..5
      BY <1>2 DEF Rank!Insert, Rank!At, StandingInv, Holds, Rank!StandingAssumption
    <2>2. CASE reviews' = reviews
      BY <2>2 DEF StarsInv
    <2>3. CASE reviews' = [reviews EXCEPT ![desk[c].booking] = desk[c].stars]
      BY <2>1, <2>3 DEF StarsInv, StandingInv
    <2> QED  BY <1>2, <2>2, <2>3 DEF Rank!Insert
  <1> QED
    BY <1>1, <1>2 DEF Rank!Next, Rank!standingVars, Rank!Create, Rank!Average, Rank!Cache, Rank!Learn, Rank!Push,
       Rank!GetStatus, Rank!Sync, Rank!Page, Rank!LoadProfile, Rank!Promote, Rank!Complete

\* The rows of the histogram add up.
LEMMA RowsSummed ==
    ASSUME \A s \in 1..5 : Rank!Histogram[s] \in Int
    PROVE  Rank!Summary.total = Sum([s \in 1..5 |-> Rank!Histogram[s]], 1..5)
  <1> DEFINE h == [s \in 1..5 |-> Rank!Histogram[s]]
  <1>1. Rank!Histogram = h
    BY DEF Rank!Histogram
  <1>2. DOMAIN h = 1..5 /\ \A s \in 1..5 : h[s] \in Int
    OBVIOUS
  <1>3. IsFiniteSet(1..5)
    BY FS_Interval, 1 \in Int, 5 \in Int
  <1>4. Rank!Summary.total = SumFunction(h)
    BY <1>1, RankSums DEF Rank!Summary
  <1> HIDE DEF h
  <1> QED  BY <1>2, <1>3, <1>4, SumFunctionIs DEF h

\* Whoever gave some stars stands in one row.
LEMMA RowsCount ==
    ASSUME IsFiniteSet(Bookings), StarsInv
    PROVE  Rank!SummaryAddsUp
  <1> DEFINE R == Rank!Reviewed
             In(T) == {b \in R : reviews[b] \in T}
             h == [s \in 1..5 |-> Rank!Histogram[s]]
             P == {T \in SUBSET (1..5) : Sum(h, T) = Cardinality(In(T))}
  <1>1. R \subseteq Bookings /\ IsFiniteSet(R) /\ \A b \in R : reviews[b] \in 1..5
    <2>1. R \subseteq Bookings /\ \A b \in R : reviews[b] \in 1..5
      BY DEF Rank!Reviewed, StarsInv
    <2> QED  BY <2>1, FS_Subset
  <1>2. \A s \in 1..5 : h[s] = Cardinality(In({s}))
    <2> SUFFICES ASSUME NEW s \in 1..5 PROVE h[s] = Cardinality(In({s}))
      OBVIOUS
    <2>1. In({s}) = {b \in R : reviews[b] = s}
      OBVIOUS
    <2> QED  BY <2>1, RankCounts DEF Rank!Histogram
  <1> HIDE DEF h, R
  <1>3. \A T : IsFiniteSet(In(T)) /\ Cardinality(In(T)) \in Nat
    <2> TAKE T
    <2>1. In(T) \subseteq R
      OBVIOUS
    <2> QED  BY <1>1, <2>1, FS_Subset, FS_CardinalityType
  <1>4. \A s \in 1..5 : h[s] \in Int
    <2> HIDE DEF In
    <2> QED  BY <1>2, <1>3
  <1>5. ASSUME NEW T \in SUBSET (1..5), \A x \in T : T \ {x} \in P PROVE T \in P
    <2>0. IsFiniteSet(1..5) /\ IsFiniteSet(T)
      BY FS_Interval, FS_Subset, 1 \in Int, 5 \in Int
    <2>1. CASE T = {}
      <3>1. In(T) = {}
        BY <2>1
      <3> QED  BY <2>1, <3>1, SumNothing, FS_EmptySet
    <2>2. CASE T # {}
      <3>1. PICK x \in T : TRUE
        BY <2>2
      <3> DEFINE U == T \ {x}
      <3>2. Sum(h, T) = h[x] + Sum(h, U)
        BY <1>4, <2>0, SumTakes
      <3>3. Sum(h, U) = Cardinality(In(U))
        BY <1>5, <3>1
      <3>4. In(T) = In({x}) \cup In(U) /\ In({x}) \cap In(U) = {}
        BY <3>1
      <3>5. Cardinality(In(T)) = Cardinality(In({x})) + Cardinality(In(U))
        <4> HIDE DEF In, P
        <4>0. IsFiniteSet(In({x})) /\ IsFiniteSet(In(U))
          BY <1>3
        <4>1. Cardinality(In({x}) \cup In(U))
                = Cardinality(In({x})) + Cardinality(In(U)) - Cardinality(In({x}) \cap In(U))
          BY <4>0, FS_Union
        <4>2. Cardinality(In({x}) \cap In(U)) = 0
          BY <3>4, FS_EmptySet
        <4>3. In(T) = In({x}) \cup In(U)
          BY <3>4
        <4>4. Cardinality(In({x})) \in Nat /\ Cardinality(In(U)) \in Nat
          BY <1>3
        <4>5. Cardinality(In(T)) = Cardinality(In({x})) + Cardinality(In(U)) - 0
          BY <4>1, <4>2, <4>3
        <4> QED  BY <4>4, <4>5
      <3>6. h[x] = Cardinality(In({x}))
        BY <1>2, <3>1
      <3> HIDE DEF In, U
      <3>7. Sum(h, T) = Cardinality(In(T))
        BY <3>2, <3>3, <3>5, <3>6
      <3> QED  BY <3>7
    <2> QED  BY <2>1, <2>2
  <1>6. 1..5 \in P
    <2>1. IsFiniteSet(1..5)
      BY FS_Interval, 1 \in Int, 5 \in Int
    <2> HIDE DEF P
    <2> QED  BY <1>5, <2>1, SetInduction
  <1>7. In(1..5) = R
    BY <1>1
  <1>8. Rank!Summary.total = Sum(h, 1..5)
    <2>1. \A s \in 1..5 : Rank!Histogram[s] \in Int
      BY <1>4 DEF h
    <2> QED  BY <2>1, RowsSummed DEF h
  <1> QED  BY <1>6, <1>7, <1>8, RankCounts DEF Rank!SummaryAddsUp, R

\* The summary of the reviews.
THEOREM SummaryStaysTrue ==
    ASSUME Rank!StandingAssumption PROVE Rank!Spec => []Rank!SummaryAddsUp
  <1>1. Rank!Init => StandingInv /\ StarsInv
    BY StandingInit, StarsInit
  <1>2. StandingInv /\ StarsInv /\ [Rank!Next]_(Rank!standingVars) => StandingInv' /\ StarsInv'
    BY StandingStep, StarsStep
  <1>3. StarsInv => Rank!SummaryAddsUp
    BY RowsCount, RankCounts DEF Rank!StandingAssumption
  <1> QED  BY <1>1, <1>2, <1>3, PTL DEF Rank!Spec

-----------------------------------------------------------------------------
(* The calendar and the earnings (OrganizerDesk).                           *)

\* The instance counts a set as this module does.
LEMMA CalCounts ==
    \A X : Cal!Cardinality(X) = Cardinality(X) /\ (Cal!IsFiniteSet(X) <=> IsFiniteSet(X))
  BY Zenon DEF Cal!Cardinality, Cardinality, Cal!IsFiniteSet, IsFiniteSet


\* The inductive invariant of the blocked days.
DaysInv ==
    /\ today \in Days
    /\ busy = asked
    /\ DOMAIN desk = Callers
    /\ \A c \in Callers : desk[c].at = "save" =>
         desk[c].dates = IF desk[c].blocked THEN busy \cup {desk[c].day} ELSE busy \ {desk[c].day}

\* Min is that first one.
LEMMA MinIs ==
    ASSUME NEW X \in SUBSET Nat, X # {}
    PROVE  Cal!Min(X) \in X /\ \A y \in X : Cal!Min(X) <= y
  <1>1. \E x \in X : \A y \in X : x <= y
    BY Smallest
  <1> QED  BY <1>1 DEF Cal!Min

\* A handler at rest.
LEMMA NoDayDeskIs == Cal!NoDesk.at = "idle"
  BY DEF Cal!NoDesk

\* An open calendar satisfies the invariant.
LEMMA DaysInit ==
    ASSUME Cal!DeskAssumption, Cal!Init PROVE DaysInv
  <1>1. today \in Days
    BY MinIs DEF Cal!DeskAssumption, Cal!Init
  <1> QED  BY <1>1, NoDayDeskIs DEF Cal!Init, DaysInv

\* setDateBlocked builds the array it will store.
LEMMA LoadDatesKeeps ==
    ASSUME DaysInv, NEW c \in Callers, Cal!LoadDates(c) PROVE DaysInv'
  <1> PICK d \in Days, blocked \in BOOLEAN :
         desk' = [desk EXCEPT ![c] = [at |-> "save", day |-> d, blocked |-> blocked,
                      dates |-> IF blocked THEN busy \cup {d} ELSE busy \ {d}]]
    BY DEF Cal!LoadDates
  <1>1. UNCHANGED <<today, busy, asked>>
    BY DEF Cal!LoadDates
  <1>2. /\ DOMAIN desk' = Callers
        /\ desk'[c] = [at |-> "save", day |-> d, blocked |-> blocked,
                       dates |-> IF blocked THEN busy \cup {d} ELSE busy \ {d}]
        /\ \A x \in Callers : x # c => desk'[x] = desk[x]
    BY DEF DaysInv
  <1>3. desk'[c].dates = IF desk'[c].blocked THEN busy \cup {desk'[c].day} ELSE busy \ {desk'[c].day}
    BY <1>2
  <1> QED  BY <1>1, <1>2, <1>3 DEF DaysInv

\* The save writes the day asked for and refuses whoever read the array before.
LEMMA SaveDatesKeeps ==
    ASSUME DaysInv, NEW c \in Callers, Cal!SaveDates(c) PROVE DaysInv'
  <1>1. busy' = asked' /\ today' = today
    BY DEF DaysInv, Cal!SaveDates, Cal!At
  <1>2. DOMAIN desk' = Callers
    BY DEF Cal!SaveDates, Cal!RivalsFail
  <1>3. \A x \in Callers : desk'[x].at # "save"
    BY NoDayDeskIs DEF Cal!SaveDates, Cal!RivalsFail, Cal!At, Cal!NoDesk
  <1> QED  BY <1>1, <1>2, <1>3 DEF DaysInv

\* Every step keeps the invariant.
LEMMA DaysStep ==
    ASSUME DaysInv, [Cal!Next]_(Cal!deskVars) PROVE DaysInv'
  <1>1. CASE UNCHANGED Cal!deskVars
    BY <1>1 DEF Cal!deskVars, DaysInv
  <1>2. ASSUME NEW c \in Callers, Cal!Conflict(c) PROVE DaysInv'
    BY <1>2, NoDayDeskIs DEF Cal!Conflict, DaysInv
  <1>3. CASE (\E b \in Jobs : Cal!Book(b) \/ Cal!Advance(b)) \/ Cal!Promote
    BY <1>3 DEF Cal!Book, Cal!Advance, Cal!Promote, DaysInv
  <1>4. CASE Cal!Midnight
    BY <1>4 DEF Cal!Midnight, DaysInv
  <1>5. CASE Cal!Next
    BY <1>2, <1>3, <1>4, <1>5, LoadDatesKeeps, SaveDatesKeeps DEF Cal!Next
  <1> QED  BY <1>1, <1>5

\* The next free day is the first of those ahead.
LEMMA NextFreeIs ==
    ASSUME Cal!DeskAssumption, today \in Days, Cal!NextFree # Cal!Nowhere
    PROVE  Cal!NextFree \in Nat /\ Cal!NextFree >= today /\ Cal!IsFree(Cal!NextFree)
  <1> DEFINE A == {d \in today..(today + Horizon - 1) : Cal!IsFree(d)}
  <1>1. today \in Nat /\ Horizon \in Nat /\ A \subseteq Nat
    BY DEF Cal!DeskAssumption
  <1>2. A # {} /\ Cal!NextFree = Cal!Min(A)
    BY DEF Cal!NextFree
  <1>3. Cal!NextFree \in A
    BY <1>1, <1>2, MinIs
  <1> QED  BY <1>1, <1>3

\* Weeks and their days.
LEMMA WeekIs ==
    ASSUME NEW n \in Nat
    PROVE  n = (7 * (n \div 7)) + (n % 7) /\ n % 7 \in 0..6 /\ n \div 7 \in Nat
  OBVIOUS

\* The week of the next free day: that day is one of its slots, and none is over.
LEMMA SlotsAhead ==
    ASSUME Cal!DeskAssumption, today \in Days PROVE Cal!SlotsAreAhead
  <1> DEFINE n == Cal!NextFree
             W == {i \in 0..6 : n - (n % 7) + i >= today /\ Cal!IsFree(n - (n % 7) + i)}
  <1>1. CASE n = Cal!Nowhere
    BY <1>1 DEF Cal!SlotsAreAhead, Cal!SlotsLeftThatWeek
  <1>2. CASE n # Cal!Nowhere
    <2>1. n \in Nat /\ n >= today /\ Cal!IsFree(n) /\ today \in Nat
      BY <1>2, NextFreeIs DEF Cal!DeskAssumption
    <2>2. Cal!SlotsLeftThatWeek = Cardinality(W)
      BY <1>2, CalCounts DEF Cal!SlotsLeftThatWeek
    <2> HIDE DEF n
    <2>3. n % 7 \in W
      <3>1. n % 7 \in 0..6 /\ n - (n % 7) + (n % 7) = n
        BY <2>1
      <3> QED  BY <2>1, <3>1
    <2>4. \A a \in 0..6 : W \subseteq a..6 => Cardinality(W) \in Nat /\ Cardinality(W) <= 7 - a
      <3> TAKE a \in 0..6
      <3>1. IsFiniteSet(a..6) /\ Cardinality(a..6) = (IF a > 6 THEN 0 ELSE 6 - a + 1)
        BY FS_Interval
      <3>2. Cardinality(a..6) = 7 - a
        BY <3>1
      <3> HIDE DEF W
      <3> HAVE W \subseteq a..6
      <3>3. IsFiniteSet(W) /\ Cardinality(W) <= Cardinality(a..6)
        BY <3>1, FS_Subset
      <3> QED  BY <3>2, <3>3, FS_CardinalityType
    <2>5. W \subseteq 0..6 /\ IsFiniteSet(W)
      <3>1. IsFiniteSet(0..6)
        BY FS_Interval, 0 \in Int, 6 \in Int
      <3>2. W \subseteq 0..6
        OBVIOUS
      <3> HIDE DEF W
      <3> QED  BY <3>1, <3>2, FS_Subset
    <2>6. Cardinality(W) # 0
      BY <2>3, <2>5, FS_EmptySet
    <2>7. ASSUME n \div 7 = today \div 7 PROVE today % 7 \in 0..6 /\ W \subseteq (today % 7)..6
      <3>1. n - (n % 7) = today - (today % 7) /\ today % 7 \in 0..6
        BY <2>1, <2>7, WeekIs
      <3>2. n - (n % 7) \in Int
        BY <2>1, <3>1
      <3>3. ASSUME NEW i \in W PROVE i >= today % 7
        <4>1. i \in 0..6 /\ n - (n % 7) + i >= today
          OBVIOUS
        <4> QED  BY <2>1, <3>1, <3>2, <4>1
      <3> QED  BY <3>1, <3>3
    <2>8. Cardinality(W) <= 7 - (IF n \div 7 = today \div 7 THEN today % 7 ELSE 0)
      BY <2>4, <2>5, <2>7
    <2> HIDE DEF W
    <2> QED  BY <1>2, <2>2, <2>6, <2>8 DEF Cal!SlotsAreAhead, n
  <1> QED  BY <1>1, <1>2

\* However taps overlap, a day is blocked when the last answer stored said so; and what
\* the profile promises of the days ahead can still be asked for.
THEOREM CalendarStaysKept ==
    ASSUME Cal!DeskAssumption PROVE Cal!Spec => []Cal!CalendarIsKept
  <1>1. Cal!Init => DaysInv
    BY DaysInit
  <1>2. DaysInv /\ [Cal!Next]_(Cal!deskVars) => DaysInv'
    BY DaysStep
  <1>3. DaysInv => Cal!CalendarIsKept
    BY SlotsAhead DEF DaysInv, Cal!CalendarIsKept, Cal!BlockedIsKept
  <1> QED  BY <1>1, <1>2, <1>3, PTL DEF Cal!Spec

\* The instance sums as this module does.
LEMMA CalSums == \A f : Cal!SumFunction(f) = SumFunction(f)
  BY Zenon DEF Cal!SumFunction, Cal!SumFunctionOnSet, Cal!FoldFunctionOnSet, Cal!MapThenFoldSet,
           SumFunction, SumFunctionOnSet, FoldFunctionOnSet, MapThenFoldSet

\* Whole percents of whole numbers, rounded one by one or all at once.
Whole(n) == (n + 50) \div 100

\* A whole percent is within half a rupee.
LEMMA RoundsNear ==
    ASSUME NEW n \in Int
    PROVE  Whole(n) \in Int /\ 100 * Whole(n) - n <= 50 /\ n - 100 * Whole(n) <= 50
  BY DEF Whole

\* Rounding one by one drifts by half a rupee a booking.
LEMMA RoundedOneByOne ==
    ASSUME NEW S, IsFiniteSet(S), NEW f, NEW g, NEW r \in {88, 92, 94},
           \A x \in S : f[x] \in Int /\ g[x] = Whole(f[x] * r)
    PROVE  /\ 100 * Sum(g, S) - r * Sum(f, S) <= 50 * Cardinality(S)
           /\ r * Sum(f, S) - 100 * Sum(g, S) <= 50 * Cardinality(S)
  <1> DEFINE P == {s \in SUBSET S : /\ 100 * Sum(g, s) - r * Sum(f, s) <= 50 * Cardinality(s)
                                    /\ r * Sum(f, s) - 100 * Sum(g, s) <= 50 * Cardinality(s)}
  <1>1. \A x \in S : f[x] \in Int /\ g[x] \in Int /\ 100 * g[x] - r * f[x] <= 50 /\ r * f[x] - 100 * g[x] <= 50
    <2> SUFFICES ASSUME NEW x \in S
                 PROVE  f[x] \in Int /\ g[x] \in Int /\ 100 * g[x] - r * f[x] <= 50 /\ r * f[x] - 100 * g[x] <= 50
      OBVIOUS
    <2> DEFINE n == f[x]
    <2>1. n \in Int /\ g[x] = Whole(n * r)
      OBVIOUS
    <2> HIDE DEF n
    <2>2. n * r \in Int /\ n * r = r * n
      BY <2>1
    <2>3. g[x] \in Int /\ 100 * g[x] - r * n <= 50 /\ r * n - 100 * g[x] <= 50
      BY <2>1, <2>2, RoundsNear
    <2> QED  BY <2>1, <2>3 DEF n
  <1>2. ASSUME NEW s \in SUBSET S, \A x \in s : s \ {x} \in P PROVE s \in P
    <2>0. IsFiniteSet(s) /\ Cardinality(s) \in Nat
      BY FS_Subset, FS_CardinalityType
    <2>1. CASE s = {}
      <3>1. Sum(f, s) = 0 /\ Sum(g, s) = 0 /\ Cardinality(s) = 0
        BY <2>1, SumNothing, FS_EmptySet
      <3>2. 100 * Sum(g, s) - r * Sum(f, s) <= 50 * Cardinality(s) /\ r * Sum(f, s) - 100 * Sum(g, s) <= 50 * Cardinality(s)
        BY <3>1
      <3> QED  BY <3>2
    <2>2. CASE s # {}
      <3>1. PICK x \in s : TRUE
        BY <2>2
      <3>2. Sum(f, s) = f[x] + Sum(f, s \ {x}) /\ Sum(f, s \ {x}) \in Int
        BY <1>1, <2>0, SumTakes
      <3>3. Sum(g, s) = g[x] + Sum(g, s \ {x}) /\ Sum(g, s \ {x}) \in Int
        BY <1>1, <2>0, SumTakes
      <3>4. Cardinality(s \ {x}) = Cardinality(s) - 1
        BY <2>0, <3>1, FS_RemoveElement
      <3>5. /\ 100 * Sum(g, s \ {x}) - r * Sum(f, s \ {x}) <= 50 * Cardinality(s \ {x})
            /\ r * Sum(f, s \ {x}) - 100 * Sum(g, s \ {x}) <= 50 * Cardinality(s \ {x})
        BY <1>2, <3>1
      <3>6. f[x] \in Int /\ g[x] \in Int /\ 100 * g[x] - r * f[x] <= 50 /\ r * f[x] - 100 * g[x] <= 50
        BY <1>1
      <3> DEFINE a == f[x]  b == g[x]  u == Sum(f, s \ {x})  v == Sum(g, s \ {x})  k == Cardinality(s)
      <3>7. /\ Sum(f, s) = a + u /\ Sum(g, s) = b + v /\ Cardinality(s) = k
            /\ a \in Int /\ b \in Int /\ u \in Int /\ v \in Int /\ k \in Nat
            /\ 100 * b - r * a <= 50 /\ r * a - 100 * b <= 50
            /\ 100 * v - r * u <= 50 * (k - 1) /\ r * u - 100 * v <= 50 * (k - 1)
        BY <2>0, <3>2, <3>3, <3>4, <3>5, <3>6
      <3>8. 100 * (b + v) - r * (a + u) <= 50 * k /\ r * (a + u) - 100 * (b + v) <= 50 * k
        <4> HIDE DEF a, b, u, v, k, P
        <4>1. CASE r = 88  BY <3>7, <4>1
        <4>2. CASE r = 92  BY <3>7, <4>2
        <4>3. CASE r = 94  BY <3>7, <4>3
        <4> QED  BY <4>1, <4>2, <4>3
      <3> QED  BY <3>7, <3>8
    <2> QED  BY <2>1, <2>2
  <1>3. S \in P
    <2> HIDE DEF P
    <2> QED  BY <1>2, SetInduction
  <1> QED  BY <1>3

\* What some bookings are worth, and what is paid out for them.
LEMMA AmountsSummed ==
    ASSUME NEW B, IsFiniteSet(B), \A b \in B : bookings[b].amount \in Int /\ Cal!NetOf(b) \in Int
    PROVE  /\ Cal!Worth(B) = Sum([b \in B |-> bookings[b].amount], B)
           /\ Cal!PaidNet(B) = Sum([b \in B |-> Cal!NetOf(b)], B)
  <1> DEFINE f == [b \in B |-> bookings[b].amount]
             g == [b \in B |-> Cal!NetOf(b)]
  <1>1. DOMAIN f = B /\ DOMAIN g = B /\ \A b \in B : f[b] \in Int /\ g[b] \in Int
    OBVIOUS
  <1>2. Cal!Worth(B) = SumFunction(f) /\ Cal!PaidNet(B) = SumFunction(g)
    BY CalSums DEF Cal!Worth, Cal!PaidNet
  <1> HIDE DEF f, g
  <1> QED  BY <1>1, <1>2, SumFunctionIs DEF f, g

\* What the bookings are worth, and the tier.
MoneyTypes ==
    /\ DOMAIN bookings = Jobs /\ \A b \in Jobs : bookings[b].amount \in Nat
    /\ tier \in {"silver", "gold", "platinum"}

\* No booking and no tier to speak of.
LEMMA MoneyInit == Cal!DeskAssumption /\ Cal!Init => MoneyTypes
  BY DEF Cal!Init, Cal!NoBooking, MoneyTypes

\* Every step keeps the types.
LEMMA MoneyStep ==
    ASSUME Cal!DeskAssumption, MoneyTypes, [Cal!Next]_(Cal!deskVars)
    PROVE  MoneyTypes'
  <1> USE DEF MoneyTypes
  <1>1. CASE UNCHANGED Cal!deskVars
    BY <1>1 DEF Cal!deskVars
  <1>2. ASSUME NEW c \in Callers, Cal!LoadDates(c) \/ Cal!SaveDates(c) \/ Cal!Conflict(c) PROVE MoneyTypes'
    BY <1>2 DEF Cal!LoadDates, Cal!SaveDates, Cal!Conflict
  <1>3. ASSUME NEW b \in Jobs, Cal!Book(b) PROVE MoneyTypes'
    <2>1. PICK d \in Days, m \in Amounts :
            bookings' = [bookings EXCEPT ![b] = [status |-> "awaiting", day |-> d, amount |-> m]]
      BY <1>3 DEF Cal!Book
    <2>2. m \in Nat
      BY DEF Cal!DeskAssumption
    <2> QED  BY <1>3, <2>1, <2>2 DEF Cal!Book
  <1>4. ASSUME NEW b \in Jobs, Cal!Advance(b) PROVE MoneyTypes'
    <2>1. PICK s : bookings' = [bookings EXCEPT ![b].status = s]
      BY <1>4 DEF Cal!Advance
    <2>2. \A x \in Jobs : bookings'[x].amount = bookings[x].amount
      BY <2>1
    <2> QED  BY <1>4, <2>1, <2>2 DEF Cal!Advance
  <1>5. CASE Cal!Promote
    BY <1>5 DEF Cal!Promote
  <1>6. CASE Cal!Midnight
    BY <1>6 DEF Cal!Midnight
  <1> QED  BY <1>1, <1>2, <1>3, <1>4, <1>5, <1>6 DEF Cal!Next

\* Every screen of the earnings, from the same sums.
LEMMA PayoutsHold ==
    ASSUME Cal!DeskAssumption, MoneyTypes
    PROVE  Cal!PayoutsAddUp
  <1> DEFINE f == [b \in Jobs |-> bookings[b].amount]
             g == [b \in Jobs |-> Cal!NetOf(b)]
             c == Cal!Commission
             E == Cal!Earning
             C == Cal!With({"completed"})
             k == Cardinality(E)
  <1>1. c \in {12, 8, 6}
    BY DEF Cal!Commission, MoneyTypes
  <1>2. \A n : Cal!Round(n) = Whole(n)
    BY DEF Cal!Round, Whole
  <1>3. \A b \in Jobs : f[b] \in Nat /\ g[b] = Whole(f[b] * (100 - c)) /\ g[b] \in Int
    <2> SUFFICES ASSUME NEW b \in Jobs
                 PROVE  f[b] \in Nat /\ g[b] = Whole(f[b] * (100 - c)) /\ g[b] \in Int
      OBVIOUS
    <2>1. f[b] \in Nat /\ f[b] = bookings[b].amount
      BY DEF MoneyTypes
    <2>2. g[b] = Whole(f[b] * (100 - c))
      BY <1>2 DEF Cal!NetOf
    <2> DEFINE n == f[b]
    <2>3. n * (100 - c) \in Int
      <3> HIDE DEF f, c
      <3> QED  BY <1>1, <2>1
    <2>4. Whole(n * (100 - c)) \in Int
      <3> HIDE DEF n, c
      <3> QED  BY <2>3, RoundsNear
    <2> QED  BY <2>1, <2>2, <2>4
  <1>4. E \in SUBSET Jobs /\ C \in SUBSET E /\ Cal!Booked \in SUBSET Jobs /\ E \in SUBSET Cal!Booked
    BY DEF Cal!Earning, Cal!With, Cal!Booked
  <1>5. IsFiniteSet(Jobs) /\ \A A \in SUBSET Jobs : IsFiniteSet(A)
    BY CalCounts, FS_Subset DEF Cal!DeskAssumption
  <1> HIDE DEF f, g, c, E, C
  <1>6. \A A \in SUBSET Jobs : Cal!Worth(A) = Sum(f, A) /\ Cal!PaidNet(A) = Sum(g, A)
    <2> SUFFICES ASSUME NEW A \in SUBSET Jobs
                 PROVE  Cal!Worth(A) = Sum(f, A) /\ Cal!PaidNet(A) = Sum(g, A)
      OBVIOUS
    <2>1. IsFiniteSet(A) /\ (\A b \in A : bookings[b].amount \in Int /\ Cal!NetOf(b) \in Int)
      BY <1>3, <1>5 DEF f, g
    <2>2. [b \in A |-> bookings[b].amount] = [b \in A |-> f[b]] /\ [b \in A |-> Cal!NetOf(b)] = [b \in A |-> g[b]]
      BY DEF f, g
    <2>3. Cal!Worth(A) = Sum([b \in A |-> f[b]], A) /\ Cal!PaidNet(A) = Sum([b \in A |-> g[b]], A)
      BY <2>1, <2>2, AmountsSummed
    <2> QED  BY <1>3, <1>5, <2>3, SumOnPart
  <1> DEFINE w == Sum(f, E)  n == Sum(g, E)  p == Sum(g, C)  q == Sum(g, E \ C)  z == Whole(w * c)
  <1>7. w \in Nat /\ n \in Int /\ p \in Int /\ q \in Int /\ n = p + q
    <2>1. IsFiniteSet(E) /\ C \in SUBSET E /\ (\A x \in E : f[x] \in Nat /\ g[x] \in Int)
      BY <1>3, <1>4, <1>5
    <2> QED  BY <2>1, SumNatural, SumSplits
  <1>8. 100 * n - (100 - c) * w <= 50 * k /\ (100 - c) * w - 100 * n <= 50 * k
    <2> DEFINE r == 100 - c
    <2>1. r \in {88, 92, 94}
      BY <1>1
    <2>2. IsFiniteSet(E) /\ (\A x \in E : f[x] \in Int /\ g[x] = Whole(f[x] * r))
      BY <1>3, <1>4, <1>5
    <2> HIDE DEF r
    <2>3. 100 * n - r * w <= 50 * k /\ r * w - 100 * n <= 50 * k
      BY <2>1, <2>2, RoundedOneByOne
    <2> QED  BY <2>3 DEF r
  <1>9. z \in Int /\ 100 * z - w * c <= 50 /\ w * c - 100 * z <= 50
    <2>1. w * c \in Int
      <3> HIDE DEF w
      <3> QED  BY <1>1, <1>7
    <2> DEFINE m == w * c
    <2> HIDE DEF m
    <2>2. m \in Int
      BY <2>1 DEF m
    <2>3. Whole(m) \in Int /\ 100 * Whole(m) - m <= 50 /\ m - 100 * Whole(m) <= 50
      BY <2>2, RoundsNear
    <2> QED  BY <2>3 DEF m
  <1>a. k \in Nat /\ Cardinality(Jobs) \in Nat /\ k <= Cardinality(Jobs) /\ (k = 0 => E = {})
    BY <1>4, <1>5, FS_Subset, FS_CardinalityType, FS_EmptySet
  <1>b. k = 0 => w = 0 /\ n = 0
    BY <1>a, SumNothing
  <1>c. w - z - p - q <= k /\ -k <= w - z - p - q
    <2> HIDE DEF w, n, p, q, z, k
    <2>1. CASE c = 12  BY <2>1, <1>7, <1>8, <1>9, <1>a, <1>b
    <2>2. CASE c = 8   BY <2>2, <1>7, <1>8, <1>9, <1>a, <1>b
    <2>3. CASE c = 6   BY <2>3, <1>7, <1>8, <1>9, <1>a, <1>b
    <2> QED  BY <1>1, <2>1, <2>2, <2>3
  <1>d. w <= Sum(f, Cal!Booked)
    BY <1>3, <1>4, <1>5, SumGrows
  <1>e. /\ Cal!Earnings.totalEarned = w /\ Cal!Earnings.commission = z
        /\ Cal!Earnings.netPayout = w - z /\ Cal!Earnings.pendingPayout = w - z - p
        /\ Cal!PaidNet(Cal!Earning \ Cal!With({"completed"})) = q
        /\ Cal!Dashboard.monthEarnings = Sum(f, Cal!Booked)
    <2>1. /\ Cal!Worth(Cal!Earning) = w /\ Cal!PaidNet(Cal!With({"completed"})) = p
          /\ Cal!PaidNet(Cal!Earning \ Cal!With({"completed"})) = q
          /\ Cal!Worth(Cal!Booked) = Sum(f, Cal!Booked)
      <3>1. E \in SUBSET Jobs /\ C \in SUBSET Jobs /\ E \ C \in SUBSET Jobs /\ Cal!Booked \in SUBSET Jobs
        BY <1>4
      <3>2. Cal!Earning = E /\ Cal!With({"completed"}) = C
        BY DEF E, C
      <3> QED  BY <1>6, <3>1, <3>2
    <2>2. Cal!Round(w * Cal!Commission) = z
      BY <1>2 DEF c
    <2> QED  BY <2>1, <2>2 DEF Cal!Earnings, Cal!Dashboard
  <1>f. Cal!Cardinality(Jobs) = Cardinality(Jobs)
    BY CalCounts
  <1> HIDE DEF w, n, p, q, z, k
  <1>g. /\ (w - z - p) - q \in -Cardinality(Jobs)..Cardinality(Jobs)
        /\ (w - z) + z = w
    BY <1>7, <1>9, <1>a, <1>c
  <1> QED  BY <1>d, <1>e, <1>f, <1>g DEF Cal!PayoutsAddUp

\* The earnings.
THEOREM PayoutsStayTrue == ASSUME Cal!DeskAssumption PROVE Cal!Spec => []Cal!PayoutsAddUp
  <1>1. Cal!Init => MoneyTypes
    BY MoneyInit
  <1>2. MoneyTypes /\ [Cal!Next]_(Cal!deskVars) => MoneyTypes'
    BY MoneyStep
  <1>3. MoneyTypes => Cal!PayoutsAddUp
    BY PayoutsHold
  <1> QED  BY <1>1, <1>2, <1>3, PTL DEF Cal!Spec

-----------------------------------------------------------------------------
(* A public event and its tickets (EventCatalogue).                         *)

\* The instance counts a set as this module does.
LEMMA FairCounts ==
    \A X : Fair!Cardinality(X) = Cardinality(X) /\ (Fair!IsFiniteSet(X) <=> IsFiniteSet(X))
  BY Zenon DEF Fair!Cardinality, Fair!IsFiniteSet, Cardinality, IsFiniteSet

\* The instance sums as this module does.
LEMMA FairSums == \A f : Fair!SumFunction(f) = SumFunction(f)
  BY Zenon DEF Fair!SumFunction, Fair!SumFunctionOnSet, Fair!FoldFunctionOnSet, Fair!MapThenFoldSet,
           SumFunction, SumFunctionOnSet, FoldFunctionOnSet, MapThenFoldSet

\* The seats a booking holds of the ticket type t, and those it holds at all.
SeatsOf(bk, t) == [s \in Sales |-> IF bk[s].type = t /\ Fair!Holding(bk[s]) THEN bk[s].quantity ELSE 0]
Seats(bk)      == [s \in Sales |-> IF Fair!Holding(bk[s]) THEN bk[s].quantity ELSE 0]

\* A ticket type's row, and a booking.
ShelfRow(r) ==
    /\ r.total \in Nat /\ r.available \in Nat /\ r.from \in Nat /\ r.until \in Nat /\ r.max \in Nat
    /\ r.at \in {"none", "shelf", "archived"}
    /\ r.until = 0 \/ r.until > r.from
    /\ r.at = "none" => r.total = r.available
TicketRow(ty, b) ==
    /\ b.quantity \in Quantities \cup {0} /\ b.inside \in 0..b.minted
    /\ b.minted = IF b.status = "confirmed" THEN b.quantity ELSE 0
    /\ Fair!Holding(b) => b.type \in Types /\ ty[b.type].at = "shelf"

EventRows == [status : {"draft", "published", "sold_out", "completed", "cancelled"},
              starts : Nat, ends : Nat, max : Nat]

\* The inductive invariant of an event.
CatalogueInv ==
    /\ event \in EventRows
    /\ now \in Nat
    /\ DOMAIN types = Types /\ \A t \in Types : ShelfRow(types[t])
    /\ DOMAIN bookings = Sales /\ \A s \in Sales : TicketRow(types, bookings[s])
    /\ \A t \in Types : types[t].total - types[t].available = Sum(SeatsOf(bookings, t), Sales)
    /\ Fair!SignTellsTheShelf

\* No booking holds a seat.
LEMMA NobodyHolds == ~Fair!Holding(Fair!NoBooking)
  BY DEF Fair!Holding, Fair!NoBooking

\* An event nobody has seen satisfies the invariant.
LEMMA CatalogueInit ==
    ASSUME Fair!CatalogueAssumption, Fair!Init PROVE CatalogueInv
  <1>1. event.status = "draft" /\ event \in EventRows /\ now \in Nat
    BY DEF Fair!Init, Fair!CatalogueAssumption, EventRows
  <1>2. DOMAIN types = Types /\ \A t \in Types : ShelfRow(types[t]) /\ types[t].total = 0 /\ types[t].available = 0
    BY DEF Fair!Init, Fair!NoType, ShelfRow
  <1>3. DOMAIN bookings = Sales /\ \A s \in Sales : TicketRow(types, bookings[s])
    <2>1. DOMAIN bookings = Sales /\ \A s \in Sales : bookings[s] = Fair!NoBooking
      BY DEF Fair!Init
    <2>2. Fair!NoBooking.quantity = 0 /\ Fair!NoBooking.inside = 0 /\ Fair!NoBooking.minted = 0
          /\ Fair!NoBooking.status = "none"
      BY DEF Fair!NoBooking
    <2> QED  BY <2>1, <2>2, NobodyHolds DEF TicketRow
  <1>4. ASSUME NEW t \in Types PROVE Sum(SeatsOf(bookings, t), Sales) = 0
    <2> DEFINE f == SeatsOf(bookings, t)
               zero == [x \in {} |-> 0]
    <2>1. \A x \in Sales : f[x] = 0
      BY NobodyHolds DEF Fair!Init, SeatsOf
    <2>2. IsFiniteSet(Sales) /\ {} \in SUBSET Sales
      BY FairCounts DEF Fair!CatalogueAssumption
    <2> HIDE DEF f
    <2>3. Sum(f, {}) = Sum(f, Sales)
      BY <2>1, <2>2, SumOfSome
    <2> QED  BY <2>3, SumNothing DEF f
  <1>5. Fair!SignTellsTheShelf
    BY <1>1 DEF Fair!SignTellsTheShelf, Fair!OnShow
  <1> QED  BY <1>1, <1>2, <1>3, <1>4, <1>5 DEF CatalogueInv

\* refreshSoldOut puts up the sign the shelf asks for.
LEMMA RefreshTells ==
    ASSUME NEW ev \in EventRows, Fair!Refresh(ev, types')
    PROVE  event' \in EventRows /\ Fair!SignTellsTheShelf'
  <1> DEFINE st == IF ev.status \notin Fair!OnShow THEN ev.status
                   ELSE IF Fair!IsSoldOut(types') THEN "sold_out" ELSE "published"
  <1>1. event' = [ev EXCEPT !.status = st] /\ st \in {"draft", "published", "sold_out", "completed", "cancelled"}
    BY DEF Fair!Refresh, EventRows
  <1>2. event' \in EventRows /\ event'.status = st
    <2> HIDE DEF st
    <2> QED  BY <1>1 DEF EventRows
  <1>3. Fair!SignTellsTheShelf'
    BY <1>2 DEF Fair!OnShow, Fair!SignTellsTheShelf
  <1> QED  BY <1>2, <1>3

\* A ticket type as it goes on the shelf.
LEMMA ShelvedIs ==
    ASSUME Fair!CatalogueAssumption, NEW t, NEW terms \in Terms, NEW av \in Nat,
           Fair!TimesHold(terms.from, terms.until)
    PROVE  /\ Fair!Shelved(t, terms, av).total = terms.total /\ Fair!Shelved(t, terms, av).available = av
           /\ Fair!Shelved(t, terms, av).at = "shelf"
           /\ ShelfRow(Fair!Shelved(t, terms, av))
  <1> DEFINE r == Fair!Shelved(t, terms, av)
  <1>1. DOMAIN Fair!NoType = {"total", "active", "from", "until", "max", "price", "available", "at"}
    BY DEF Fair!NoType
  <1>2. /\ r.total = terms.total /\ r.from = terms.from /\ r.until = terms.until /\ r.max = terms.max
        /\ r.available = av /\ r.at = "shelf"
    BY <1>1 DEF Fair!Shelved
  <1>3. terms \in [total : Nat, active : BOOLEAN, from : Nat, until : Nat, max : Nat, price : Nat]
    BY DEF Fair!CatalogueAssumption
  <1> HIDE DEF r
  <1>4. ShelfRow(r)
    BY <1>2, <1>3 DEF ShelfRow, Fair!TimesHold
  <1> QED  BY <1>2, <1>4 DEF r

\* What the organizer does moves no booking.
LEMMA ShelfKeeps ==
    ASSUME CatalogueInv, bookings' = bookings, now' = now, NEW t \in Types, NEW r,
           types' = [types EXCEPT ![t] = r], ShelfRow(r),
           r.total - r.available = types[t].total - types[t].available,
           r.at = "shelf" \/ \A s \in Sales : bookings[s].type = t => ~Fair!Holding(bookings[s]),
           event' \in EventRows, Fair!SignTellsTheShelf'
    PROVE  CatalogueInv'
  <1>1. DOMAIN types' = Types /\ types'[t] = r /\ \A x \in Types : x # t => types'[x] = types[x]
    BY DEF CatalogueInv
  <1>2. \A x \in Types : ShelfRow(types'[x])
    BY <1>1 DEF CatalogueInv
  <1>3. \A s \in Sales : TicketRow(types', bookings[s])
    <2> SUFFICES ASSUME NEW s \in Sales PROVE TicketRow(types', bookings[s])
      OBVIOUS
    <2>1. TicketRow(types, bookings[s])
      BY DEF CatalogueInv
    <2>2. Fair!Holding(bookings[s]) => types'[bookings[s].type].at = "shelf"
      BY <1>1, <2>1 DEF TicketRow
    <2> QED  BY <2>1, <2>2 DEF TicketRow
  <1>4. \A x \in Types : types'[x].total - types'[x].available = Sum(SeatsOf(bookings, x), Sales)
    BY <1>1 DEF CatalogueInv
  <1> QED  BY <1>1, <1>2, <1>3, <1>4 DEF CatalogueInv

\* A new ticket type has all its seats,
LEMMA CreateTypeKeeps ==
    ASSUME Fair!CatalogueAssumption, CatalogueInv, NEW t \in Types, NEW terms \in Terms,
           Fair!CreateTicketType(t, terms)
    PROVE  CatalogueInv'
  <1> DEFINE r == Fair!Shelved(t, terms, terms.total)
  <1>1. terms.total \in Nat
    BY DEF Fair!CatalogueAssumption
  <1>2. r.total = terms.total /\ r.available = terms.total /\ r.at = "shelf" /\ ShelfRow(r)
    BY <1>1, ShelvedIs DEF Fair!CreateTicketType
  <1>3. types' = [types EXCEPT ![t] = r] /\ bookings' = bookings /\ now' = now /\ Fair!Refresh(event, types')
    BY DEF Fair!CreateTicketType
  <1>4. event' \in EventRows /\ Fair!SignTellsTheShelf'
    BY <1>3, RefreshTells DEF CatalogueInv
  <1>5. r.total - r.available = types[t].total - types[t].available
    <2>1. types[t].at = "none" /\ ShelfRow(types[t])
      BY DEF Fair!CreateTicketType, CatalogueInv
    <2> HIDE DEF r
    <2> QED  BY <1>1, <1>2, <2>1 DEF ShelfRow
  <1> HIDE DEF r
  <1> QED  BY <1>2, <1>3, <1>4, <1>5, ShelfKeeps

\* an edited one keeps the seats sold,
LEMMA UpdateTypeKeeps ==
    ASSUME Fair!CatalogueAssumption, CatalogueInv, NEW t \in Types, NEW terms \in Terms,
           Fair!UpdateTicketType(t, terms)
    PROVE  CatalogueInv'
  <1> DEFINE av == terms.total - Fair!Sold(t)
             r == Fair!Shelved(t, terms, av)
  <1>1. terms.total \in Nat
    BY DEF Fair!CatalogueAssumption
  <1>2. Fair!Sold(t) = types[t].total - types[t].available /\ Fair!Sold(t) \in Int
    BY DEF Fair!Sold, CatalogueInv, ShelfRow
  <1>3. av \in Nat /\ terms.total - av = types[t].total - types[t].available
    BY <1>1, <1>2 DEF Fair!UpdateTicketType
  <1> HIDE DEF av
  <1>4. r.total = terms.total /\ r.available = av /\ r.at = "shelf" /\ ShelfRow(r)
    BY <1>3, ShelvedIs DEF Fair!UpdateTicketType
  <1>5. types' = [types EXCEPT ![t] = r] /\ bookings' = bookings /\ now' = now /\ Fair!Refresh(event, types')
    BY DEF Fair!UpdateTicketType, av
  <1>6. event' \in EventRows /\ Fair!SignTellsTheShelf'
    BY <1>5, RefreshTells DEF CatalogueInv
  <1> HIDE DEF r
  <1> QED  BY <1>3, <1>4, <1>5, <1>6, ShelfKeeps

\* and one that is archived has sold none.
LEMMA ArchiveKeeps ==
    ASSUME CatalogueInv, NEW t \in Types, Fair!ArchiveTicketType(t)
    PROVE  CatalogueInv'
  <1> DEFINE r == [types[t] EXCEPT !.at = "archived"]
  <1>1. types' = [types EXCEPT ![t] = r] /\ bookings' = bookings /\ now' = now /\ Fair!Refresh(event, types')
    BY DEF Fair!ArchiveTicketType
  <1>2. event' \in EventRows /\ Fair!SignTellsTheShelf'
    BY <1>1, RefreshTells DEF CatalogueInv
  <1>3. ShelfRow(types[t]) /\ types[t].at = "shelf"
    BY DEF Fair!ArchiveTicketType, CatalogueInv
  <1>4. /\ r.total = types[t].total /\ r.available = types[t].available /\ r.from = types[t].from
        /\ r.until = types[t].until /\ r.max = types[t].max /\ (r.at = "archived" \/ r.at = types[t].at)
    OBVIOUS
  <1>5. ShelfRow(r) /\ r.total - r.available = types[t].total - types[t].available
    <2> HIDE DEF r
    <2> QED  BY <1>3, <1>4 DEF ShelfRow
  <1>6. \A s \in Sales : bookings[s].type = t => ~Fair!Holding(bookings[s])
    BY DEF Fair!ArchiveTicketType, Fair!Of
  <1> HIDE DEF r
  <1> QED  BY <1>1, <1>2, <1>5, <1>6, ShelfKeeps

\* The times, the ceiling and the status of the event.
LEMMA EventKeeps ==
    ASSUME Fair!CatalogueAssumption, CatalogueInv,
           Fair!Update \/ Fair!Tick \/ \E to \in {"draft", "published"} \cup Fair!Final : Fair!ChangeStatus(to)
    PROVE  CatalogueInv'
  <1>0. types' = types /\ bookings' = bookings
    BY DEF Fair!Update, Fair!Tick, Fair!ChangeStatus
  <1>1. CASE Fair!Update
    <2>1. PICK s \in Starts, e \in Ends \cup {0}, m \in Ceilings :
            event' = [event EXCEPT !.starts = s, !.ends = e, !.max = m]
      BY <1>1 DEF Fair!Update
    <2>2. s \in Nat /\ e \in Nat /\ m \in Nat
      BY DEF Fair!CatalogueAssumption
    <2>3. event' \in EventRows /\ event'.status = event.status
      BY <2>1, <2>2 DEF CatalogueInv, EventRows
    <2>4. Fair!SignTellsTheShelf' /\ now' = now
      BY <1>0, <1>1, <2>3 DEF CatalogueInv, Fair!SignTellsTheShelf, Fair!Update
    <2> QED  BY <1>0, <2>3, <2>4 DEF CatalogueInv
  <1>2. CASE Fair!Tick
    <2>1. event' = event /\ now' = now + 1
      BY <1>2 DEF Fair!Tick
    <2> QED  BY <1>0, <2>1 DEF CatalogueInv, Fair!SignTellsTheShelf
  <1>3. ASSUME NEW to \in {"draft", "published"} \cup Fair!Final, Fair!ChangeStatus(to) PROVE CatalogueInv'
    <2> DEFINE moved == [event EXCEPT !.status = to]
    <2>1. moved \in EventRows /\ moved.status = to
      BY DEF CatalogueInv, EventRows, Fair!Final
    <2>2. event' \in EventRows /\ Fair!SignTellsTheShelf'
      <3>1. CASE to = "published"
        <4>1. Fair!Refresh(moved, types')
          BY <1>0, <1>3, <3>1 DEF Fair!ChangeStatus
        <4> HIDE DEF moved
        <4> QED  BY <2>1, <4>1, RefreshTells
      <3>2. CASE to # "published"
        <4>1. event' = moved
          BY <1>3, <3>2 DEF Fair!ChangeStatus
        <4> HIDE DEF moved
        <4> QED  BY <2>1, <3>2, <4>1 DEF Fair!SignTellsTheShelf, Fair!OnShow, Fair!Final
      <3> QED  BY <3>1, <3>2
    <2>3. now' = now
      BY <1>3 DEF Fair!ChangeStatus
    <2> QED  BY <1>0, <2>2, <2>3 DEF CatalogueInv
  <1> QED  BY <1>1, <1>2, <1>3

\* What holds seats of some bookings, counted over all of them.
LEMMA HeldIs ==
    ASSUME Fair!CatalogueAssumption, CatalogueInv, NEW S \in SUBSET Sales
    PROVE  LET f == [s \in Sales |-> IF s \in S /\ Fair!Holding(bookings[s]) THEN bookings[s].quantity ELSE 0]
           IN Fair!SeatsHeld(S) = Sum(f, Sales) /\ \A s \in Sales : f[s] \in Nat
  <1> DEFINE f == [s \in Sales |-> IF s \in S /\ Fair!Holding(bookings[s]) THEN bookings[s].quantity ELSE 0]
             A == {x \in S : Fair!Holding(bookings[x])}
             g == [s \in A |-> bookings[s].quantity]
  <1>0. IsFiniteSet(Sales) /\ A \in SUBSET Sales /\ IsFiniteSet(A)
    BY FairCounts, FS_Subset DEF Fair!CatalogueAssumption
  <1>1. \A s \in Sales : bookings[s].quantity \in Nat
    BY DEF CatalogueInv, TicketRow, Fair!CatalogueAssumption
  <1>2. \A s \in Sales : f[s] \in Nat /\ (s \in A => g[s] = f[s]) /\ (s \notin A => f[s] = 0)
    BY <1>1
  <1>3. DOMAIN g = A /\ \A s \in A : g[s] \in Int
    BY <1>1
  <1>4. Fair!SeatsHeld(S) = SumFunction(g)
    BY FairSums DEF Fair!SeatsHeld
  <1> HIDE DEF f, g, A
  <1>5. SumFunction(g) = Sum(g, A)
    BY <1>0, <1>3, SumFunctionIs
  <1>6. Sum(g, A) = Sum(f, Sales)
    <2>1. \A s \in Sales : f[s] \in Int /\ (s \in A => g[s] = f[s]) /\ (s \notin A => f[s] = 0)
      BY <1>2
    <2> QED  BY <1>0, <2>1, SumOfSome
  <1> QED  BY <1>2, <1>4, <1>5, <1>6 DEF f

\* Seats are counted in natural numbers.
LEMMA SeatsTyped ==
    ASSUME Fair!CatalogueAssumption, CatalogueInv, NEW t
    PROVE  /\ \A s \in Sales : SeatsOf(bookings, t)[s] \in Nat
           /\ Sum(SeatsOf(bookings, t), Sales) \in Nat
           /\ Fair!SeatsHeld(Fair!Of(t)) = Sum(SeatsOf(bookings, t), Sales)
  <1> DEFINE S == Fair!Of(t)
             f == [s \in Sales |-> IF s \in S /\ Fair!Holding(bookings[s]) THEN bookings[s].quantity ELSE 0]
  <1>1. S \in SUBSET Sales
    BY DEF Fair!Of
  <1>2. Fair!SeatsHeld(S) = Sum(f, Sales) /\ \A s \in Sales : f[s] \in Nat
    <2> HIDE DEF S
    <2> QED  BY <1>1, HeldIs
  <1>3. f = SeatsOf(bookings, t)
    BY DEF Fair!Of, SeatsOf
  <1>4. IsFiniteSet(Sales)
    BY FairCounts DEF Fair!CatalogueAssumption
  <1> HIDE DEF f, S
  <1>5. Sum(f, Sales) \in Nat
    BY <1>2, <1>4, SumNatural
  <1> QED  BY <1>2, <1>3, <1>5 DEF S

\* The allowance of a customer is no more than the shelf has.
LEMMA AllowanceBounded ==
    ASSUME Fair!CatalogueAssumption, CatalogueInv, NEW c, NEW t \in Types, NEW n \in Nat, n <= Fair!Allowance(c, t)
    PROVE  n <= types[t].available
  <1> DEFINE L == {types[t].available} \cup {m \in {event.max, types[t].max} : m > 0}
  <1>1. L \in SUBSET Nat /\ types[t].available \in L
    BY DEF CatalogueInv, ShelfRow, EventRows
  <1>2. \E m \in L : \A k \in L : m <= k
    <2> HIDE DEF L
    <2> QED  BY <1>1, Smallest
  <1>3. Fair!PerCustomerLimit(t) = CHOOSE m \in L : \A k \in L : m <= k
    BY DEF Fair!PerCustomerLimit, Fair!Min
  <1> HIDE DEF L
  <1>4. Fair!PerCustomerLimit(t) \in Nat /\ Fair!PerCustomerLimit(t) <= types[t].available
    BY <1>1, <1>2, <1>3
  <1>5. Fair!SeatsHeld(Fair!By(c) \cap Fair!Of(t)) \in Nat
    <2> DEFINE S == Fair!By(c) \cap Fair!Of(t)
               f == [s \in Sales |-> IF s \in S /\ Fair!Holding(bookings[s]) THEN bookings[s].quantity ELSE 0]
    <2>1. S \in SUBSET Sales
      BY DEF Fair!Of
    <2> HIDE DEF S
    <2>2. Fair!SeatsHeld(S) = Sum(f, Sales) /\ \A s \in Sales : f[s] \in Nat
      BY <2>1, HeldIs
    <2>3. IsFiniteSet(Sales)
      BY FairCounts DEF Fair!CatalogueAssumption
    <2> HIDE DEF f
    <2>4. Sum(f, Sales) \in Nat
      BY <2>2, <2>3, SumNatural
    <2> QED  BY <2>2, <2>4 DEF S
  <1>6. types[t].available \in Nat
    BY DEF CatalogueInv, ShelfRow
  <1> QED  BY <1>4, <1>5, <1>6 DEF Fair!Allowance

\* A booking that changes and keeps its seats, or is made without.
LEMMA BookingKeeps ==
    ASSUME CatalogueInv, NEW s \in Sales, NEW b, bookings' = [bookings EXCEPT ![s] = b], types' = types,
           event' = event, now' = now, TicketRow(types, b),
           \/ Fair!Holding(b) /\ Fair!Holding(bookings[s]) /\ b.type = bookings[s].type /\ b.quantity = bookings[s].quantity
           \/ ~Fair!Holding(b) /\ ~Fair!Holding(bookings[s])
    PROVE  CatalogueInv'
  <1>1. DOMAIN bookings' = Sales /\ bookings'[s] = b /\ \A x \in Sales : x # s => bookings'[x] = bookings[x]
    BY DEF CatalogueInv
  <1>2. \A t : SeatsOf(bookings', t) = SeatsOf(bookings, t)
    BY <1>1 DEF SeatsOf
  <1>3. \A x \in Sales : TicketRow(types, bookings'[x])
    BY <1>1 DEF CatalogueInv
  <1>4. Fair!SignTellsTheShelf'
    BY DEF CatalogueInv, Fair!SignTellsTheShelf
  <1> QED  BY <1>1, <1>2, <1>3, <1>4 DEF CatalogueInv

\* The door and the payment.
LEMMA TicketsKeep ==
    ASSUME Fair!CatalogueAssumption, CatalogueInv, NEW s \in Sales,
           Fair!ConfirmBooking(s) \/ Fair!RefuseSignature(s) \/ Fair!CheckIn(s)
    PROVE  CatalogueInv'
  <1>0. TicketRow(types, bookings[s]) /\ bookings[s].quantity \in Nat
    BY DEF CatalogueInv, TicketRow, Fair!CatalogueAssumption
  <1>1. CASE Fair!ConfirmBooking(s)
    <2> DEFINE b == [bookings[s] EXCEPT !.payment = "paid", !.status = "confirmed", !.minted = bookings[s].quantity]
    <2>1. bookings' = [bookings EXCEPT ![s] = b] /\ types' = types /\ event' = event /\ now' = now
          /\ bookings[s].status = "pending"
      BY <1>1 DEF Fair!ConfirmBooking
    <2>2. TicketRow(types, b) /\ Fair!Holding(b) /\ Fair!Holding(bookings[s])
          /\ b.type = bookings[s].type /\ b.quantity = bookings[s].quantity
      BY <1>0, <2>1 DEF TicketRow, Fair!Holding
    <2> HIDE DEF b
    <2> QED  BY <2>1, <2>2, BookingKeeps
  <1>2. CASE Fair!RefuseSignature(s)
    <2> DEFINE b == [bookings[s] EXCEPT !.payment = "failed"]
    <2>1. bookings' = [bookings EXCEPT ![s] = b] /\ types' = types /\ event' = event /\ now' = now
          /\ bookings[s].status = "pending"
      BY <1>2 DEF Fair!RefuseSignature
    <2>2. TicketRow(types, b) /\ Fair!Holding(b) /\ Fair!Holding(bookings[s])
          /\ b.type = bookings[s].type /\ b.quantity = bookings[s].quantity
      BY <1>0, <2>1 DEF TicketRow, Fair!Holding
    <2> HIDE DEF b
    <2> QED  BY <2>1, <2>2, BookingKeeps
  <1>3. CASE Fair!CheckIn(s)
    <2> DEFINE b == [bookings[s] EXCEPT !.inside = bookings[s].inside + 1]
    <2>1. bookings' = [bookings EXCEPT ![s] = b] /\ types' = types /\ event' = event /\ now' = now
          /\ bookings[s].status = "confirmed" /\ bookings[s].inside < bookings[s].minted
      BY <1>3 DEF Fair!CheckIn
    <2>2. TicketRow(types, b) /\ Fair!Holding(b) /\ Fair!Holding(bookings[s])
          /\ b.type = bookings[s].type /\ b.quantity = bookings[s].quantity
      BY <1>0, <2>1 DEF TicketRow, Fair!Holding
    <2> HIDE DEF b
    <2> QED  BY <2>1, <2>2, BookingKeeps
  <1> QED  BY <1>1, <1>2, <1>3

\* Seats sold leave the shelf; a booking the gateway refused holds none.
LEMMA StartKeeps ==
    ASSUME Fair!CatalogueAssumption, CatalogueInv, NEW s \in Sales, NEW c \in Customers, NEW t \in Types,
           NEW n \in Quantities, Fair!StartBooking(s, c, t, n)
    PROVE  CatalogueInv'
  <1> DEFINE amount == types[t].price * n
             booking == [by |-> c, type |-> t, quantity |-> n, amount |-> amount, inside |-> 0,
                         payment |-> "pending", status |-> "pending", minted |-> 0]
             paid == [booking EXCEPT !.payment = "paid", !.status = "confirmed", !.minted = n]
             refused == [booking EXCEPT !.status = "cancelled"]
             b == IF amount = 0 THEN paid ELSE booking
  <1>1. bookings[s] = Fair!NoBooking /\ ~Fair!Holding(bookings[s]) /\ now' = now /\ n \in Nat
        /\ types[t].at = "shelf" /\ n <= types[t].available
    <2>1. bookings[s] = Fair!NoBooking /\ now' = now /\ Fair!IsOnSale(t, now) /\ n <= Fair!Allowance(c, t)
      BY DEF Fair!StartBooking
    <2>2. n \in Nat
      BY DEF Fair!CatalogueAssumption
    <2>3. n <= types[t].available
      BY <2>1, <2>2, AllowanceBounded
    <2> QED  BY <2>1, <2>2, <2>3, NobodyHolds DEF Fair!IsOnSale
  <1>2. CASE bookings' = [bookings EXCEPT ![s] = refused] /\ event' = event /\ types' = types
    <2>1. TicketRow(types, refused) /\ ~Fair!Holding(refused)
      BY <1>1 DEF TicketRow, Fair!Holding
    <2> HIDE DEF refused
    <2> QED  BY <1>1, <1>2, <2>1, BookingKeeps
  <1>3. CASE /\ bookings' = [bookings EXCEPT ![s] = b]
             /\ types' = [types EXCEPT ![t].available = types[t].available - n]
             /\ Fair!Refresh(event, types')
    <2> DEFINE r == [types[t] EXCEPT !.available = types[t].available - n]
    <2>1. /\ b.type = t /\ b.quantity = n /\ b.inside = 0 /\ Fair!Holding(b)
          /\ b.minted = IF b.status = "confirmed" THEN n ELSE 0
      BY DEF Fair!Holding
    <2>2. types' = [types EXCEPT ![t] = r]
      BY <1>3
    <2>3. /\ r.total = types[t].total /\ r.available = types[t].available - n /\ r.from = types[t].from
          /\ r.until = types[t].until /\ r.max = types[t].max /\ r.at = types[t].at
      OBVIOUS
    <2> HIDE DEF b, r
    <2>4. ShelfRow(types[t])
      BY DEF CatalogueInv
    <2>5. ShelfRow(r) /\ r.at = "shelf" /\ r.total - r.available = (types[t].total - types[t].available) + n
      BY <1>1, <2>3, <2>4 DEF ShelfRow
    <2>6. DOMAIN types' = Types /\ types'[t] = r /\ \A x \in Types : x # t => types'[x] = types[x]
      BY <2>2 DEF CatalogueInv
    <2>7. DOMAIN bookings' = Sales /\ bookings'[s] = b /\ \A x \in Sales : x # s => bookings'[x] = bookings[x]
      BY <1>3 DEF CatalogueInv
    <2>8. \A x \in Types : ShelfRow(types'[x])
      BY <2>5, <2>6 DEF CatalogueInv
    <2>9. \A x \in Sales : TicketRow(types', bookings'[x])
      <3> SUFFICES ASSUME NEW x \in Sales PROVE TicketRow(types', bookings'[x])
        OBVIOUS
      <3>1. CASE x = s
        <4>1. TicketRow(types', b)
          BY <1>1, <2>1, <2>5, <2>6 DEF TicketRow
        <4> QED  BY <2>7, <3>1, <4>1
      <3>2. CASE x # s
        <4>1. bookings'[x] = bookings[x] /\ TicketRow(types, bookings[x])
          BY <2>7, <3>2 DEF CatalogueInv
        <4>2. Fair!Holding(bookings[x]) => types'[bookings[x].type].at = "shelf"
          BY <2>5, <2>6, <4>1 DEF TicketRow
        <4> QED  BY <4>1, <4>2 DEF TicketRow
      <3> QED  BY <3>1, <3>2
    <2>a. ASSUME NEW x \in Types PROVE types'[x].total - types'[x].available = Sum(SeatsOf(bookings', x), Sales)
      <3> DEFINE f == SeatsOf(bookings, x)  g == SeatsOf(bookings', x)
      <3>1. \A y \in Sales : f[y] \in Nat /\ (y # s => g[y] = f[y])
        BY <2>7, SeatsTyped DEF SeatsOf
      <3>2. f[s] = 0 /\ g[s] = IF x = t THEN n ELSE 0
        BY <1>1, <2>1, <2>7 DEF SeatsOf
      <3>3. IsFiniteSet(Sales)
        BY FairCounts DEF Fair!CatalogueAssumption
      <3> HIDE DEF f, g
      <3>4. Sum(g, Sales) = (Sum(f, Sales) - f[s]) + g[s]
        <4>1. \A y \in Sales : f[y] \in Int /\ g[y] \in Int /\ (y # s => g[y] = f[y])
          BY <1>1, <3>1, <3>2
        <4> QED  BY <3>3, <4>1, SumChanges
      <3>5. types[x].total - types[x].available = Sum(f, Sales) /\ Sum(f, Sales) \in Nat
        BY SeatsTyped DEF CatalogueInv, f
      <3>6. CASE x = t
        <4>1. types'[x].total - types'[x].available = Sum(f, Sales) + n
          BY <2>5, <2>6, <3>5, <3>6
        <4>2. Sum(g, Sales) = (Sum(f, Sales) - 0) + n
          BY <3>2, <3>4, <3>6
        <4>3. types'[x].total - types'[x].available = Sum(g, Sales)
          BY <1>1, <3>5, <4>1, <4>2
        <4> QED  BY <4>3 DEF g
      <3>7. CASE x # t
        <4>1. types'[x] = types[x]
          BY <2>6, <3>7
        <4>2. Sum(g, Sales) = (Sum(f, Sales) - 0) + 0
          BY <3>2, <3>4, <3>7
        <4>3. types'[x].total - types'[x].available = Sum(g, Sales)
          BY <3>5, <4>1, <4>2
        <4> QED  BY <4>3 DEF g
      <3> QED  BY <3>6, <3>7
    <2>b. event' \in EventRows /\ Fair!SignTellsTheShelf'
      BY <1>3, RefreshTells DEF CatalogueInv
    <2>c. now' \in Nat
      BY <1>1 DEF CatalogueInv
    <2> QED  BY <2>6, <2>7, <2>8, <2>9, <2>a, <2>b, <2>c DEF CatalogueInv
  <1>4. \/ /\ bookings' = [bookings EXCEPT ![s] = b]
           /\ types' = [types EXCEPT ![t].available = types[t].available - n]
           /\ Fair!Refresh(event, types')
        \/ bookings' = [bookings EXCEPT ![s] = refused] /\ event' = event /\ types' = types
    BY DEF Fair!StartBooking
  <1> HIDE DEF b, refused
  <1> QED  BY <1>2, <1>3, <1>4

\* Every step keeps the invariant.
LEMMA CatalogueStep ==
    ASSUME Fair!CatalogueAssumption, CatalogueInv, [Fair!Next]_(Fair!catalogueVars) PROVE CatalogueInv'
  <1>1. CASE UNCHANGED Fair!catalogueVars
    BY <1>1 DEF Fair!catalogueVars, CatalogueInv, Fair!SignTellsTheShelf
  <1>2. CASE Fair!Next
    BY <1>2, EventKeeps, ArchiveKeeps, CreateTypeKeeps, UpdateTypeKeeps, StartKeeps, TicketsKeep DEF Fair!Next
  <1> QED  BY <1>1, <1>2

\* The numbers of a booking.
LEMMA TicketTyped ==
    ASSUME Fair!CatalogueAssumption, CatalogueInv, NEW s \in Sales
    PROVE  /\ bookings[s].quantity \in Nat /\ bookings[s].minted \in Nat /\ bookings[s].inside \in 0..bookings[s].minted
           /\ bookings[s].minted \in Quantities \cup {0}
           /\ TicketRow(types, bookings[s])
  <1>1. TicketRow(types, bookings[s])
    BY DEF CatalogueInv
  <1>2. bookings[s].quantity \in Quantities \cup {0} /\ bookings[s].inside \in 0..bookings[s].minted
        /\ bookings[s].minted = IF bookings[s].status = "confirmed" THEN bookings[s].quantity ELSE 0
    BY <1>1 DEF TicketRow
  <1>3. Quantities \cup {0} \subseteq Nat
    BY DEF Fair!CatalogueAssumption
  <1> QED  BY <1>1, <1>2, <1>3

\* Every seat held is of a type on the shelf.
LEMMA HeldByType ==
    ASSUME Fair!CatalogueAssumption, CatalogueInv,
           NEW held, \A t \in Fair!Listed(types) : held[t] = Sum(SeatsOf(bookings, t), Sales)
    PROVE  Sum(held, Fair!Listed(types)) = Fair!SeatsHeld(Sales)
  <1> DEFINE L == Fair!Listed(types)
             In(T) == [s \in Sales |-> IF bookings[s].type \in T /\ Fair!Holding(bookings[s])
                                       THEN bookings[s].quantity ELSE 0]
             P == {T \in SUBSET L : Sum(held, T) = Sum(In(T), Sales)}
  <1>1. IsFiniteSet(Sales) /\ IsFiniteSet(Types) /\ \A s \in Sales : bookings[s].quantity \in Nat
    BY FairCounts DEF Fair!CatalogueAssumption, CatalogueInv, TicketRow
  <1>2. IsFiniteSet(L) /\ \A T \in SUBSET L : IsFiniteSet(T)
    BY <1>1, FS_Subset DEF Fair!Listed
  <1>3. \A t \in L : held[t] = Sum(SeatsOf(bookings, t), Sales) /\ held[t] \in Nat
    BY SeatsTyped
  <1>4. \A T : \A s \in Sales : In(T)[s] \in Nat
    BY <1>1
  <1> HIDE DEF L
  <1>5. ASSUME NEW T \in SUBSET L, \A x \in T : T \ {x} \in P PROVE T \in P
    <2>1. CASE T = {}
      <3>1. \A s \in Sales : In(T)[s] = 0
        BY <2>1
      <3>2. Sum(In(T), {}) = Sum(In(T), Sales)
        <4> DEFINE f == In(T)
        <4>1. {} \in SUBSET Sales /\ \A s \in Sales : f[s] = 0
          BY <3>1
        <4> HIDE DEF f
        <4>2. Sum(f, {}) = Sum(f, Sales)
          BY <1>1, <4>1, SumOfSome
        <4> QED  BY <4>2 DEF f
      <3>3. Sum(held, T) = 0 /\ Sum(In(T), {}) = 0
        BY <2>1, SumNothing
      <3> QED  BY <3>2, <3>3
    <2>2. CASE T # {}
      <3>1. PICK x \in T : TRUE
        BY <2>2
      <3> DEFINE U == T \ {x}  f == In(U)  g == SeatsOf(bookings, x)  h == In(T)
      <3>2. \A s \in Sales : f[s] \in Int /\ g[s] \in Int /\ h[s] = f[s] + g[s]
        <4> SUFFICES ASSUME NEW s \in Sales PROVE f[s] \in Int /\ g[s] \in Int /\ h[s] = f[s] + g[s]
          OBVIOUS
        <4>1. bookings[s].quantity \in Int
          BY <1>1
        <4>2. CASE bookings[s].type = x
          BY <3>1, <4>1, <4>2 DEF SeatsOf
        <4>3. CASE bookings[s].type # x
          BY <3>1, <4>1, <4>3 DEF SeatsOf
        <4> QED  BY <4>2, <4>3
      <3>3. Sum(held, T) = held[x] + Sum(held, U)
        <4>1. IsFiniteSet(T) /\ \A t \in T : held[t] \in Int
          BY <1>2, <1>3
        <4> QED  BY <3>1, <4>1, SumTakes
      <3>4. Sum(held, U) = Sum(f, Sales)
        BY <1>5, <3>1
      <3>5. held[x] = Sum(g, Sales) /\ held[x] \in Int
        BY <1>3, <3>1
      <3> HIDE DEF f, g, h
      <3>6. Sum(h, Sales) = Sum(f, Sales) + Sum(g, Sales)
        BY <1>1, <3>2, SumAdds
      <3>7. Sum(f, Sales) \in Int
        BY <1>1, <3>2, SumSame
      <3>8. Sum(held, T) = Sum(h, Sales)
        BY <3>3, <3>4, <3>5, <3>6, <3>7
      <3> QED  BY <3>8 DEF h
    <2> QED  BY <2>1, <2>2
  <1>6. L \in P
    <2> HIDE DEF P
    <2> QED  BY <1>2, <1>5, SetInduction
  <1> DEFINE all == [s \in Sales |-> IF s \in Sales /\ Fair!Holding(bookings[s]) THEN bookings[s].quantity ELSE 0]
  <1>7. In(L) = all
    <2> SUFFICES ASSUME NEW s \in Sales, Fair!Holding(bookings[s]) PROVE bookings[s].type \in L
      OBVIOUS
    <2> QED  BY DEF L, Fair!Listed, CatalogueInv, TicketRow
  <1>8. Fair!SeatsHeld(Sales) = Sum(all, Sales)
    BY HeldIs, Sales \in SUBSET Sales
  <1> QED  BY <1>6, <1>7, <1>8 DEF L

\* The rows of the door: as many as the tickets minted, or used.
LEMMA RowsCounted ==
    ASSUME Fair!CatalogueAssumption, CatalogueInv
    PROVE  /\ Cardinality(Fair!Attendees("checked_in")) = Sum([s \in Sales |-> bookings[s].inside], Sales)
           /\ Cardinality(Fair!Attendees("checked_in") \cup Fair!Attendees("pending"))
                = Sum([s \in Sales |-> bookings[s].minted], Sales)
  <1> DEFINE M == Fair!Max(Quantities \cup {0})
             minted == [s \in Sales |-> bookings[s].minted]
             inside == [s \in Sales |-> bookings[s].inside]
  <1>1. IsFiniteSet(Sales) /\ IsFiniteSet(Quantities) /\ Quantities \subseteq Nat
    BY FairCounts DEF Fair!CatalogueAssumption
  <1>2. M \in Nat /\ \A q \in Quantities \cup {0} : q <= M
    <2> DEFINE Q == Quantities \cup {0}
    <2>1. Q \in SUBSET Nat /\ IsFiniteSet(Q) /\ Q # {}
      BY <1>1, FS_AddElement
    <2> HIDE DEF Q
    <2>2. \E m \in Q : \A n \in Q : m >= n
      BY <2>1, Largest
    <2>3. Fair!Max(Q) \in Q /\ \A n \in Q : Fair!Max(Q) >= n
      BY <2>2 DEF Fair!Max
    <2>4. Fair!Max(Q) \in Nat /\ \A n \in Q : n <= Fair!Max(Q)
      BY <2>1, <2>3
    <2> QED  BY <2>4 DEF Q
  <1> HIDE DEF M
  <1>3. \A s \in Sales : minted[s] \in 0..M /\ inside[s] \in 0..minted[s]
    <2> SUFFICES ASSUME NEW s \in Sales PROVE minted[s] \in 0..M /\ inside[s] \in 0..minted[s]
      OBVIOUS
    <2>1. bookings[s].minted \in Nat /\ bookings[s].inside \in 0..bookings[s].minted
          /\ bookings[s].minted \in Quantities \cup {0}
      BY TicketTyped
    <2>2. bookings[s].minted <= M
      BY <1>2, <2>1
    <2> QED  BY <1>2, <2>1, <2>2
  <1>4. \A s \in Sales : inside[s] \in 0..M
    BY <1>2, <1>3
  <1>5. Fair!Attendees("checked_in") = {p \in Sales \X (1..M) : p[2] <= inside[p[1]]}
    <2>1. ASSUME NEW p \in Sales \X (1..M)
          PROVE  (p[2] <= minted[p[1]] /\ "checked_in" = (IF p[2] <= inside[p[1]] THEN "checked_in" ELSE "pending"))
                   <=> p[2] <= inside[p[1]]
      <3>1. p[1] \in Sales /\ p[2] \in 1..M
        OBVIOUS
      <3>2. inside[p[1]] <= minted[p[1]] /\ inside[p[1]] \in Int /\ minted[p[1]] \in Int
        BY <1>3, <3>1
      <3> HIDE DEF minted, inside
      <3> QED  BY <1>2, <3>1, <3>2
    <2> QED  BY <2>1 DEF Fair!Attendees, M
  <1>6. Fair!Attendees("checked_in") \cup Fair!Attendees("pending")
          = {p \in Sales \X (1..M) : p[2] <= minted[p[1]]}
    BY DEF Fair!Attendees, M
  <1> HIDE DEF minted, inside
  <1>7. Cardinality(Fair!Attendees("checked_in")) = Sum(inside, Sales)
    BY <1>1, <1>2, <1>4, <1>5, PairsCounted
  <1>8. Cardinality(Fair!Attendees("checked_in") \cup Fair!Attendees("pending")) = Sum(minted, Sales)
    BY <1>1, <1>2, <1>3, <1>6, PairsCounted
  <1> QED  BY <1>7, <1>8 DEF minted, inside

\* The figures of every screen are counts of the same bookings.
LEMMA FiguresHold ==
    ASSUME Fair!CatalogueAssumption, CatalogueInv
    PROVE  Fair!FiguresAgree
  <1> DEFINE L == Fair!Listed(types)
             minted == [s \in Sales |-> bookings[s].minted]
             inside == [s \in Sales |-> bookings[s].inside]
             total  == [t \in L |-> types[t].total]
             left   == [t \in L |-> types[t].available]
             held   == [t \in L |-> Sum(SeatsOf(bookings, t), Sales)]
             D == Fair!Dashboard
             C == {s \in Sales : bookings[s].status = "confirmed"}
  <1>1. IsFiniteSet(Sales) /\ IsFiniteSet(Types) /\ IsFiniteSet(Quantities) /\ Quantities \subseteq Nat
    BY FairCounts DEF Fair!CatalogueAssumption
  <1>2. L \in SUBSET Types /\ IsFiniteSet(L) /\ \A t \in L : types[t].at = "shelf"
    BY <1>1, FS_Subset DEF Fair!Listed
  <1>3. \A s \in Sales : TicketRow(types, bookings[s]) /\ bookings[s].quantity \in Nat
                         /\ minted[s] \in Nat /\ inside[s] \in 0..minted[s]
    <2> SUFFICES ASSUME NEW s \in Sales
                 PROVE  /\ TicketRow(types, bookings[s]) /\ bookings[s].quantity \in Nat
                        /\ minted[s] \in Nat /\ inside[s] \in 0..minted[s]
      OBVIOUS
    <2> QED  BY TicketTyped
  <1>4. \A t \in L : /\ total[t] \in Nat /\ left[t] \in Nat /\ held[t] \in Nat
                     /\ total[t] = left[t] + held[t]
    <2> SUFFICES ASSUME NEW t \in L
                 PROVE  total[t] \in Nat /\ left[t] \in Nat /\ held[t] \in Nat /\ total[t] = left[t] + held[t]
      OBVIOUS
    <2>1. /\ types[t].total \in Nat /\ types[t].available \in Nat
          /\ types[t].total - types[t].available = Sum(SeatsOf(bookings, t), Sales)
      BY <1>2 DEF CatalogueInv, ShelfRow
    <2>2. Sum(SeatsOf(bookings, t), Sales) \in Nat
      BY SeatsTyped
    <2> QED  BY <2>1, <2>2
  <1>5. D.sold = SumFunction(minted) /\ D.checkedIn = SumFunction(inside)
        /\ D.capacity = SumFunction(total) /\ D.remaining = SumFunction(left)
    BY FairSums DEF Fair!Dashboard
  <1> HIDE DEF D, L
  <1>6. D.sold = Sum(minted, Sales) /\ D.checkedIn = Sum(inside, Sales)
    <2>1. DOMAIN minted = Sales /\ DOMAIN inside = Sales /\ \A s \in Sales : minted[s] \in Int /\ inside[s] \in Int
      BY <1>3
    <2> HIDE DEF minted, inside
    <2> QED  BY <1>1, <1>5, <2>1, SumFunctionIs
  <1>7. D.capacity = Sum(total, L) /\ D.remaining = Sum(left, L)
    <2>1. DOMAIN total = L /\ DOMAIN left = L /\ \A t \in L : total[t] \in Int /\ left[t] \in Int
      BY <1>4
    <2> HIDE DEF total, left
    <2> QED  BY <1>2, <1>5, <2>1, SumFunctionIs
  <1>8. Sum(total, L) = Sum(left, L) + Sum(held, L)
    <2>1. \A t \in L : left[t] \in Int /\ held[t] \in Int /\ total[t] = left[t] + held[t]
      BY <1>4
    <2> HIDE DEF total, left, held
    <2> QED  BY <1>2, <2>1, SumAdds
  <1>9. Sum(held, L) = Fair!SeatsHeld(Sales)
    <2>1. \A t \in Fair!Listed(types) : held[t] = Sum(SeatsOf(bookings, t), Sales)
      BY DEF L
    <2> HIDE DEF held
    <2> QED  BY <2>1, HeldByType DEF L
  <1>a. D.sold = Fair!SeatsHeld(C)
    <2> DEFINE f == [s \in Sales |-> IF s \in C /\ Fair!Holding(bookings[s]) THEN bookings[s].quantity ELSE 0]
    <2>1. f = minted
      <3> SUFFICES ASSUME NEW s \in Sales
                   PROVE  bookings[s].minted = IF s \in C /\ Fair!Holding(bookings[s]) THEN bookings[s].quantity ELSE 0
        OBVIOUS
      <3>1. TicketRow(types, bookings[s])
        BY <1>3
      <3> QED  BY <3>1 DEF TicketRow, Fair!Holding
    <2>2. C \in SUBSET Sales
      OBVIOUS
    <2>3. Fair!SeatsHeld(C) = Sum(f, Sales)
      <3> HIDE DEF C
      <3> QED  BY <2>2, HeldIs
    <2> HIDE DEF f, minted
    <2> QED  BY <1>6, <2>1, <2>3
  <1>b. \A t \in L : Fair!Sold(t) = Fair!SeatsHeld(Fair!Of(t)) /\ types[t].available >= 0
    <2> SUFFICES ASSUME NEW t \in L
                 PROVE  Fair!Sold(t) = Fair!SeatsHeld(Fair!Of(t)) /\ types[t].available >= 0
      OBVIOUS
    <2>1. types[t].total - types[t].available = Sum(SeatsOf(bookings, t), Sales) /\ types[t].available \in Nat
      BY <1>2 DEF CatalogueInv, ShelfRow
    <2>2. Fair!SeatsHeld(Fair!Of(t)) = Sum(SeatsOf(bookings, t), Sales)
      BY SeatsTyped
    <2> QED  BY <2>1, <2>2 DEF Fair!Sold
  <1>c. Fair!Cardinality(Fair!Attendees("checked_in")) = D.checkedIn
    BY <1>6, RowsCounted, FairCounts
  <1>d. Fair!Cardinality(Fair!Attendees("checked_in") \cup Fair!Attendees("pending")) = D.sold
    BY <1>6, RowsCounted, FairCounts
  <1>e. ASSUME NEW c \in Customers, NEW s \in Fair!By(c) PROVE Len(Fair!MyTickets(c)[s]) = bookings[s].minted
    <2> DEFINE n == bookings[s].minted
               word(i) == IF i <= bookings[s].inside THEN "checked_in"
                          ELSE IF now > (IF event.ends = 0 THEN event.starts ELSE event.ends) THEN "completed"
                          ELSE "upcoming"
    <2>1. n \in Nat
      BY <1>3 DEF Fair!By
    <2>2. Fair!MyTickets(c)[s] = [i \in 1..n |-> word(i)]
      BY DEF Fair!MyTickets
    <2> HIDE DEF n, word
    <2>3. Len([i \in 1..n |-> word(i)]) = n
      BY <2>1
    <2> QED  BY <2>2, <2>3 DEF n
  <1> QED
    BY <1>7, <1>8, <1>9, <1>a, <1>b, <1>c, <1>d, <1>e DEF Fair!FiguresAgree, D, L, C

\* What is on sale at some instant ahead and is not now, opens between.
LEMMA OpensBetween ==
    ASSUME CatalogueInv, NEW at \in Nat, now <= at, NEW t \in Types, Fair!IsOnSale(t, at), ~Fair!IsOnSale(t, now)
    PROVE  /\ event.status = "published" /\ types[t].from \in Fair!Opening
           /\ now < types[t].from /\ types[t].from <= at
  <1>1. ShelfRow(types[t]) /\ now \in Nat
    BY DEF CatalogueInv
  <1>2. /\ event.status = "published" /\ types[t].at = "shelf" /\ types[t].active /\ types[t].available > 0
        /\ Fair!InWindow(t, at) /\ ~Fair!InWindow(t, now)
    BY DEF Fair!IsOnSale
  <1>3. now < types[t].from /\ types[t].from <= at
    BY <1>1, <1>2 DEF Fair!InWindow, ShelfRow
  <1>4. types[t].from \in Fair!Opening
    BY <1>2 DEF Fair!Opening, Fair!Listed
  <1> QED  BY <1>2, <1>3, <1>4

\* Sold out means that nothing is for sale at any time.
LEMMA SoldOutSellsNothing ==
    ASSUME Fair!CatalogueAssumption, CatalogueInv, Fair!IsSoldOut(types), NEW at, NEW t \in Types PROVE ~Fair!IsOnSale(t, at)
  <1> SUFFICES ASSUME Fair!IsOnSale(t, at) PROVE FALSE
    OBVIOUS
  <1>1. types[t].at = "shelf" /\ types[t].active /\ types[t].available > 0
    BY DEF Fair!IsOnSale
  <1>2. types[t].total \in Nat /\ types[t].available \in Nat
        /\ types[t].total - types[t].available = Sum(SeatsOf(bookings, t), Sales)
    BY DEF CatalogueInv, ShelfRow
  <1>3. Sum(SeatsOf(bookings, t), Sales) \in Nat
    BY SeatsTyped
  <1>4. types[t].total > 0 /\ ~(types[t].available <= 0)
    BY <1>1, <1>2, <1>3
  <1> QED  BY <1>1, <1>4 DEF Fair!IsSoldOut, Fair!Listed

\* The word on the sale: between now and the next opening nothing opens.
LEMMA SaleWordHolds ==
    ASSUME Fair!CatalogueAssumption, CatalogueInv PROVE Fair!SaleWordIsTrue
  <1> DEFINE sellsAt(at) == \E t \in Types : Fair!IsOnSale(t, at)
  <1>1. now \in Nat /\ Fair!Opening \subseteq Nat
    BY DEF CatalogueInv, Fair!Opening, Fair!Listed, ShelfRow
  <1>2. \A at : sellsAt(at) => Fair!Opening # {} /\ event.status = "published" /\ ~Fair!IsSoldOut(types)
    <2>1. ASSUME NEW at, NEW t \in Types, Fair!IsOnSale(t, at) PROVE types[t].from \in Fair!Opening /\ event.status = "published"
      BY <2>1 DEF Fair!IsOnSale, Fair!Opening, Fair!Listed
    <2> QED  BY <2>1, SoldOutSellsNothing
  <1>3. ASSUME NEW at \in Nat, now <= at, sellsAt(at), ~sellsAt(now)
        PROVE  \E o \in Fair!Opening : now < o /\ o <= at
    BY <1>3, OpensBetween
  <1>4. Fair!SaleState = "on_sale" <=> sellsAt(now)
    BY <1>2 DEF Fair!SaleState
  <1>5. ASSUME Fair!SaleState = "upcoming"
        PROVE  sellsAt(Fair!OpensAt) /\ \A at \in now..(Fair!OpensAt - 1) : ~sellsAt(at)
    <2>1. ~sellsAt(now) /\ event.status = "published" /\ \E o \in Fair!Opening : o > now
      BY <1>4, <1>5 DEF Fair!SaleState
    <2> DEFINE Ahead == {o \in Fair!Opening : o > now}
    <2>2. PICK m \in Ahead : \A n \in Ahead : m <= n
      <3>1. Ahead \in SUBSET Nat /\ Ahead # {}
        BY <1>1, <2>1
      <3> HIDE DEF Ahead
      <3> QED  BY <3>1, Smallest
    <2>3. Fair!OpensAt \in Fair!Opening /\ Fair!OpensAt > now /\ \A p \in Fair!Opening : p > now => Fair!OpensAt <= p
      <3>1. m \in Fair!Opening /\ m > now /\ \A p \in Fair!Opening : p > now => m <= p
        BY <2>2
      <3> QED  BY <3>1 DEF Fair!OpensAt
    <2>4. sellsAt(Fair!OpensAt)
      <3>1. PICK t \in Types : /\ types[t].at = "shelf" /\ types[t].active /\ types[t].available > 0
                               /\ types[t].from = Fair!OpensAt
        BY <2>3 DEF Fair!Opening, Fair!Listed
      <3>2. Fair!InWindow(t, Fair!OpensAt)
        <4>1. ShelfRow(types[t]) /\ Fair!OpensAt \in Nat
          BY <1>1, <2>3 DEF CatalogueInv
        <4> QED  BY <3>1, <4>1 DEF Fair!InWindow, ShelfRow
      <3> QED  BY <2>1, <3>1, <3>2 DEF Fair!IsOnSale
    <2>5. ASSUME NEW at \in now..(Fair!OpensAt - 1), sellsAt(at) PROVE FALSE
      <3>1. at \in Nat /\ now <= at /\ ~(Fair!OpensAt <= at) /\ Fair!OpensAt \in Nat
        BY <1>1, <2>3
      <3>2. PICK o \in Fair!Opening : now < o /\ o <= at
        BY <1>3, <2>1, <2>5, <3>1
      <3>3. Fair!OpensAt <= o /\ o \in Nat
        BY <1>1, <2>3, <3>2
      <3> QED  BY <3>1, <3>2, <3>3
    <2> QED  BY <2>4, <2>5
  <1>6. ASSUME Fair!SaleState \notin {"on_sale", "upcoming"}, NEW at \in now..(2 * LastInstant), sellsAt(at)
        PROVE  FALSE
    <2>1. ~sellsAt(now) /\ at \in Int /\ now <= at
      BY <1>4, <1>6
    <2>2. at \in Nat
      BY <1>1, <2>1
    <2>3. PICK o \in Fair!Opening : now < o /\ o <= at
      BY <1>3, <1>6, <2>1, <2>2
    <2> QED  BY <1>1, <1>2, <1>6, <2>1, <2>3 DEF Fair!SaleState
  <1> QED  BY <1>4, <1>5, <1>6 DEF Fair!SaleWordIsTrue

\* Half days, days and weeks.
LEMMA DayIs ==
    ASSUME NEW n \in Nat
    PROVE  /\ Fair!Day(n) \in Nat /\ 2 * Fair!Day(n) <= n /\ n <= 2 * Fair!Day(n) + 1
           /\ Fair!Weekday(n) \in 0..6 /\ \E k \in Nat : Fair!Day(n) = 7 * k + Fair!Weekday(n)
  <1>1. n \div 2 \in Nat /\ 2 * (n \div 2) <= n /\ n <= 2 * (n \div 2) + 1
    OBVIOUS
  <1> DEFINE d == n \div 2
  <1>2. d % 7 \in 0..6 /\ d \div 7 \in Nat /\ d = (7 * (d \div 7)) + (d % 7)
    <2> HIDE DEF d
    <2> QED  BY <1>1 DEF d
  <1> QED  BY <1>1, <1>2 DEF Fair!Day, Fair!Weekday

\* The slices of the calendar, as weekdays.
LEMMA SlicesHold ==
    ASSUME Fair!CatalogueAssumption, CatalogueInv PROVE Fair!SlicesAreSound
  <1> DEFINE a == event.starts  w == Fair!Weekday(now)  v == Fair!Weekday(a)  d == Fair!Day(now)  e == Fair!Day(a)
  <1>1. now \in Nat /\ a \in Nat /\ MonthDays \in Nat /\ MonthDays >= 7
    BY DEF CatalogueInv, EventRows, Fair!CatalogueAssumption
  <1>2. /\ d \in Nat /\ 2 * d <= now /\ now <= 2 * d + 1 /\ w \in 0..6
        /\ e \in Nat /\ 2 * e <= a /\ a <= 2 * e + 1 /\ v \in 0..6
    BY <1>1, DayIs
  <1>3. PICK k \in Nat, j \in Nat : d = 7 * k + w /\ e = 7 * j + v
    BY <1>1, DayIs
  <1> DEFINE until == IF w = 0 THEN 0 ELSE 7 - w
             from == IF w # 0 /\ w < 5 THEN (IF 2 * (d + 5 - w) > now THEN 2 * (d + 5 - w) ELSE now) ELSE now
  <1>4. /\ Fair!Window("today") = now..(2 * d + 1)
        /\ Fair!Window("weekend") = from..(2 * (d + until) + 1)
        /\ Fair!Window("month") = now..(2 * (d + MonthDays) + 1)
    BY DEF Fair!Window, Fair!EndOfDay, Fair!Later
  <1> HIDE DEF a, w, v, d, e
  <1>5. a \in now..(2 * d + 1) => a \in now..(2 * (d + MonthDays) + 1)
    BY <1>1, <1>2
  <1>6. a \in from..(2 * (d + until) + 1) => a \in now..(2 * (d + MonthDays) + 1)
    BY <1>1, <1>2
  <1>7. ASSUME a > now
        PROVE  a \in from..(2 * (d + until) + 1) <=> (v \in {5, 6, 0} /\ e - d <= (7 - w) % 7)
    <2>1. (7 - w) % 7 = until
      BY <1>2
    <2>2. a \in from..(2 * (d + until) + 1) <=> (e <= d + until /\ (w # 0 /\ w < 5 => e >= d + 5 - w) /\ e >= d)
      BY <1>1, <1>2, <1>7
    <2>3. (e <= d + until /\ (w # 0 /\ w < 5 => e >= d + 5 - w) /\ e >= d) <=> (v \in {5, 6, 0} /\ e - d <= until)
      <3>1. e >= d
        BY <1>1, <1>2, <1>7
      <3> QED  BY <1>2, <1>3, <3>1
    <2> QED  BY <2>1, <2>2, <2>3
  <1>8. /\ "today" # "any" /\ "weekend" # "any" /\ "month" # "any"
    OBVIOUS
  <1> HIDE DEF from, until
  <1>9. Fair!Browsed("today") \/ Fair!Browsed("weekend") => Fair!Browsed("month")
    BY <1>4, <1>5, <1>6, <1>8 DEF Fair!Browsed, a
  <1>a. ASSUME event.starts > now, Fair!Browsed("any")
        PROVE  Fair!Browsed("weekend") <=> /\ Fair!Weekday(event.starts) \in {5, 6, 0}
                                           /\ Fair!Day(event.starts) - Fair!Day(now) <= (7 - Fair!Weekday(now)) % 7
    <2>1. Fair!Browsed("weekend") <=> a \in from..(2 * (d + until) + 1)
      BY <1>4, <1>8, <1>a DEF Fair!Browsed, a
    <2> QED  BY <1>7, <1>a, <2>1 DEF a, v, e, d, w
  <1> QED  BY <1>9, <1>a DEF Fair!SlicesAreSound

\* An event's sign, its word about buying, its figures and its place in the calendar.
THEOREM EventPageStaysSound ==
    ASSUME Fair!CatalogueAssumption
    PROVE  Fair!Spec => [](Fair!SignTellsTheShelf /\ Fair!SaleWordIsTrue /\ Fair!FiguresAgree /\ Fair!SlicesAreSound)
  <1>1. Fair!Init => CatalogueInv
    BY CatalogueInit
  <1>2. CatalogueInv /\ [Fair!Next]_(Fair!catalogueVars) => CatalogueInv'
    BY CatalogueStep
  <1>3. CatalogueInv => Fair!SignTellsTheShelf /\ Fair!SaleWordIsTrue /\ Fair!FiguresAgree /\ Fair!SlicesAreSound
    BY SaleWordHolds, FiguresHold, SlicesHold DEF CatalogueInv
  <1> QED  BY <1>1, <1>2, <1>3, PTL DEF Fair!Spec

-----------------------------------------------------------------------------
(* What a public event shares (EventGallery).                               *)

\* The settings of the memories and of the stream, and the rows that hold them.
Settings == [enabled : BOOLEAN, uploaders : {"holders", "checked_in"}, view : BOOLEAN, moderation : BOOLEAN]
Streams  == [starts : Nat, ends : Nat]
HostRows == [status : {"published", "completed", "cancelled"}, memories : Settings, stream : Streams]
GuestDesks ==
    [at : {"idle", "memories", "stream", "standing", "create", "judge"}, copy : Settings, stream : Streams,
     who : People \cup {""}, piece : Pieces \cup {""}]
PieceRows == [status : {"none", "pending", "visible", "rejected"}, by : People \cup {""}]

\* A stream ends after it starts.
ComesOut(s) == s.starts # 0 /\ s.ends # 0 => s.starts < s.ends

\* What was not passed is not visible.
Judged(m, v) ==
    /\ v = "asked" => m.status = "pending"
    /\ v = "rejected" => m.status = "rejected"

\* The inductive invariant of what attendees share; the copy a request holds is
\* what is stored while it is alone.
GalleryInv ==
    /\ event \in HostRows /\ ComesOut(event.stream)
    /\ desk \in [Callers -> GuestDesks]
    /\ memory \in [Pieces -> PieceRows] /\ DOMAIN verdict = Pieces
    /\ Shared!Alone =>
         /\ \A m \in Pieces : Judged(memory[m], verdict[m])
         /\ \A c \in Callers : desk[c].at \in {"standing", "create"} => desk[c].copy = event.memories

\* Nothing shared satisfies the invariant.
LEMMA GalleryInit == Shared!Init => GalleryInv
  <1> SUFFICES ASSUME Shared!Init PROVE GalleryInv
    OBVIOUS
  <1>1. Shared!NoMemories \in Settings /\ Shared!NoStream \in Streams
    BY DEF Shared!NoMemories, Shared!NoStream, Settings, Streams
  <1>2. Shared!NoDesk \in GuestDesks /\ Shared!NoDesk.at = "idle"
    BY <1>1 DEF Shared!NoDesk, GuestDesks
  <1>3. event \in HostRows /\ ComesOut(event.stream)
    BY <1>1 DEF Shared!Init, HostRows, ComesOut, Shared!NoStream
  <1>4. desk \in [Callers -> GuestDesks] /\ \A c \in Callers : desk[c].at = "idle"
    BY <1>2 DEF Shared!Init
  <1>5. Shared!NoPiece \in PieceRows
    BY DEF Shared!NoPiece, PieceRows
  <1> QED  BY <1>3, <1>4, <1>5 DEF GalleryInv, Shared!Init, Judged

\* A handler at rest.
LEMMA RestedDesk == Shared!NoDesk \in GuestDesks /\ Shared!NoDesk.at = "idle"
  <1>1. Shared!NoMemories \in Settings /\ Shared!NoStream \in Streams
    BY DEF Shared!NoMemories, Shared!NoStream, Settings, Streams
  <1> QED  BY <1>1 DEF Shared!NoDesk, GuestDesks

\* A step that changes one handler and nothing else that is stored.
LEMMA OnlyDesk ==
    ASSUME GalleryInv, NEW c \in Callers, NEW d \in GuestDesks, Shared!Goto(c, d),
           d.at \in {"standing", "create"} => d.copy = event.memories \/ (desk[c].at = "standing" /\ d.copy = desk[c].copy),
           UNCHANGED <<event, memory, verdict>>
    PROVE  GalleryInv'
  <1>1. desk' \in [Callers -> GuestDesks]
        /\ \A x \in Callers : desk'[x] = IF x = c THEN d ELSE desk[x]
    BY DEF GalleryInv, Shared!Goto
  <1>2. ASSUME Shared!Alone, NEW x \in Callers, desk'[x].at \in {"standing", "create"}
        PROVE  desk'[x].copy = event'.memories
    BY <1>1, <1>2 DEF GalleryInv
  <1> QED  BY <1>1, <1>2 DEF GalleryInv, Shared!Alone

\* A handler that ends.
LEMMA RestDesk ==
    ASSUME GalleryInv, NEW c \in Callers, Shared!Goto(c, Shared!NoDesk)
    PROVE  /\ desk' \in [Callers -> GuestDesks]
           /\ \A x \in Callers : desk'[x] = IF x = c THEN Shared!NoDesk ELSE desk[x]
           /\ Shared!Alone => \A x \in Callers : desk'[x].at = "idle"
  <1>1. /\ desk' \in [Callers -> GuestDesks]
        /\ \A x \in Callers : desk'[x] = IF x = c THEN Shared!NoDesk ELSE desk[x]
    BY RestedDesk DEF GalleryInv, Shared!Goto
  <1>2. Shared!Alone => \A x \in Callers : x = c
    BY DEF Shared!Alone
  <1> QED  BY <1>1, <1>2, RestedDesk

\* Requests that read.
LEMMA ReadsKeep ==
    ASSUME GalleryInv, NEW c \in Callers,
           Shared!LoadSettings(c) \/ Shared!FindEvent(c) \/ Shared!Standing(c) \/ Shared!LoadMemory(c)
    PROVE  GalleryInv'
  <1>0. event.memories \in Settings /\ event.stream \in Streams /\ UNCHANGED <<event, memory, verdict>>
    BY DEF GalleryInv, HostRows, Shared!LoadSettings, Shared!FindEvent, Shared!Standing, Shared!LoadMemory
  <1>1. CASE Shared!LoadSettings(c)
    <2>1. PICK l \in {"memories", "stream"} :
            Shared!Goto(c, [Shared!NoDesk EXCEPT !.at = l, !.copy = event.memories, !.stream = event.stream])
      BY <1>1 DEF Shared!LoadSettings, Shared!Load
    <2> DEFINE d == [Shared!NoDesk EXCEPT !.at = l, !.copy = event.memories, !.stream = event.stream]
    <2>2. d \in GuestDesks /\ d.at = l
      BY <1>0, RestedDesk DEF GuestDesks
    <2> HIDE DEF d
    <2> QED  BY <1>0, <2>1, <2>2, OnlyDesk DEF d
  <1>2. CASE Shared!FindEvent(c)
    <2>1. PICK p \in People :
            Shared!Goto(c, [Shared!NoDesk EXCEPT !.at = "standing", !.copy = event.memories, !.who = p])
      BY <1>2 DEF Shared!FindEvent
    <2> DEFINE d == [Shared!NoDesk EXCEPT !.at = "standing", !.copy = event.memories, !.who = p]
    <2>2. d \in GuestDesks /\ d.copy = event.memories
      BY <1>0, RestedDesk DEF GuestDesks
    <2> HIDE DEF d
    <2> QED  BY <1>0, <2>1, <2>2, OnlyDesk DEF d
  <1>3. CASE Shared!Standing(c)
    <2> DEFINE d == [desk[c] EXCEPT !.at = "create"]
    <2>1. d \in GuestDesks /\ d.copy = desk[c].copy /\ desk[c].at = "standing"
      BY <1>3 DEF GuestDesks, GalleryInv, Shared!Standing, Shared!At
    <2>2. Shared!Goto(c, d) \/ Shared!Goto(c, Shared!NoDesk)
      BY <1>3 DEF Shared!Standing
    <2> HIDE DEF d
    <2> QED  BY <1>0, <2>1, <2>2, OnlyDesk, RestedDesk
  <1>4. CASE Shared!LoadMemory(c)
    <2>1. PICK m \in Pieces : Shared!Goto(c, [Shared!NoDesk EXCEPT !.at = "judge", !.piece = m])
      BY <1>4 DEF Shared!LoadMemory
    <2> DEFINE d == [Shared!NoDesk EXCEPT !.at = "judge", !.piece = m]
    <2>2. d \in GuestDesks /\ d.at = "judge"
      BY RestedDesk DEF GuestDesks
    <2> HIDE DEF d
    <2> QED  BY <1>0, <2>1, <2>2, OnlyDesk DEF d
  <1> QED  BY <1>1, <1>2, <1>3, <1>4

\* The organizer's settings, each from a request's own copy.
LEMMA SettingsKeep ==
    ASSUME GalleryInv, Shared!GalleryAssumption, NEW c \in Callers, Shared!SetMemories(c) \/ Shared!SetLiveStream(c)
    PROVE  GalleryInv'
  <1>0. Shared!Goto(c, Shared!NoDesk) /\ UNCHANGED <<memory, verdict>>
    BY DEF Shared!SetMemories, Shared!SetLiveStream
  <1>1. event' \in HostRows /\ ComesOut(event'.stream)
    <2>1. CASE Shared!SetMemories(c)
      <3>1. desk[c].copy \in Settings
        BY DEF GalleryInv, GuestDesks
      <3>2. PICK m \in Settings : event' = [event EXCEPT !.memories = m]
        <4> DEFINE m == desk[c].copy
        <4>1. /\ [m EXCEPT !.enabled = ~@] \in Settings /\ [m EXCEPT !.moderation = ~@] \in Settings
              /\ [m EXCEPT !.uploaders = IF @ = "holders" THEN "checked_in" ELSE "holders"] \in Settings
              /\ [m EXCEPT !.view = ~@] \in Settings
          BY <3>1 DEF Settings
        <4> QED  BY <2>1, <4>1 DEF Shared!SetMemories
      <3> QED  BY <3>2 DEF GalleryInv, HostRows, ComesOut
    <2>2. CASE Shared!SetLiveStream(c)
      <3> DEFINE merge(new, old) == IF new = -1 THEN 0 ELSE Shared!Or(new, old)
                 keeps(s, e) == [starts |-> merge(s, desk[c].stream.starts), ends |-> merge(e, desk[c].stream.ends)]
                 sent(s, e) == [starts |-> IF s = -1 THEN 0 ELSE s, ends |-> IF e = -1 THEN 0 ELSE e]
      <3>1. PICK s \in Times \cup {-1, 0}, e \in Times \cup {-1, 0} :
              event' = IF Shared!ComesAfter(sent(s, e), keeps(s, e)) THEN [event EXCEPT !.stream = keeps(s, e)] ELSE event
        BY <2>2 DEF Shared!SetLiveStream
      <3>2. desk[c].stream.starts \in Nat /\ desk[c].stream.ends \in Nat
        BY DEF GalleryInv, GuestDesks, Streams
      <3>3. merge(s, desk[c].stream.starts) \in Nat /\ merge(e, desk[c].stream.ends) \in Nat
        BY <3>2 DEF Shared!Or, Shared!GalleryAssumption
      <3>4. keeps(s, e) \in Streams
        BY <3>3 DEF Streams
      <3>5. Shared!ComesAfter(sent(s, e), keeps(s, e)) => ComesOut(keeps(s, e))
        BY DEF Shared!ComesAfter, ComesOut
      <3> HIDE DEF keeps, sent
      <3> QED  BY <3>1, <3>4, <3>5 DEF GalleryInv, HostRows
    <2> QED  BY <2>1, <2>2
  <1> QED  BY <1>0, <1>1, RestDesk DEF GalleryInv, Shared!Alone

\* An upload is seen at once only where the copy says so; the organizer's word is written.
LEMMA PiecesKeep ==
    ASSUME GalleryInv, NEW c \in Callers, Shared!Create(c) \/ Shared!Moderate(c)
    PROVE  GalleryInv'
  <1>0. Shared!Goto(c, Shared!NoDesk) /\ UNCHANGED event /\ desk[c] \in GuestDesks
    BY DEF Shared!Create, Shared!Add, Shared!Moderate, GalleryInv
  <1>1. CASE Shared!Create(c)
    <2> DEFINE status == IF desk[c].copy.moderation THEN "pending" ELSE "visible"
    <2>1. PICK m \in Pieces :
            /\ memory' = [memory EXCEPT ![m] = [status |-> status, by |-> desk[c].who]]
            /\ verdict' = [verdict EXCEPT ![m] = IF event.memories.moderation THEN "asked" ELSE "free"]
      BY <1>1 DEF Shared!Create, Shared!Add
    <2>2. [status |-> status, by |-> desk[c].who] \in PieceRows
      BY <1>0 DEF GuestDesks, PieceRows
    <2>3. memory' \in [Pieces -> PieceRows] /\ DOMAIN verdict' = Pieces
      BY <2>1, <2>2 DEF GalleryInv
    <2>4. Shared!Alone => \A x \in Pieces : Judged(memory'[x], verdict'[x])
      <3>1. Shared!Alone => desk[c].copy = event.memories
        BY <1>1 DEF Shared!Create, Shared!Add, Shared!At, GalleryInv
      <3> QED  BY <2>1, <3>1 DEF GalleryInv, Judged
    <2> QED  BY <1>0, <2>3, <2>4, RestDesk DEF GalleryInv, Shared!Alone
  <1>2. CASE Shared!Moderate(c)
    <2>1. PICK s \in {"visible", "rejected"} :
            /\ memory' = [memory EXCEPT ![desk[c].piece].status = s]
            /\ verdict' = [verdict EXCEPT ![desk[c].piece] = s]
      BY <1>2 DEF Shared!Moderate
    <2>3. memory' \in [Pieces -> PieceRows] /\ DOMAIN verdict' = Pieces
      BY <2>1 DEF GalleryInv, PieceRows
    <2>4. Shared!Alone => \A x \in Pieces : Judged(memory'[x], verdict'[x])
      BY <2>1 DEF GalleryInv, Judged, PieceRows
    <2> QED  BY <1>0, <2>3, <2>4, RestDesk DEF GalleryInv, Shared!Alone
  <1> QED  BY <1>1, <1>2

\* Every step keeps the invariant of the gallery.
LEMMA GalleryStep ==
    ASSUME GalleryInv, Shared!GalleryAssumption, [Shared!Next]_(Shared!galleryVars)
    PROVE  GalleryInv'
  <1>1. ASSUME UNCHANGED <<event, memory, desk, verdict>> PROVE GalleryInv'
    BY <1>1 DEF GalleryInv, Shared!Alone
  <1>2. ASSUME Shared!EventMoves PROVE GalleryInv'
    <2>1. PICK s \in {"completed", "cancelled"} : event' = [event EXCEPT !.status = s]
      BY <1>2 DEF Shared!EventMoves
    <2>2. event' \in HostRows /\ event'.stream = event.stream /\ event'.memories = event.memories
      BY <2>1 DEF GalleryInv, HostRows
    <2> QED  BY <1>2, <2>2 DEF GalleryInv, Shared!EventMoves, Shared!Alone
  <1> QED
    BY <1>1, <1>2, ReadsKeep, SettingsKeep, PiecesKeep
    DEF Shared!Next, Shared!galleryVars, Shared!TicketMoves, Shared!NextDay

\* While requests do not overlap, nobody sees what the organizer asked to see first or
\* turned down; and however they overlap, a stream ends after it starts.
THEOREM EventGalleryStaysModerated ==
    ASSUME Shared!GalleryAssumption
    PROVE  /\ Shared!Spec => []Shared!StreamIsCoherent
           /\ Shared!Alone => (Shared!Spec => []Shared!GalleryIsModerated)
  <1>1. Shared!Init => GalleryInv
    BY GalleryInit
  <1>2. GalleryInv /\ [Shared!Next]_(Shared!galleryVars) => GalleryInv'
    BY GalleryStep
  <1>3. GalleryInv => Shared!StreamIsCoherent
    BY DEF GalleryInv, HostRows, Streams, ComesOut, Shared!StreamIsCoherent, Shared!LiveState
  <1>4. GalleryInv /\ Shared!Alone => Shared!GalleryIsModerated
    <2> SUFFICES ASSUME GalleryInv, Shared!Alone, NEW p \in People, NEW m \in Shared!Gallery(p)
                 PROVE  verdict[m] # "rejected" /\ (verdict[m] = "asked" => memory[m].by = p)
      BY DEF Shared!GalleryIsModerated
    <2>1. m \in Pieces /\ (memory[m].status = "visible" \/ (memory[m].status = "pending" /\ memory[m].by = p))
      BY DEF Shared!Gallery
    <2> QED  BY <2>1 DEF GalleryInv, Judged
  <1>5. Shared!Spec => []Shared!StreamIsCoherent
    BY <1>1, <1>2, <1>3, PTL DEF Shared!Spec
  <1>6. ASSUME Shared!Alone PROVE Shared!Spec => []Shared!GalleryIsModerated
    <2>1. GalleryInv => Shared!GalleryIsModerated
      BY <1>4, <1>6
    <2> QED  BY <1>1, <1>2, <2>1, PTL DEF Shared!Spec
  <1> QED  BY <1>5, <1>6

=============================================================================
