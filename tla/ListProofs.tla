---------------------------- MODULE ListProofs ----------------------------
(***************************************************************************)
(* The lists of the dashboard.                                             *)
(*   - The queries behind them, for any users, rows and overrides: a       *)
(*     decryption that is shown has the lengths of the list and of the     *)
(*     overrides that were loaded, in whatever order queries age, are      *)
(*     refetched or collected, and whoever logs in.                        *)
(*   - The category a row shows, for any names, suffixes, rules and        *)
(*     overrides: the first of the learned names that match best decides,  *)
(*     so teaching one merchant hands no row to a third category, and a    *)
(*     variant of a learned name shows its category or that of a name no   *)
(*     farther.  The distance of two names that is computed is their edit  *)
(*     distance.                                                           *)
(*   - The amount of a bank's text, for any number: it is what was written.*)
(***************************************************************************)
EXTENDS DashboardCache, DecryptedRows, FunctionTheorems, FiniteSetTheorems,
    SequenceTheorems, WellFoundedInduction, TLAPS

-----------------------------------------------------------------------------
(***************************************************************************)
(* THE QUERIES                                                             *)
(***************************************************************************)

\* What a query holds; None stands for no query.
Query(q) == q = [data |-> q.data, stale |-> q.stale]

TablesSound ==
    /\ table = [u \in Users |-> table[u]]
    /\ \A u \in Users : table[u] \subseteq RowsOf(u)
    /\ config \in [Users -> 0..MaxOverride]
    /\ user \in Users \cup {None}

RawSound == raw # None => Query(raw) /\ raw.data \subseteq Row

LearnedSound == learned # None => Query(learned) /\ learned.data \in 0..MaxOverride

\* A decryption is kept under the number of its rows, ...
Counted(q, n) == Cardinality(q.data) = n /\ (q # None => Query(q))

\* ... and under the length of the override it was computed with.
Overridden(q, n) == \A d \in q.data : Length(d.override) = n

ShownSound == \A k \in DOMAIN shown : Counted(shown[k], k[1]) /\ Overridden(shown[k], k[2])

CacheInv == TablesSound /\ RawSound /\ LearnedSound /\ ShownSound

-----------------------------------------------------------------------------
(* Decryption keeps the number of rows, and ageing keeps the rows. *)

LEMMA DecryptedCount ==
    ASSUME NEW rows \in SUBSET Row, NEW u, NEW o
    PROVE  Cardinality(Decrypted(rows, u, o)) = Cardinality(rows)
<1> DEFINE open(r) == [row |-> r, opened |-> r.owner = u, override |-> o]
           T == {open(r) : r \in rows}
           f == [r \in rows |-> open(r)]
<1>1. \A r \in rows : open(r).row = r
  OBVIOUS
<1>2. IsFiniteSet(rows)
  BY FiniteAssumption, FS_Subset
<1> HIDE DEF open
<1>3. f \in [rows -> T] /\ (\A r, s \in rows : f[r] = f[s] => r = s)
      /\ (\A d \in T : \E r \in rows : f[r] = d)
  BY <1>1
<1>4. f \in Bijection(rows, T)
  BY <1>3 DEF Bijection, Injection, Surjection, IsInjective
<1>5. ExistsBijection(rows, T)
  BY <1>4 DEF ExistsBijection
<1>6. Cardinality(T) = Cardinality(rows)
  BY <1>2, <1>5, FS_Bijection
<1>7. Decrypted(rows, u, o) = T
  BY DEF Decrypted, open
<1> QED
  BY <1>6, <1>7

LEMMA DecryptedOverride ==
    ASSUME NEW rows, NEW u, NEW o
    PROVE  \A d \in Decrypted(rows, u, o) : d.override = o
BY DEF Decrypted

LEMMA FreshQuery ==
    ASSUME NEW data
    PROVE  Query(Fresh(data)) /\ Fresh(data).data = data
BY DEF Query, Fresh

LEMMA StaleQuery ==
    ASSUME NEW q, q # None => Query(q)
    PROVE  Stale(q).data = q.data /\ (Stale(q) # None => q # None /\ Query(Stale(q)))
BY DEF Query, Stale

LEMMA StaleSound ==
    /\ RawSound /\ raw' = Stale(raw) => RawSound'
    /\ LearnedSound /\ learned' = Stale(learned) => LearnedSound'
BY StaleQuery DEF RawSound, LearnedSound, Query

LEMMA OverrideBounded ==
    ASSUME LearnedSound
    PROVE  Override \in 0..MaxOverride
BY CacheAssumption DEF LearnedSound, Override

-----------------------------------------------------------------------------
LEMMA InitSound == Init => CacheInv
<1> SUFFICES ASSUME Init PROVE CacheInv
  OBVIOUS
<1>1. TablesSound
  BY CacheAssumption DEF Init, TablesSound, Tables
<1> QED
  BY <1>1 DEF Init, CacheInv, RawSound, LearnedSound, ShownSound

LEMMA LoadRawSound == CacheInv /\ LoadRaw => CacheInv'
<1> SUFFICES ASSUME CacheInv, LoadRaw PROVE CacheInv'
  OBVIOUS
<1>1. table[user] \subseteq Row
  BY DEF CacheInv, TablesSound, RowsOf, LoadRaw
<1>2. RawSound'
  BY <1>1, FreshQuery DEF RawSound, Query, LoadRaw
<1> QED
  BY <1>2 DEF CacheInv, TablesSound, LearnedSound, ShownSound, RowsOf, Query, Counted, Overridden, LoadRaw

LEMMA LoadOverridesSound == CacheInv /\ LoadOverrides => CacheInv'
<1> SUFFICES ASSUME CacheInv, LoadOverrides PROVE CacheInv'
  OBVIOUS
<1>1. config[user] \in 0..MaxOverride
  BY DEF CacheInv, TablesSound, LoadOverrides
<1>2. LearnedSound'
  BY <1>1, FreshQuery DEF LearnedSound, Query, LoadOverrides
<1> QED
  BY <1>2 DEF CacheInv, TablesSound, RawSound, ShownSound, RowsOf, Query, Counted, Overridden, LoadOverrides

\* The new decryption is put under the number of rows it was made of.
LEMMA DecryptSound == CacheInv /\ Decrypt => CacheInv'
<1> SUFFICES ASSUME CacheInv, Decrypt PROVE CacheInv'
  OBVIOUS
<1> DEFINE q == Fresh(Decrypted(raw.data, user, Override))
<1>1. raw.data \in SUBSET Row
  BY DEF CacheInv, RawSound, Decrypt
<1>2. q.data = Decrypted(raw.data, user, Override) /\ Query(q)
  BY FreshQuery
<1>3. Counted(q, Key[1]) /\ Overridden(q, Key[2])
  <2>1. Counted(q, Key[1])
    BY <1>1, <1>2, DecryptedCount DEF Counted, Key
  <2>2. Overridden(q, Key[2])
    BY <1>2, DecryptedOverride DEF Overridden, Key
  <2> QED
    BY <2>1, <2>2
<1>4. shown' = [k \in DOMAIN shown \cup {Key} |-> IF k = Key THEN q ELSE shown[k]]
  BY DEF Decrypt
<1> HIDE DEF q
<1>5. ShownSound'
  BY <1>3, <1>4 DEF CacheInv, ShownSound, Counted, Overridden, Query
<1> QED
  BY <1>5 DEF CacheInv, TablesSound, RawSound, LearnedSound, RowsOf, Query, Decrypt

LEMMA AgeSound == CacheInv /\ Age => CacheInv'
<1> SUFFICES ASSUME CacheInv, Age PROVE CacheInv'
  OBVIOUS
<1>1. ShownSound'
  BY StaleQuery DEF CacheInv, ShownSound, Counted, Overridden, Query, Age
<1>2. RawSound'
  BY StaleSound DEF CacheInv, Age
<1> QED
  BY <1>1, <1>2 DEF CacheInv, TablesSound, LearnedSound, RowsOf, Query, Age

LEMMA AgeOverridesSound == CacheInv /\ AgeOverrides => CacheInv'
<1> SUFFICES ASSUME CacheInv, AgeOverrides PROVE CacheInv'
  OBVIOUS
<1>1. LearnedSound'
  BY StaleSound DEF CacheInv, AgeOverrides
<1> QED
  BY <1>1 DEF CacheInv, TablesSound, RawSound, ShownSound, RowsOf, Query, Counted, Overridden, AgeOverrides

LEMMA CollectSound == CacheInv /\ Collect => CacheInv'
<1> SUFFICES ASSUME CacheInv, Collect PROVE CacheInv'
  OBVIOUS
<1>1. PICK k : shown' = [j \in DOMAIN shown \ {k} |-> shown[j]]
  BY DEF Collect
<1>2. ShownSound'
  BY <1>1 DEF CacheInv, ShownSound, Counted, Overridden, Query
<1> QED
  BY <1>2 DEF CacheInv, TablesSound, RawSound, LearnedSound, RowsOf, Query, Collect

\* A change of the server's data keeps every row with its owner.
LEMMA WriteSound ==
    ASSUME CacheInv, NEW u \in Users, NEW rows \in SUBSET RowsOf(u),
           NEW o \in 0..MaxOverride, Write(u, rows, o)
    PROVE  TablesSound' /\ ShownSound'
<1>1. TablesSound'
  BY DEF CacheInv, TablesSound, RowsOf, Write
<1> QED
  BY <1>1 DEF CacheInv, ShownSound, Counted, Overridden, Query, Write

LEMMA AddOrDeleteSound == CacheInv /\ AddOrDelete => CacheInv'
<1> SUFFICES ASSUME CacheInv, AddOrDelete PROVE CacheInv'
  OBVIOUS
<1>1. user \in Users /\ table[user] \subseteq RowsOf(user) /\ config[user] \in 0..MaxOverride
  BY DEF CacheInv, TablesSound, AddOrDelete
<1>2. \A i \in Ids, v \in Revisions : [owner |-> user, id |-> i, revision |-> v] \in RowsOf(user)
  BY <1>1 DEF RowsOf, Row
<1>3. \E rows \in SUBSET RowsOf(user) : Write(user, rows, config[user])
  BY <1>1, <1>2 DEF AddOrDelete
<1>4. TablesSound' /\ ShownSound'
  BY <1>1, <1>3, WriteSound
<1> QED
  BY <1>4, StaleSound DEF CacheInv, LearnedSound, Query, AddOrDelete

LEMMA EditCategorySound == CacheInv /\ EditCategory => CacheInv'
<1> SUFFICES ASSUME CacheInv, EditCategory PROVE CacheInv'
  OBVIOUS
<1>1. user \in Users /\ table[user] \subseteq RowsOf(user)
  BY DEF CacheInv, TablesSound, EditCategory
<1>2. \A r \in RowsOf(user), v \in Revisions : [r EXCEPT !.revision = v] \in RowsOf(user)
  BY DEF RowsOf, Row
<1>3. 1..MaxOverride \subseteq 0..MaxOverride
  BY CacheAssumption
<1>4. \E rows \in SUBSET RowsOf(user), o \in 0..MaxOverride : Write(user, rows, o)
  BY <1>1, <1>2, <1>3 DEF EditCategory
<1>5. TablesSound' /\ ShownSound'
  BY <1>1, <1>4, WriteSound
<1> QED
  BY <1>5, StaleSound DEF CacheInv, EditCategory

LEMMA ElsewhereSound == CacheInv /\ Elsewhere => CacheInv'
<1> SUFFICES ASSUME CacheInv, Elsewhere PROVE CacheInv'
  OBVIOUS
<1>1. \E u \in Users, o \in 0..MaxOverride : \E rows \in SUBSET RowsOf(u) : Write(u, rows, o)
  BY DEF Elsewhere, Tables
<1>2. TablesSound' /\ ShownSound'
  BY <1>1, WriteSound
<1> QED
  BY <1>2 DEF CacheInv, RawSound, LearnedSound, Query, Elsewhere

LEMMA CacheStep == CacheInv /\ [Next]_vars => CacheInv'
<1> SUFFICES ASSUME CacheInv, [Next]_vars PROVE CacheInv'
  OBVIOUS
<1>1. CASE \E u \in Users : Login(u)
  BY <1>1 DEF CacheInv, TablesSound, RawSound, LearnedSound, ShownSound, RowsOf,
              Query, Counted, Overridden, Login
<1>2. CASE Logout
  BY <1>2 DEF CacheInv, TablesSound, RawSound, LearnedSound, ShownSound, RowsOf,
              Query, Counted, Overridden, Logout
<1>3. CASE UNCHANGED vars
  BY <1>3 DEF CacheInv, TablesSound, RawSound, LearnedSound, ShownSound, RowsOf,
              Query, Counted, Overridden, vars
<1> QED
  BY <1>1, <1>2, <1>3, LoadRawSound, LoadOverridesSound, DecryptSound, AgeSound,
     AgeOverridesSound, CollectSound, AddOrDeleteSound, EditCategorySound, ElsewhereSound
  DEF Next

LEMMA CacheInvHolds == Spec => []CacheInv
BY InitSound, CacheStep, PTL DEF Spec

(***************************************************************************)
(* Tables, queries and decryptions keep their form.                        *)
(***************************************************************************)
THEOREM CacheType == Spec => []TypeOK
<1>1. CacheInv => TypeOK
  BY DEF CacheInv, TablesSound, RawSound, LearnedSound, RowsOf, TypeOK
<1> QED
  BY <1>1, CacheInvHolds, PTL

(***************************************************************************)
(* What is on the screen has the two lengths of what was loaded last: a    *)
(* decryption is found again under the number of its rows and under        *)
(* whether it was computed with an override.                               *)
(***************************************************************************)
THEOREM CacheLengthsShown == Spec => []LengthsShown
<1>1. CacheInv => LengthsShown
  BY DEF CacheInv, ShownSound, Counted, Overridden, LengthsShown, Showing, Key
<1> QED
  BY <1>1, CacheInvHolds, PTL

-----------------------------------------------------------------------------
(***************************************************************************)
(* THE CATEGORY OF A ROW                                                   *)
(*                                                                         *)
(* Loops first.  Each is a recursive function, which is a choice among the *)
(* functions that satisfy its equation: that there is one, and that it     *)
(* stays among texts, or integers, goes by induction up to the length.     *)
(***************************************************************************)

\* Induction up to n, over a set.
LEMMA UpTo ==
    ASSUME NEW n \in Nat, NEW K, 0 \in K, \A i \in 1..n : i - 1 \in K => i \in K
    PROVE  \A i \in 0..n : i \in K
<1> DEFINE W == (0..n) \ K
           Before == OpToRel(<, Nat)
<1>1. SUFFICES ASSUME W # {} PROVE FALSE
  OBVIOUS
<1>2. W \subseteq Nat
  OBVIOUS
<1>3. PICK k \in W : \A i \in W : <<i, k>> \notin Before
  <2> HIDE DEF W
  <2> QED BY <1>1, <1>2, NatLessThanWellFounded, WFMin
<1>4. \A i \in W : ~(i < k)
  BY <1>2, <1>3 DEF OpToRel
<1>5. k \in 0..n /\ k \notin K /\ k # 0
  BY <1>3
<1>6. k \in 1..n /\ k - 1 \in 0..n /\ k - 1 < k
  BY <1>5
<1>7. k - 1 \notin W
  <2> HIDE DEF W
  <2> QED BY <1>4, <1>6
<1>8. k - 1 \in K
  BY <1>6, <1>7
<1>9. QED BY <1>5, <1>6, <1>8

(* A loop over the numbers up to n: its steps stay in a set, one run follows *)
(* them in the set, and a function that follows them never leaves it.        *)
Stepper(step, n, S) == step \in [1..n -> [S -> S]]
Run(f, n, S, init, step) ==
    /\ f \in [0..n -> S]
    /\ \A i \in 0..n : f[i] = IF i = 0 THEN init ELSE step[i][f[i - 1]]
Follows(g, n, S, init, step) ==
    /\ g[0] = init
    /\ \A i \in 1..n : g[i - 1] \in S => g[i] = step[i][g[i - 1]]
Stays(g, n, S) == \A i \in 0..n : g[i] \in S

LEMMA Runs ==
    ASSUME NEW n \in Nat, NEW S, NEW init \in S, NEW step, Stepper(step, n, S)
    PROVE  \E f : Run(f, n, S, init, step)
<1> DEFINE K == {k \in 0..n : \E f : Run(f, k, S, init, step)}
<1>1. 0 \in K
  <2> DEFINE f == [i \in 0..0 |-> init]
  <2>1. Run(f, 0, S, init, step)
    BY DEF Run
  <2> HIDE DEF f
  <2>2. 0 \in 0..n
    OBVIOUS
  <2>3. QED BY <2>1, <2>2
<1>2. ASSUME NEW k \in 1..n, k - 1 \in K PROVE k \in K
  <2>1. PICK f : Run(f, k - 1, S, init, step)
    BY <1>2
  <2> DEFINE g == [i \in 0..k |-> IF i = k THEN step[k][f[k - 1]] ELSE f[i]]
  <2>2. /\ k - 1 \in 0..(k - 1) /\ k \in 0..n
        /\ \A i \in 0..k : i # k => i \in 0..(k - 1)
    OBVIOUS
  <2>3. step[k][f[k - 1]] \in S
    BY <2>1, <2>2 DEF Run, Stepper
  <2>4. g \in [0..k -> S]
    BY <2>1, <2>2, <2>3 DEF Run
  <2>5. ASSUME NEW i \in 0..k
        PROVE  g[i] = IF i = 0 THEN init ELSE step[i][g[i - 1]]
    <3>1. CASE i = k
      <4>1. k - 1 \in 0..k /\ k - 1 # k /\ k # 0
        OBVIOUS
      <4>2. g[k - 1] = f[k - 1]
        BY <4>1
      <4>3. QED BY <3>1, <4>1, <4>2
    <3>2. CASE i # k
      <4>1. g[i] = f[i] /\ f[i] = IF i = 0 THEN init ELSE step[i][f[i - 1]]
        BY <2>1, <2>2, <3>2 DEF Run
      <4>2. i # 0 => i - 1 \in 0..k /\ i - 1 # k
        BY <3>2
      <4>3. QED BY <4>1, <4>2
    <3>3. QED BY <3>1, <3>2
  <2> HIDE DEF g
  <2>6. Run(g, k, S, init, step)
    BY <2>4, <2>5 DEF Run
  <2>7. QED BY <2>2, <2>6
<1>3. n \in K
  <2> HIDE DEF K
  <2>1. \A i \in 0..n : i \in K
    BY <1>1, <1>2, UpTo
  <2>2. QED BY <2>1
<1>4. QED BY <1>3

LEMMA RunStays ==
    ASSUME NEW n \in Nat, NEW S, NEW init \in S, NEW step, Stepper(step, n, S),
           NEW g, Follows(g, n, S, init, step)
    PROVE  Stays(g, n, S)
<1> DEFINE K == {i \in 0..n : g[i] \in S}
<1>1. 0 \in K
  BY DEF Follows
<1>2. ASSUME NEW i \in 1..n, i - 1 \in K PROVE i \in K
  <2>1. i \in 0..n /\ g[i - 1] \in S
    BY <1>2
  <2>2. g[i] = step[i][g[i - 1]]
    BY <2>1 DEF Follows
  <2>3. step[i][g[i - 1]] \in S
    BY <2>1 DEF Stepper
  <2>4. QED BY <2>1, <2>2, <2>3
<1>3. \A i \in 0..n : i \in K
  <2> HIDE DEF K
  <2> QED BY <1>1, <1>2, UpTo
<1>4. QED BY <1>3 DEF Stays

-----------------------------------------------------------------------------
(* A loop over a sequence, with a step that is a function. *)
Fold(step, init, s) ==
    LET done[i \in 0..Len(s)] == IF i = 0 THEN init ELSE step[s[i]][done[i - 1]]
    IN  done[Len(s)]

Steps(step, E, S) == step \in [E -> [S -> S]]
Along(step, s) == [i \in 1..Len(s) |-> step[s[i]]]

LEMMA OneRun ==
    ASSUME NEW n \in Nat, NEW S, NEW init \in S, NEW step, Stepper(step, n, S),
           NEW f, Run(f, n, S, init, step), NEW g, Follows(g, n, S, init, step)
    PROVE  g[n] = f[n]
<1> DEFINE K == {i \in 0..n : g[i] = f[i]}
<1>1. 0 \in K
  <2>1. 0 \in 0..n
    OBVIOUS
  <2>2. QED BY <2>1 DEF Follows, Run
<1>2. ASSUME NEW i \in 1..n, i - 1 \in K PROVE i \in K
  <2>1. i \in 0..n /\ i # 0 /\ i - 1 \in 0..n /\ g[i - 1] = f[i - 1]
    BY <1>2
  <2>2. f[i - 1] \in S /\ f[i] = step[i][f[i - 1]]
    BY <2>1 DEF Run
  <2>3. g[i] = step[i][g[i - 1]]
    BY <2>1, <2>2 DEF Follows
  <2>4. QED BY <2>1, <2>2, <2>3
<1>3. \A i \in 0..n : i \in K
  <2> HIDE DEF K
  <2> QED BY <1>1, <1>2, UpTo
<1>4. n \in 0..n
  OBVIOUS
<1>5. QED BY <1>3, <1>4

LEMMA AlongSteps ==
    ASSUME NEW E, NEW S, NEW step, Steps(step, E, S), NEW s \in Seq(E)
    PROVE  Len(s) \in Nat /\ Stepper(Along(step, s), Len(s), S)
<1>1. Len(s) \in Nat /\ \A i \in 1..Len(s) : s[i] \in E
  BY LenProperties, ElementOfSeq
<1>2. QED BY <1>1 DEF Along, Steps, Stepper

\* What follows the steps over s ends where the fold does.
LEMMA FoldIs ==
    ASSUME NEW E, NEW S, NEW step, Steps(step, E, S), NEW init \in S, NEW s \in Seq(E),
           NEW f, Run(f, Len(s), S, init, Along(step, s))
    PROVE  Fold(step, init, s) = f[Len(s)]
<1> DEFINE n == Len(s)
           Eq(h) == h = [i \in 0..n |-> IF i = 0 THEN init ELSE step[s[i]][h[i - 1]]]
           g == CHOOSE h : Eq(h)
<1>1. n \in Nat /\ Stepper(Along(step, s), n, S)
  BY AlongSteps
<1>2. \A i \in 1..n : Along(step, s)[i] = step[s[i]]
  BY DEF Along
<1>3. Eq(f)
  <2>1. f = [i \in 0..n |-> f[i]]
    BY DEF Run
  <2>2. ASSUME NEW i \in 0..n
        PROVE  f[i] = IF i = 0 THEN init ELSE step[s[i]][f[i - 1]]
    <3>1. i # 0 => i \in 1..n
      <4> HIDE DEF n
      <4> QED BY <1>1
    <3>2. QED BY <1>2, <3>1 DEF Run
  <2>3. QED BY <2>1, <2>2
<1>4. Eq(g)
  <2> HIDE DEF Eq
  <2> QED BY <1>3
<1>5. Fold(step, init, s) = g[n]
  BY DEF Fold
<1> HIDE DEF g
<1>6. Follows(g, n, S, init, Along(step, s))
  <2>1. 0 \in 0..n /\ \A i \in 1..n : i \in 0..n /\ i # 0
    BY <1>1
  <2>2. QED BY ZenonT(30), <1>2, <1>4, <2>1 DEF Follows
<1>7. g[n] = f[n]
  <2> HIDE DEF n
  <2> QED BY <1>1, <1>6, OneRun DEF n
<1>8. QED BY <1>5, <1>7

LEMMA FoldRuns ==
    ASSUME NEW E, NEW S, NEW step, Steps(step, E, S), NEW init \in S, NEW s \in Seq(E)
    PROVE  \E f : /\ Run(f, Len(s), S, init, Along(step, s))
                  /\ Fold(step, init, s) = f[Len(s)]
<1>1. Len(s) \in Nat /\ Stepper(Along(step, s), Len(s), S)
  BY AlongSteps
<1>2. PICK f : Run(f, Len(s), S, init, Along(step, s))
  BY <1>1, Runs
<1>3. QED BY <1>2, FoldIs

LEMMA FoldType ==
    ASSUME NEW E, NEW S, NEW step, Steps(step, E, S), NEW init \in S, NEW s \in Seq(E)
    PROVE  Fold(step, init, s) \in S
<1>1. PICK f : Run(f, Len(s), S, init, Along(step, s)) /\ Fold(step, init, s) = f[Len(s)]
  BY FoldRuns
<1>2. Len(s) \in 0..Len(s)
  BY LenProperties
<1>3. QED BY <1>1, <1>2 DEF Run

LEMMA FoldEmpty ==
    ASSUME NEW E, NEW S, NEW step, Steps(step, E, S), NEW init \in S
    PROVE  Fold(step, init, <<>>) = init
<1>1. ASSUME NEW e \in Seq(E), Len(e) = 0
      PROVE  Fold(step, init, e) = init
  <2>1. PICK f : Run(f, Len(e), S, init, Along(step, e)) /\ Fold(step, init, e) = f[Len(e)]
    BY FoldRuns
  <2>2. 0 \in 0..Len(e)
    BY <1>1
  <2>3. QED BY <1>1, <2>1, <2>2 DEF Run
<1>2. <<>> \in Seq(E) /\ Len(<<>>) = 0
  BY EmptySeq
<1>3. QED BY <1>1, <1>2

LEMMA FoldAppend ==
    ASSUME NEW E, NEW S, NEW step, Steps(step, E, S), NEW init \in S, NEW s \in Seq(E), NEW x \in E
    PROVE  Fold(step, init, Append(s, x)) = step[x][Fold(step, init, s)]
<1> DEFINE n == Len(s)
           t == Append(s, x)
<1>1. PICK f : Run(f, n, S, init, Along(step, s)) /\ Fold(step, init, s) = f[n]
  BY FoldRuns
<1>2. /\ n \in Nat /\ t \in Seq(E) /\ Len(t) = n + 1 /\ t[n + 1] = x
      /\ \A i \in 1..n : t[i] = s[i]
  BY LenProperties, AppendProperties
<1> HIDE DEF n, t
<1> DEFINE g == [i \in 0..n + 1 |-> IF i = n + 1 THEN step[x][f[n]] ELSE f[i]]
<1>3. n \in 0..n /\ n + 1 \in 0..n + 1 /\ n \in 0..n + 1 /\ n # n + 1
      /\ \A i \in 0..n + 1 : i # n + 1 => i \in 0..n
  BY <1>2
<1>4. f[n] \in S /\ step[x][f[n]] \in S
  <2>1. f[n] \in S
    BY <1>1, <1>3 DEF Run
  <2>2. QED BY <2>1 DEF Steps
<1>5. g \in [0..n + 1 -> S]
  BY <1>1, <1>3, <1>4 DEF Run
<1>6. ASSUME NEW i \in 0..n + 1
      PROVE  g[i] = IF i = 0 THEN init ELSE Along(step, t)[i][g[i - 1]]
  <2>1. CASE i = n + 1
    <3>1. i # 0 /\ i \in 1..n + 1 /\ i - 1 = n
      BY <1>2, <2>1
    <3>2. Along(step, t)[i] = step[x]
      BY <1>2, <2>1, <3>1 DEF Along
    <3>3. g[n] = f[n] /\ g[i] = step[x][f[n]]
      BY <1>3, <2>1
    <3>4. QED BY <3>1, <3>2, <3>3
  <2>2. CASE i # n + 1
    <3>1. i \in 0..n
      BY <1>3, <2>2
    <3>2. g[i] = f[i]
      BY <2>2
    <3>3. f[i] = IF i = 0 THEN init ELSE Along(step, s)[i][f[i - 1]]
      BY <1>1, <3>1 DEF Run
    <3>4. i # 0 => i \in 1..n /\ i \in 1..n + 1 /\ i - 1 \in 0..n + 1 /\ i - 1 # n + 1
      BY <1>2, <3>1
    <3>5. i # 0 => Along(step, t)[i] = Along(step, s)[i]
      BY <1>2, <3>4 DEF Along, n
    <3>6. i # 0 => g[i - 1] = f[i - 1]
      BY <3>4
    <3>7. QED BY <3>2, <3>3, <3>5, <3>6
  <2>3. QED BY <2>1, <2>2
<1>7. g[n + 1] = step[x][f[n]]
  BY <1>3
<1> HIDE DEF g
<1>8. Run(g, Len(t), S, init, Along(step, t))
  BY <1>2, <1>5, <1>6 DEF Run
<1>9. Fold(step, init, t) = g[n + 1]
  BY <1>2, <1>8, FoldIs
<1>10. QED BY <1>1, <1>7, <1>9 DEF t

-----------------------------------------------------------------------------
DropStep(E, dropped) ==
    [x \in E |-> [t \in Seq(E) |-> IF x \in dropped THEN t ELSE Append(t, x)]]

LEMMA DropSteps ==
    ASSUME NEW E, NEW dropped
    PROVE  Steps(DropStep(E, dropped), E, Seq(E)) /\ <<>> \in Seq(E)
BY DEF Steps, DropStep

LEMMA WithoutFold ==
    ASSUME NEW E, NEW s \in Seq(E), NEW dropped
    PROVE  Without(s, dropped) = Fold(DropStep(E, dropped), <<>>, s)
<1> DEFINE n == Len(s)
           S == Seq(E)
           step == DropStep(E, dropped)
           Eq(f) == f = [i \in 0..n |->
               IF i = 0 THEN <<>> ELSE IF s[i] \in dropped THEN f[i - 1] ELSE Append(f[i - 1], s[i])]
           g == CHOOSE f : Eq(f)
<1>1. n \in Nat /\ \A i \in 0..n : i # 0 => i \in 1..n /\ i - 1 \in 0..n /\ s[i] \in E
  BY LenProperties, ElementOfSeq
<1>2. Steps(step, E, S) /\ <<>> \in S
  BY DropSteps
<1>3. PICK f : Run(f, n, S, <<>>, Along(step, s)) /\ Fold(step, <<>>, s) = f[n]
  <2> HIDE DEF step, S
  <2> QED BY <1>2, FoldRuns
<1>4. \A i \in 1..n, t \in S :
        Along(step, s)[i][t] = IF s[i] \in dropped THEN t ELSE Append(t, s[i])
  <2>1. \A i \in 1..n : s[i] \in E
    BY ElementOfSeq
  <2> QED BY <2>1 DEF Along, DropStep
<1>5. Eq(f)
  BY <1>1, <1>3, <1>4 DEF Run
<1>6. Eq(g)
  <2> HIDE DEF Eq
  <2> QED BY <1>5
<1>7. Without(s, dropped) = g[n]
  BY DEF Without, Loop
<1> HIDE DEF g
<1>8. Follows(g, n, S, <<>>, Along(step, s))
  <2>1. 0 \in 0..n /\ \A i \in 1..n : i \in 0..n /\ i # 0
    BY <1>1
  <2> HIDE DEF S, step
  <2> QED BY <1>4, <1>6, <2>1 DEF Follows
<1>9. g[n] = f[n]
  <2> HIDE DEF n, S, step
  <2> QED BY <1>1, <1>2, <1>3, <1>8, AlongSteps, OneRun DEF n
<1>10. QED BY <1>3, <1>7, <1>9

-----------------------------------------------------------------------------
(* The loops of normalizeMerchant and levenshteinDistance: names stay      *)
(* texts, and distances integers.                                          *)

Text == Seq(Characters)

LEMMA PrefixType ==
    ASSUME NEW S, NEW name \in Seq(S), NEW e \in Int, e <= Len(name)
    PROVE  SubSeq(name, 1, e) \in Seq(S)
<1>1. \A i \in 1..e : i \in 1..Len(name)
  BY LenProperties
<1>2. \A i \in 1..e : name[i] \in S
  BY <1>1, ElementOfSeq
<1>3. QED BY <1>2, SubSeqProperties

\* The last number up to n outside a set, if there is one.
LastOut(n, B, k) == (\A i \in k + 1..n : i \in B) /\ (k = 0 \/ k \notin B)

LEMMA LastOutExists ==
    ASSUME NEW n \in Nat, NEW B
    PROVE  \E k \in 0..n : LastOut(n, B, k)
<1> DEFINE K == {j \in 0..n : \E k \in 0..j : LastOut(j, B, k)}
<1>1. 0 \in K
  <2>1. 0 \in 0..n /\ 0 \in 0..0 /\ LastOut(0, B, 0)
    BY DEF LastOut
  <2>2. QED BY <2>1
<1>2. ASSUME NEW j \in 1..n, j - 1 \in K PROVE j \in K
  <2>1. CASE j \in B
    <3>1. PICK k \in 0..(j - 1) : LastOut(j - 1, B, k)
      BY <1>2
    <3>2. k \in 0..j /\ LastOut(j, B, k)
      BY <2>1, <3>1 DEF LastOut
    <3>3. QED BY <3>2
  <2>2. CASE j \notin B
    <3>1. j \in 0..j /\ LastOut(j, B, j)
      BY <2>2 DEF LastOut
    <3>2. QED BY <3>1
  <2>3. QED BY <2>1, <2>2
<1>3. \A j \in 0..n : j \in K
  <2> HIDE DEF K
  <2> QED BY <1>1, <1>2, UpTo
<1>4. n \in 0..n
  OBVIOUS
<1>5. QED BY <1>3, <1>4

Start(t, k) == SubSeq(t, 1, k)

LEMMA StartType ==
    ASSUME NEW t \in Text, NEW k \in 0..Len(t)
    PROVE  /\ Start(t, k) \in Text /\ Len(Start(t, k)) = k
           /\ \A i \in 1..k : Start(t, k)[i] = t[i]
<1> DEFINE n == Len(t)
<1>1. n \in Nat /\ k \in 0..n
  BY LenProperties DEF Text
<1>2. \A i \in 1..k : i \in 1..n
  <2> HIDE DEF n
  <2> QED BY <1>1
<1>3. \A i \in 1..k : t[i] \in Characters
  BY <1>2, ElementOfSeq DEF Text
<1>4. k \in Nat
  <2> HIDE DEF n
  <2> QED BY <1>1
<1>5. QED BY <1>3, <1>4, SubSeqProperties DEF Start, Text

LEMMA TrimmedIs ==
    ASSUME NEW name \in Text
    PROVE  \E e \in 0..Len(name) : Trimmed(name) = Start(name, e)
<1> DEFINE n == Len(name)
           B == {i \in 1..n : name[i] = " "}
           End(k) == /\ \A i \in k + 1..n : name[i] = " "
                     /\ k = 0 \/ name[k] # " "
           e == CHOOSE j \in 0..n : End(j)
<1>1. n \in Nat
  BY LenProperties DEF Text
<1>2. PICK k \in 0..n : LastOut(n, B, k)
  BY <1>1, LastOutExists
<1>3. End(k)
  <2> HIDE DEF n
  <2>1. \A i \in k + 1..n : name[i] = " "
    BY <1>2 DEF LastOut
  <2>2. k # 0 => k \in 1..n
    <3> HIDE DEF B, End, e
    <3> QED BY <1>1
  <2>3. k # 0 => name[k] # " "
    BY <1>2, <2>2 DEF LastOut
  <2>4. QED BY <2>1, <2>3
<1>4. e \in 0..n
  <2> HIDE DEF End, n
  <2> QED BY <1>3
<1>5. Trimmed(name) = SubSeq(name, 1, e)
  BY DEF Trimmed
<1> HIDE DEF e
<1>6. QED BY <1>4, <1>5 DEF Start

LEMMA TrimmedType ==
    ASSUME NEW name \in Text
    PROVE  Trimmed(name) \in Text
BY TrimmedIs, StartType

LEMMA StripSuffixType ==
    ASSUME NEW name \in Text, NEW suffix \in Text
    PROVE  StripSuffix(name, suffix) \in Text
<1> DEFINE t == Trimmed(name)
           n == Len(t) - Len(suffix)
<1>1. t \in Seq(Characters) /\ suffix \in Seq(Characters)
  BY TrimmedType DEF Text
<1>2. n \in Int /\ n <= Len(t)
  <2> HIDE DEF t
  <2> QED BY <1>1, LenProperties
<1>3. SubSeq(t, 1, n) \in Seq(Characters)
  <2> HIDE DEF t, n
  <2> QED BY <1>1, <1>2, PrefixType
<1>4. QED BY <1>3 DEF StripSuffix, Text

LEMMA SingleType ==
    ASSUME NEW E, NEW e \in E
    PROVE  <<e>> \in Seq(E)
OBVIOUS

LEMMA ReplaceType ==
    ASSUME NEW E, NEW s \in Seq(E), NEW x, NEW y \in E
    PROVE  [i \in DOMAIN s |-> IF s[i] = x THEN y ELSE s[i]] \in Seq(E)
<1>1. Len(s) \in Nat /\ DOMAIN s = 1..Len(s) /\ \A i \in 1..Len(s) : s[i] \in E
  BY LenProperties, ElementOfSeq
<1>2. [i \in DOMAIN s |-> IF s[i] = x THEN y ELSE s[i]] \in [1..Len(s) -> E]
  BY <1>1
<1>3. QED BY <1>1, <1>2, SeqDef

\* The loops of normalizeMerchant, as folds.
StripStep(S) == [x \in Text |-> [t \in S |-> StripSuffix(t, x)]]

LEMMA SuffixesType == StoreSuffixes \in Seq(Text)
BY RowsAssumption DEF Text

LEMMA StripFold ==
    ASSUME NEW set, NEW u \in set, \A t \in set, x \in Text : StripSuffix(t, x) \in set
    PROVE  Loop(StripSuffix, u, StoreSuffixes) = Fold(StripStep(set), u, StoreSuffixes)
<1> DEFINE n == Len(StoreSuffixes)
           S == set
           step == StripStep(set)
           Step(t, i) == StripSuffix(t, StoreSuffixes[i])
           Eq(f) == f = [i \in 0..n |-> IF i = 0 THEN u ELSE Step(f[i - 1], i)]
           g == CHOOSE f : Eq(f)
<1>1. n \in Nat /\ \A i \in 0..n : i # 0 => i \in 1..n /\ i - 1 \in 0..n /\ StoreSuffixes[i] \in Text
  BY SuffixesType, LenProperties, ElementOfSeq
<1>2. Steps(step, Text, S) /\ u \in S
  BY DEF Steps, StripStep
<1>3. PICK f : Run(f, n, S, u, Along(step, StoreSuffixes)) /\ Fold(step, u, StoreSuffixes) = f[n]
  <2> HIDE DEF step, S
  <2> QED BY <1>2, SuffixesType, FoldRuns
<1>4. \A i \in 1..n, t \in S : Along(step, StoreSuffixes)[i][t] = Step(t, i)
  <2>1. \A i \in 1..n : StoreSuffixes[i] \in Text
    BY SuffixesType, ElementOfSeq
  <2> QED BY <2>1 DEF Along, StripStep
<1>5. Eq(f)
  <2> HIDE DEF Step, step, S
  <2> QED BY <1>1, <1>3, <1>4 DEF Run
<1>6. Eq(g)
  <2> HIDE DEF Eq
  <2> QED BY <1>5
<1>7. Loop(StripSuffix, u, StoreSuffixes) = g[n]
  BY DEF Loop
<1> HIDE DEF g
<1>8. Follows(g, n, S, u, Along(step, StoreSuffixes))
  <2>1. 0 \in 0..n /\ \A i \in 1..n : i \in 0..n /\ i # 0
    BY <1>1
  <2> HIDE DEF S, step, Step
  <2> QED BY <1>4, <1>6, <2>1 DEF Follows
<1>9. g[n] = f[n]
  <2> HIDE DEF n, S, step
  <2> QED BY <1>1, <1>2, <1>3, <1>8, SuffixesType, AlongSteps, OneRun DEF n
<1>10. QED BY <1>3, <1>7, <1>9

\* A set that stripping a suffix does not leave.
LEMMA StrippedIn ==
    ASSUME NEW S, NEW u \in S, \A t \in S, x \in Text : StripSuffix(t, x) \in S
    PROVE  Loop(StripSuffix, u, StoreSuffixes) \in S
<1>1. Steps(StripStep(S), Text, S)
  BY DEF Steps, StripStep
<1>2. Loop(StripSuffix, u, StoreSuffixes) = Fold(StripStep(S), u, StoreSuffixes)
  BY StripFold
<1>3. QED BY <1>1, <1>2, SuffixesType, FoldType

LEMMA StrippedType ==
    ASSUME NEW u \in Text
    PROVE  Loop(StripSuffix, u, StoreSuffixes) \in Text
BY StripSuffixType, StrippedIn

LEMMA WithoutType ==
    ASSUME NEW E, NEW s \in Seq(E), NEW dropped
    PROVE  Without(s, dropped) \in Seq(E)
<1> DEFINE step == DropStep(E, dropped)
           S == Seq(E)
           e == <<>>
<1>1. Steps(step, E, S) /\ e \in S
  BY DropSteps
<1>2. Without(s, dropped) = Fold(step, e, s)
  BY WithoutFold
<1> HIDE DEF step, e, S
<1>3. QED BY <1>1, <1>2, FoldType DEF S

WordLists == {ws \in Seq(Text) : ws # <<>>}
NextLetter(ws, x) == [ws EXCEPT ![Len(ws)] = Append(@, x)]
WordsStep ==
    [x \in Characters |-> [ws \in WordLists |->
        IF x = " " THEN Append(ws, <<>>) ELSE NextLetter(ws, x)]]

LEMMA NextLetterIs ==
    ASSUME NEW ws \in WordLists, NEW x \in Characters
    PROVE  /\ NextLetter(ws, x) \in WordLists /\ Len(NextLetter(ws, x)) = Len(ws)
           /\ \A i \in 1..Len(ws) : NextLetter(ws, x)[i] =
                IF i = Len(ws) THEN Append(ws[i], x) ELSE ws[i]
<1> DEFINE n == Len(ws)
           new == NextLetter(ws, x)
           w == Append(ws[n], x)
<1>1. n \in 1..n /\ ws \in Seq(Text)
  BY EmptySeq DEF WordLists
<1>2. ws[n] \in Text
  BY <1>1, ElementOfSeq
<1>3. w \in Text
  BY <1>2 DEF Text
<1>4. new = [ws EXCEPT ![n] = w]
  BY DEF NextLetter
<1> HIDE DEF w, new
<1>5. new \in Seq(Text) /\ Len(new) = n /\ \A j \in 1..n : new[j] = IF j = n THEN w ELSE ws[j]
  BY <1>1, <1>3, <1>4, ExceptSeq
<1>6. new # <<>>
  BY <1>1, <1>5, EmptySeq
<1>7. QED BY <1>5, <1>6 DEF WordLists, w, new

LEMMA WordsSteps == Steps(WordsStep, Characters, WordLists) /\ << <<>> >> \in WordLists
<1>1. ASSUME NEW ws \in WordLists PROVE Append(ws, <<>>) \in WordLists
  <2>1. <<>> \in Text /\ ws \in Seq(Text)
    BY EmptySeq DEF Text, WordLists
  <2>2. QED BY <2>1, AppendProperties DEF WordLists
<1>2. \A x \in Characters, ws \in WordLists :
        (IF x = " " THEN Append(ws, <<>>) ELSE NextLetter(ws, x)) \in WordLists
  BY <1>1, NextLetterIs
<1>3. Steps(WordsStep, Characters, WordLists)
  BY <1>2 DEF Steps, WordsStep
<1>4. <<>> \in Text
  BY EmptySeq DEF Text
<1>5. << <<>> >> \in Seq(Text) /\ << <<>> >> # <<>>
  BY <1>4, SingleType
<1>6. QED BY <1>3, <1>5 DEF WordLists

LEMMA WordsFold ==
    ASSUME NEW name \in Text
    PROVE  Words(name) = Fold(WordsStep, << <<>> >>, name)
<1> DEFINE n == Len(name)
           S == WordLists
           step == WordsStep
           Step(t, i) == IF name[i] = " " THEN Append(t, <<>>) ELSE NextLetter(t, name[i])
           Eq(f) == f = [i \in 0..n |-> IF i = 0 THEN << <<>> >> ELSE Step(f[i - 1], i)]
           g == CHOOSE f : Eq(f)
<1>1. n \in Nat /\ \A i \in 0..n : i # 0 => i \in 1..n /\ i - 1 \in 0..n /\ name[i] \in Characters
  BY LenProperties, ElementOfSeq DEF Text
<1>2. Steps(step, Characters, S) /\ << <<>> >> \in S
  BY WordsSteps
<1>3. PICK f : Run(f, n, S, << <<>> >>, Along(step, name)) /\ Fold(step, << <<>> >>, name) = f[n]
  <2> HIDE DEF step, S
  <2> QED BY <1>2, FoldRuns DEF Text
<1>4. \A i \in 1..n, t \in S : Along(step, name)[i][t] = Step(t, i)
  <2>1. \A i \in 1..n : name[i] \in Characters
    BY ElementOfSeq DEF Text
  <2> QED BY <2>1 DEF Along, WordsStep
<1>5. Eq(f)
  <2> HIDE DEF Step, step, S
  <2> QED BY <1>1, <1>3, <1>4 DEF Run
<1>6. Eq(g)
  <2> HIDE DEF Eq
  <2> QED BY <1>5
<1>7. Words(name) = g[n]
  BY DEF Words, Loop, NextLetter
<1> HIDE DEF g
<1>8. Follows(g, n, S, << <<>> >>, Along(step, name))
  <2>1. 0 \in 0..n /\ \A i \in 1..n : i \in 0..n /\ i # 0
    BY <1>1
  <2> HIDE DEF S, step, Step
  <2> QED BY <1>4, <1>6, <2>1 DEF Follows
<1>9. g[n] = f[n]
  <2> HIDE DEF n, S, step
  <2> QED BY <1>1, <1>2, <1>3, <1>8, AlongSteps, OneRun DEF n, Text
<1>10. QED BY <1>3, <1>7, <1>9

LEMMA WordsAppend ==
    ASSUME NEW s \in Text, NEW x \in Characters
    PROVE  /\ Words(<<>>) = << <<>> >> /\ Words(s) \in WordLists
           /\ Words(Append(s, x)) =
                IF x = " " THEN Append(Words(s), <<>>) ELSE NextLetter(Words(s), x)
<1> DEFINE init == << <<>> >>
           e == <<>>
           ws == Fold(WordsStep, init, s)
<1>1. Steps(WordsStep, Characters, WordLists) /\ init \in WordLists
  BY WordsSteps
<1>2. Append(s, x) \in Text /\ e \in Text
  BY EmptySeq DEF Text
<1>3. Words(s) = ws /\ Words(Append(s, x)) = Fold(WordsStep, init, Append(s, x))
      /\ Words(e) = Fold(WordsStep, init, e)
  <2> HIDE DEF e
  <2> QED BY <1>2, WordsFold
<1> HIDE DEF init
<1>4. ws \in WordLists
  BY <1>1, FoldType DEF Text
<1>5. Fold(WordsStep, init, Append(s, x)) = WordsStep[x][ws]
  BY <1>1, FoldAppend DEF Text
<1>6. Fold(WordsStep, init, e) = init
  BY <1>1, FoldEmpty
<1>7. WordsStep[x][ws] = IF x = " " THEN Append(ws, <<>>) ELSE NextLetter(ws, x)
  BY <1>4 DEF WordsStep
<1> HIDE DEF ws
<1>8. QED BY <1>3, <1>4, <1>5, <1>6, <1>7 DEF init

LEMMA WordsType ==
    ASSUME NEW name \in Text
    PROVE  Words(name) \in Seq(Text)
<1>1. Words(name) = Fold(WordsStep, << <<>> >>, name)
  BY WordsFold
<1>2. Words(name) \in WordLists
  BY <1>1, WordsSteps, FoldType DEF Text
<1>3. QED BY <1>2 DEF WordLists

Joined(t, w) == IF t = <<>> THEN w ELSE t \o <<" ">> \o w
JoinStep == [w \in Text |-> [t \in Text |-> Joined(t, w)]]

LEMMA JoinSteps == Steps(JoinStep, Text, Text) /\ <<>> \in Text
<1>1. <<" ">> \in Text
  <2>1. " " \in Characters
    BY RowsAssumption
  <2>2. QED BY <2>1, SingleType DEF Text
<1>2. ASSUME NEW w \in Text, NEW t \in Text
      PROVE  Joined(t, w) \in Text
  <2>1. t \o <<" ">> \in Text
    BY <1>1, ConcatProperties DEF Text
  <2>2. t \o <<" ">> \o w \in Text
    BY <2>1, ConcatProperties DEF Text
  <2>3. QED BY <2>2 DEF Joined
<1>3. QED BY <1>2, EmptySeq DEF Steps, JoinStep, Text

LEMMA JoinFold ==
    ASSUME NEW ws \in Seq(Text)
    PROVE  Join(ws) = Fold(JoinStep, <<>>, ws)
<1> DEFINE n == Len(ws)
           S == Text
           step == JoinStep
           Step(t, i) == Joined(t, ws[i])
           Eq(f) == f = [i \in 0..n |-> IF i = 0 THEN <<>> ELSE Step(f[i - 1], i)]
           g == CHOOSE f : Eq(f)
<1>1. n \in Nat /\ \A i \in 0..n : i # 0 => i \in 1..n /\ i - 1 \in 0..n /\ ws[i] \in Text
  BY LenProperties, ElementOfSeq
<1>2. Steps(step, Text, S) /\ <<>> \in S
  BY JoinSteps
<1>3. PICK f : Run(f, n, S, <<>>, Along(step, ws)) /\ Fold(step, <<>>, ws) = f[n]
  <2> HIDE DEF step, S
  <2> QED BY <1>2, FoldRuns
<1>4. \A i \in 1..n, t \in S : Along(step, ws)[i][t] = Step(t, i)
  <2>1. \A i \in 1..n : ws[i] \in Text
    BY ElementOfSeq
  <2> QED BY <2>1 DEF Along, JoinStep
<1>5. Eq(f)
  <2> HIDE DEF Step, step, S
  <2> QED BY <1>1, <1>3, <1>4 DEF Run
<1>6. Eq(g)
  <2> HIDE DEF Eq
  <2> QED BY <1>5
<1>7. Join(ws) = g[n]
  BY DEF Join, Loop, Joined
<1> HIDE DEF g
<1>8. Follows(g, n, S, <<>>, Along(step, ws))
  <2>1. 0 \in 0..n /\ \A i \in 1..n : i \in 0..n /\ i # 0
    BY <1>1
  <2> HIDE DEF S, step, Step
  <2> QED BY <1>4, <1>6, <2>1 DEF Follows
<1>9. g[n] = f[n]
  <2> HIDE DEF n, S, step
  <2> QED BY <1>1, <1>2, <1>3, <1>8, AlongSteps, OneRun DEF n
<1>10. QED BY <1>3, <1>7, <1>9

LEMMA JoinAppend ==
    ASSUME NEW ws \in Seq(Text), NEW w \in Text
    PROVE  /\ Join(ws) \in Text
           /\ Join(Append(ws, w)) = Joined(Join(ws), w)
<1> DEFINE e == <<>>
           t == Fold(JoinStep, e, ws)
<1>1. Steps(JoinStep, Text, Text) /\ e \in Text
  BY JoinSteps
<1>2. Append(ws, w) \in Seq(Text)
  OBVIOUS
<1>3. Join(ws) = t /\ Join(Append(ws, w)) = Fold(JoinStep, e, Append(ws, w))
  BY <1>2, JoinFold
<1> HIDE DEF e
<1>4. t \in Text
  BY <1>1, FoldType
<1>5. Fold(JoinStep, e, Append(ws, w)) = JoinStep[w][t]
  BY <1>1, FoldAppend
<1>6. QED BY <1>3, <1>4, <1>5 DEF JoinStep

LEMMA JoinType ==
    ASSUME NEW ws \in Seq(Text)
    PROVE  Join(ws) \in Text
BY JoinFold, JoinSteps, FoldType

LEMMA NormalizeType ==
    ASSUME NEW name \in Text
    PROVE  NormalizeMerchant(name) \in Text
<1> DEFINE u == ToUpper(name)
           t == Loop(StripSuffix, u, StoreSuffixes)
           s == Spaced(t)
           c == Without(s, {"."})
           w == Words(c)
           k == Without(w, Seq(Digits))
<1>1. {"A", " "} \subseteq Characters
  BY RowsAssumption
<1>2. u \in Text
  BY <1>1, ReplaceType DEF ToUpper, Text
<1>3. t \in Text
  <2> HIDE DEF u
  <2> QED BY <1>2, StrippedType
<1>4. s \in Text
  <2> HIDE DEF t
  <2> QED BY <1>1, <1>3, ReplaceType DEF Spaced, Text
<1>5. c \in Text
  <2> HIDE DEF s
  <2> QED BY <1>4, WithoutType DEF Text
<1>6. w \in Seq(Text)
  <2> HIDE DEF c
  <2> QED BY <1>5, WordsType
<1>7. k \in Seq(Text)
  <2> HIDE DEF w
  <2> QED BY <1>6, WithoutType
<1>8. Join(k) \in Text
  <2> HIDE DEF k
  <2> QED BY <1>7, JoinType
<1>9. NormalizeMerchant(name) = Join(k)
  BY DEF NormalizeMerchant
<1>10. QED BY <1>8, <1>9

-----------------------------------------------------------------------------
(***************************************************************************)
(* The distance.  A pairing of the first i letters of one name with the    *)
(* first j of another leaves the last letters out, or pairs them: so the   *)
(* rows that are computed hold the least costs, which are edit distances.  *)
(***************************************************************************)
Cost(a, b, i, j, f) == i + j - 2 * Cardinality(DOMAIN f) + Cardinality(Unlike(a, b, f))

\* d is the least cost of a pairing of i letters of a with j letters of b.
Least(a, b, i, j, d) ==
    /\ \E f \in Pairings(i, j) : Cost(a, b, i, j, f) = d
    /\ \A f \in Pairings(i, j) : d <= Cost(a, b, i, j, f)

Pairing(f, m, n) ==
    /\ DOMAIN f \subseteq 1..m
    /\ f = [k \in DOMAIN f |-> f[k]]
    /\ \A k \in DOMAIN f : f[k] \in 1..n
    /\ \A k, l \in DOMAIN f : k < l => f[k] < f[l]

LEMMA PairingIs ==
    ASSUME NEW f, NEW m, NEW n
    PROVE  f \in Pairings(m, n) <=> Pairing(f, m, n)
<1>1. ASSUME f \in Pairings(m, n) PROVE Pairing(f, m, n)
  <2>1. PICK D \in SUBSET (1..m) :
           f \in {g \in [D -> 1..n] : \A i, j \in D : i < j => g[i] < g[j]}
    BY <1>1 DEF Pairings
  <2>2. DOMAIN f = D
    BY <2>1
  <2>3. QED BY <2>1, <2>2 DEF Pairing
<1>2. ASSUME Pairing(f, m, n) PROVE f \in Pairings(m, n)
  <2> DEFINE D == DOMAIN f
  <2>1. D \in SUBSET (1..m) /\ f \in [D -> 1..n] /\ \A i, j \in D : i < j => f[i] < f[j]
    BY <1>2 DEF Pairing
  <2> DEFINE X(letters) == {g \in [letters -> 1..n] : \A i, j \in letters : i < j => g[i] < g[j]}
  <2> HIDE DEF D
  <2>2. f \in X(D)
    BY <2>1
  <2>3. Pairings(m, n) = UNION {X(letters) : letters \in SUBSET (1..m)}
    BY DEF Pairings
  <2> HIDE DEF X
  <2>4. QED BY <2>1, <2>2, <2>3
<1>3. QED BY <1>1, <1>2

LEMMA PairingFinite ==
    ASSUME NEW a, NEW b, NEW m \in Nat, NEW n, NEW f, Pairing(f, m, n)
    PROVE  /\ IsFiniteSet(DOMAIN f) /\ IsFiniteSet(Unlike(a, b, f))
           /\ Cardinality(DOMAIN f) \in Nat /\ Cardinality(Unlike(a, b, f)) \in Nat
           /\ Cardinality(DOMAIN f) <= m
<1>1. IsFiniteSet(1..m) /\ Cardinality(1..m) = m
  BY FS_Interval
<1>2. DOMAIN f \subseteq 1..m
  BY DEF Pairing
<1>3. Unlike(a, b, f) \subseteq DOMAIN f
  BY DEF Unlike
<1>4. IsFiniteSet(DOMAIN f) /\ Cardinality(DOMAIN f) <= Cardinality(1..m)
  BY <1>1, <1>2, FS_Subset
<1>5. IsFiniteSet(Unlike(a, b, f))
  BY <1>3, <1>4, FS_Subset
<1>6. QED BY <1>1, <1>4, <1>5, FS_CardinalityType

LEMMA CostInt ==
    ASSUME NEW a, NEW b, NEW m \in Nat, NEW n, NEW f, Pairing(f, m, n),
           NEW i \in Int, NEW j \in Int
    PROVE  Cost(a, b, i, j, f) \in Int
<1>1. Cardinality(DOMAIN f) \in Nat /\ Cardinality(Unlike(a, b, f)) \in Nat
  BY PairingFinite
<1>2. QED BY <1>1 DEF Cost

\* One letter more that is left over costs 1.
LEMMA CostOver ==
    ASSUME NEW a, NEW b, NEW m \in Nat, NEW n, NEW f, Pairing(f, m, n),
           NEW i \in Int, NEW j \in Int
    PROVE  /\ Cost(a, b, i, j, f) = Cost(a, b, i - 1, j, f) + 1
           /\ Cost(a, b, i, j, f) = Cost(a, b, i, j - 1, f) + 1
<1>1. Cardinality(DOMAIN f) \in Nat /\ Cardinality(Unlike(a, b, f)) \in Nat
  BY PairingFinite
<1>2. QED BY <1>1 DEF Cost

Differ(x, y) == IF x = y THEN 0 ELSE 1

Shorter(f, i, j) == Pairing(f, i - 1, j - 1)
Extended(g, f, i, j) ==
    DOMAIN g = DOMAIN f \cup {i} /\ g[i] = j /\ \A k \in DOMAIN f : g[k] = f[k]

CostGrows(a, b, i, j, g, f) ==
    Cost(a, b, i, j, g) = Cost(a, b, i - 1, j - 1, f) + Differ(a[i], b[j])

\* The pair of the last letters costs 1 if they differ.
LEMMA CostPair ==
    ASSUME NEW a, NEW b, NEW i \in Nat \ {0}, NEW j \in Nat \ {0},
           NEW f, Shorter(f, i, j), NEW g, Pairing(g, i, j), Extended(g, f, i, j)
    PROVE  CostGrows(a, b, i, j, g, f)
<1> DEFINE D == DOMAIN f
           U == Unlike(a, b, f)
           V == Unlike(a, b, g)
           c == Cardinality(D)
           u == Cardinality(U)
<1>1. i - 1 \in Nat
  OBVIOUS
<1>2. IsFiniteSet(D) /\ IsFiniteSet(U) /\ c \in Nat /\ u \in Nat
  BY <1>1, PairingFinite DEF Shorter
<1>3. i \notin D /\ U \subseteq D
  BY DEF Pairing, Shorter, Unlike
<1>12. DOMAIN g = D \cup {i}
  BY DEF Extended
<1>4. Cardinality(D \cup {i}) = c + 1
  BY <1>2, <1>3, FS_AddElement
<1>5. V = IF a[i] = b[j] THEN U ELSE U \cup {i}
  <2>1. \A k \in D : k # i
    BY <1>3
  <2>2. QED BY <2>1 DEF Unlike, Extended
<1>6. Cardinality(U \cup {i}) = u + 1
  <2>1. i \notin U
    BY <1>3
  <2> HIDE DEF U
  <2>2. QED BY <1>2, <2>1, FS_AddElement
<1>7. Cardinality(V) = u + Differ(a[i], b[j])
  <2> HIDE DEF U, V
  <2> QED BY <1>2, <1>5, <1>6 DEF Differ
<1>8. Cost(a, b, i, j, g) = i + j - 2 * (c + 1) + (u + Differ(a[i], b[j]))
  <2> HIDE DEF U, V, c, u, D
  <2> QED BY <1>4, <1>7, <1>12 DEF Cost, V, D
<1>9. Cost(a, b, i - 1, j - 1, f) = (i - 1) + (j - 1) - 2 * c + u
  BY DEF Cost
<1>10. Differ(a[i], b[j]) \in Nat
  BY DEF Differ
<1> HIDE DEF c, u
<1>11. QED BY <1>2, <1>8, <1>9, <1>10 DEF CostGrows

\* What a pairing does with the last letters.
LEMMA LastLetters ==
    ASSUME NEW a, NEW b, NEW i \in Nat \ {0}, NEW j \in Nat \ {0}, NEW f \in Pairings(i, j)
    PROVE  \/ f \in Pairings(i - 1, j)
           \/ f \in Pairings(i, j - 1)
           \/ \E g \in Pairings(i - 1, j - 1) :
                Cost(a, b, i, j, f) = Cost(a, b, i - 1, j - 1, g) + Differ(a[i], b[j])
<1>0. Pairing(f, i, j)
  BY PairingIs
<1>1. CASE i \notin DOMAIN f
  <2>1. \A k \in 1..i : k # i => k \in 1..(i - 1)
    OBVIOUS
  <2>2. Pairing(f, i - 1, j)
    BY <1>0, <1>1, <2>1 DEF Pairing
  <2>3. QED BY <2>2, PairingIs
<1>2. CASE i \in DOMAIN f /\ f[i] # j
  <2>1. ASSUME NEW k \in DOMAIN f PROVE f[k] \in 1..(j - 1)
    <3>1. k \in 1..i /\ f[k] \in 1..j /\ f[i] \in 1..j
      BY <1>0, <1>2 DEF Pairing
    <3>2. CASE k = i
      BY <1>2, <3>1, <3>2
    <3>3. CASE k # i
      <4>1. f[k] < f[i]
        BY <1>0, <1>2, <3>1, <3>3 DEF Pairing
      <4>2. QED BY <3>1, <4>1
    <3>4. QED BY <3>2, <3>3
  <2>2. Pairing(f, i, j - 1)
    BY <1>0, <2>1 DEF Pairing
  <2>3. QED BY <2>2, PairingIs
<1>3. CASE i \in DOMAIN f /\ f[i] = j
  <2> DEFINE D == DOMAIN f \ {i}
             g == [k \in D |-> f[k]]
  <2>1. ASSUME NEW k \in D PROVE k \in 1..(i - 1) /\ f[k] \in 1..(j - 1)
    <3>1. k \in 1..i /\ k # i /\ f[k] \in 1..j /\ k \in DOMAIN f
      BY <1>0 DEF Pairing
    <3>2. f[k] < f[i]
      BY <1>0, <1>3, <3>1 DEF Pairing
    <3>3. QED BY <1>3, <3>1, <3>2
  <2>2. DOMAIN g = D /\ \A k \in D : g[k] = f[k]
    OBVIOUS
  <2>3. \A k, l \in D : k < l => f[k] < f[l]
    BY <1>0 DEF Pairing
  <2>4. Pairing(g, i - 1, j - 1)
    BY <2>1, <2>2, <2>3 DEF Pairing
  <2>5. DOMAIN f = DOMAIN g \cup {i} /\ \A k \in DOMAIN g : f[k] = g[k]
    BY <1>3, <2>2
  <2> HIDE DEF g
  <2>6. Cost(a, b, i, j, f) = Cost(a, b, i - 1, j - 1, g) + Differ(a[i], b[j])
    <3>1. Extended(f, g, i, j)
      BY <1>3, <2>5 DEF Extended
    <3>2. Shorter(g, i, j)
      BY <2>4 DEF Shorter
    <3>3. CostGrows(a, b, i, j, f, g)
      BY <1>0, <3>1, <3>2, CostPair
    <3>4. QED BY <3>3 DEF CostGrows
  <2>7. g \in Pairings(i - 1, j - 1)
    BY <2>4, PairingIs
  <2>8. QED BY <2>6, <2>7
<1>4. QED BY <1>1, <1>2, <1>3

Longer(a, b, i, j) ==
    \A f \in Pairings(i - 1, j - 1) : \E g \in Pairings(i, j) :
        Cost(a, b, i, j, g) = Cost(a, b, i - 1, j - 1, f) + Differ(a[i], b[j])

\* Pairings of fewer letters, and one with the last letters paired.
LEMMA MoreLetters ==
    ASSUME NEW a, NEW b, NEW i \in Nat \ {0}, NEW j \in Nat \ {0}
    PROVE  /\ \A f \in Pairings(i - 1, j) : f \in Pairings(i, j)
           /\ \A f \in Pairings(i, j - 1) : f \in Pairings(i, j)
           /\ Longer(a, b, i, j)
<1>1. ASSUME NEW f \in Pairings(i - 1, j) PROVE f \in Pairings(i, j)
  <2>1. Pairing(f, i - 1, j)
    BY PairingIs
  <2>2. 1..(i - 1) \subseteq 1..i
    OBVIOUS
  <2>3. Pairing(f, i, j)
    BY <2>1, <2>2 DEF Pairing
  <2>4. QED BY <2>3, PairingIs
<1>2. ASSUME NEW f \in Pairings(i, j - 1) PROVE f \in Pairings(i, j)
  <2>1. Pairing(f, i, j - 1)
    BY PairingIs
  <2>2. 1..(j - 1) \subseteq 1..j
    OBVIOUS
  <2>3. Pairing(f, i, j)
    BY <2>1, <2>2 DEF Pairing
  <2>4. QED BY <2>3, PairingIs
<1>3. ASSUME NEW f \in Pairings(i - 1, j - 1)
      PROVE  \E g \in Pairings(i, j) :
                Cost(a, b, i, j, g) = Cost(a, b, i - 1, j - 1, f) + Differ(a[i], b[j])
  <2> DEFINE D == DOMAIN f
             g == [k \in D \cup {i} |-> IF k = i THEN j ELSE f[k]]
  <2>1. Pairing(f, i - 1, j - 1)
    BY PairingIs
  <2>2. \A k \in D : k \in 1..(i - 1) /\ f[k] \in 1..(j - 1)
    BY <2>1 DEF Pairing
  <2>3. \A k \in D : k \in 1..i /\ k # i /\ k < i /\ f[k] \in 1..j /\ f[k] < j
    BY <2>2
  <2>4. DOMAIN g = D \cup {i} /\ g[i] = j /\ \A k \in D : g[k] = f[k]
    BY <2>3
  <2>5. g = [k \in DOMAIN g |-> g[k]]
    OBVIOUS
  <2>6. \A k, l \in D : k < l => f[k] < f[l]
    BY <2>1 DEF Pairing
  <2>7. i \in 1..i /\ j \in 1..j
    OBVIOUS
  <2> HIDE DEF g
  <2>8. ASSUME NEW k \in DOMAIN g, NEW l \in DOMAIN g, k < l PROVE g[k] < g[l]
    <3>1. k \in D
      <4>1. l \in 1..i
        BY <2>3, <2>4, <2>7
      <4>2. QED BY <2>4, <2>8, <4>1
    <3>2. QED BY <2>3, <2>4, <2>6, <2>8, <3>1
  <2>9. Pairing(g, i, j)
    BY <2>3, <2>4, <2>5, <2>7, <2>8 DEF Pairing
  <2>10. Cost(a, b, i, j, g) = Cost(a, b, i - 1, j - 1, f) + Differ(a[i], b[j])
    <3>1. Extended(g, f, i, j)
      BY <2>4 DEF Extended
    <3>2. Shorter(f, i, j)
      BY <2>1 DEF Shorter
    <3>3. CostGrows(a, b, i, j, g, f)
      BY <2>9, <3>1, <3>2, CostPair
    <3>4. QED BY <3>3 DEF CostGrows
  <2>11. g \in Pairings(i, j)
    BY <2>9, PairingIs
  <2>12. QED BY <2>10, <2>11
<1>4. QED BY <1>1, <1>2, <1>3 DEF Longer

-----------------------------------------------------------------------------
LEMMA LeastStep ==
    ASSUME NEW a, NEW b, NEW i \in Nat \ {0}, NEW j \in Nat \ {0},
           NEW p \in Int, NEW q \in Int, NEW r \in Int,
           Least(a, b, i - 1, j, p), Least(a, b, i, j - 1, q), Least(a, b, i - 1, j - 1, r)
    PROVE  Least(a, b, i, j, Min2(Min2(p + 1, q + 1), r + Differ(a[i], b[j])))
<1> DEFINE c == Differ(a[i], b[j])
           d == Min2(Min2(p + 1, q + 1), r + c)
<1>1. c \in Int
  BY DEF Differ
<1>2. i - 1 \in Nat /\ j - 1 \in Nat /\ i \in Int /\ j \in Int
  OBVIOUS
<1>3. ASSUME NEW f \in Pairings(i, j)
      PROVE  Cost(a, b, i, j, f) = Cost(a, b, i - 1, j, f) + 1
             /\ Cost(a, b, i, j, f) = Cost(a, b, i, j - 1, f) + 1
             /\ Cost(a, b, i, j, f) \in Int
  <2>1. Pairing(f, i, j) /\ i \in Nat
    BY PairingIs
  <2>2. QED BY <1>2, <2>1, CostOver, CostInt
<1>4. ASSUME NEW f \in Pairings(i, j)
      PROVE  d <= Cost(a, b, i, j, f)
  <2>1. CASE f \in Pairings(i - 1, j)
    <3>1. p <= Cost(a, b, i - 1, j, f) /\ Cost(a, b, i - 1, j, f) \in Int
      <4>1. Pairing(f, i - 1, j)
        BY <2>1, PairingIs
      <4>2. Cost(a, b, i - 1, j, f) \in Int
        BY <1>2, <4>1, CostInt
      <4>3. QED BY <2>1, <4>2 DEF Least
    <3> DEFINE v == Cost(a, b, i - 1, j, f)
    <3>2. Cost(a, b, i, j, f) = v + 1
      BY <1>3
    <3> HIDE DEF c, v
    <3>3. QED BY <1>1, <3>1, <3>2 DEF Min2, v
  <2>2. CASE f \in Pairings(i, j - 1)
    <3>1. q <= Cost(a, b, i, j - 1, f) /\ Cost(a, b, i, j - 1, f) \in Int
      <4>1. Pairing(f, i, j - 1)
        BY <2>2, PairingIs
      <4>2. Cost(a, b, i, j - 1, f) \in Int
        BY <1>2, <4>1, CostInt
      <4>3. QED BY <2>2, <4>2 DEF Least
    <3> DEFINE v == Cost(a, b, i, j - 1, f)
    <3>2. Cost(a, b, i, j, f) = v + 1
      BY <1>3
    <3> HIDE DEF c, v
    <3>3. QED BY <1>1, <3>1, <3>2 DEF Min2, v
  <2>3. ASSUME NEW g \in Pairings(i - 1, j - 1),
               Cost(a, b, i, j, f) = Cost(a, b, i - 1, j - 1, g) + c
        PROVE  d <= Cost(a, b, i, j, f)
    <3> DEFINE v == Cost(a, b, i - 1, j - 1, g)
    <3>1. r <= v /\ v \in Int
      <4>1. Pairing(g, i - 1, j - 1)
        BY PairingIs
      <4>2. v \in Int
        BY <1>2, <4>1, CostInt
      <4>3. QED BY <4>2 DEF Least
    <3>2. Cost(a, b, i, j, f) = v + c
      BY <2>3
    <3> HIDE DEF c, v
    <3>3. QED BY <1>1, <3>1, <3>2 DEF Min2
  <2>4. QED BY ZenonT(30), <2>1, <2>2, <2>3, LastLetters
<1>5. \E f \in Pairings(i, j) : Cost(a, b, i, j, f) = d
  <2>1. PICK f \in Pairings(i - 1, j) : Cost(a, b, i - 1, j, f) = p
    BY DEF Least
  <2>2. PICK g \in Pairings(i, j - 1) : Cost(a, b, i, j - 1, g) = q
    BY DEF Least
  <2>3. PICK h \in Pairings(i - 1, j - 1) : Cost(a, b, i - 1, j - 1, h) = r
    BY DEF Least
  <2>4. PICK e \in Pairings(i, j) : Cost(a, b, i, j, e) = Cost(a, b, i - 1, j - 1, h) + c
    <3>1. Longer(a, b, i, j)
      BY MoreLetters
    <3>2. QED BY <3>1 DEF Longer
  <2>5. f \in Pairings(i, j) /\ g \in Pairings(i, j)
    BY MoreLetters
  <2>6. Cost(a, b, i, j, f) = p + 1 /\ Cost(a, b, i, j, g) = q + 1
    BY <1>3, <2>1, <2>2, <2>5
  <2>7. Cost(a, b, i, j, e) = r + c
    BY <2>3, <2>4
  <2>8. d = p + 1 \/ d = q + 1 \/ d = r + c
    BY DEF Min2
  <2> HIDE DEF d, c
  <2>9. QED BY <2>5, <2>6, <2>7, <2>8
<1>6. QED BY <1>4, <1>5 DEF Least

\* Letters all of one name are left over.
LEMMA LeastEdge ==
    ASSUME NEW a, NEW b, NEW i \in Nat, NEW j \in Nat, i = 0 \/ j = 0
    PROVE  Least(a, b, i, j, i + j)
<1> DEFINE e == [k \in {} |-> 0]
<1>1. DOMAIN e = {} /\ Pairing(e, i, j)
  BY DEF Pairing
<1> HIDE DEF e
<1>2. ASSUME NEW f \in Pairings(i, j) PROVE Cost(a, b, i, j, f) = i + j
  <2>1. Pairing(f, i, j)
    BY PairingIs
  <2>2. DOMAIN f = {}
    BY <2>1 DEF Pairing
  <2>3. Unlike(a, b, f) = {}
    BY <2>2 DEF Unlike
  <2>4. Cardinality({}) = 0
    BY FS_EmptySet
  <2>5. QED BY <2>2, <2>3, <2>4 DEF Cost
<1>3. e \in Pairings(i, j)
  BY <1>1, PairingIs
<1>4. \A f \in Pairings(i, j) : i + j <= Cost(a, b, i, j, f)
  BY <1>2
<1>5. \E f \in Pairings(i, j) : Cost(a, b, i, j, f) = i + j
  BY <1>2, <1>3
<1>6. QED BY <1>4, <1>5 DEF Least

\* A name is no distance from itself.
LEMMA LeastSame ==
    ASSUME NEW a \in Text
    PROVE  Least(a, a, Len(a), Len(a), 0)
<1> DEFINE n == Len(a)
           e == [k \in 1..n |-> k]
<1>1. n \in Nat
  BY LenProperties DEF Text
<1>2. DOMAIN e = 1..n /\ \A k \in 1..n : e[k] = k
  OBVIOUS
<1>3. Pairing(e, n, n)
  BY DEF Pairing
<1> HIDE DEF n, e
<1>4. Unlike(a, a, e) = {}
  BY <1>2 DEF Unlike
<1>5. Cardinality(1..n) = n
  <2>1. Cardinality(1..n) = IF 1 > n THEN 0 ELSE n - 1 + 1
    BY <1>1, FS_Interval
  <2>2. QED BY <1>1, <2>1
<1>6. Cost(a, a, n, n, e) = 0
  BY <1>1, <1>2, <1>4, <1>5, FS_EmptySet DEF Cost
<1>7. e \in Pairings(n, n)
  BY <1>3, PairingIs
<1>8. ASSUME NEW f \in Pairings(n, n) PROVE 0 <= Cost(a, a, n, n, f)
  <2>1. Pairing(f, n, n)
    BY PairingIs
  <2>2. Cardinality(DOMAIN f) \in Nat /\ Cardinality(Unlike(a, a, f)) \in Nat
        /\ Cardinality(DOMAIN f) <= n
    BY <1>1, <2>1, PairingFinite
  <2>3. QED BY <1>1, <2>2 DEF Cost
<1>9. QED BY <1>6, <1>7, <1>8 DEF Least, n

\* The least cost is the edit distance.
LEMMA LeastIsDistance ==
    ASSUME NEW a \in Text, NEW b \in Text, NEW d \in Int, Least(a, b, Len(a), Len(b), d)
    PROVE  EditDistance(a, b) = d
<1> DEFINE m == Len(a)
           n == Len(b)
           C == {Cost(a, b, m, n, f) : f \in Pairings(m, n)}
           x == CHOOSE v \in C : \A w \in C : v <= w
<1>1. m \in Nat /\ n \in Nat
  BY LenProperties DEF Text
<1>2. EditDistance(a, b) = x
  BY DEF EditDistance, Cost, Min
<1> HIDE DEF m, n
<1>3. d \in C /\ \A w \in C : d <= w
  BY DEF Least, m, n
<1>4. C \subseteq Int
  <2>1. \A f \in Pairings(m, n) : Cost(a, b, m, n, f) \in Int
    <3>1. \A f \in Pairings(m, n) : Pairing(f, m, n)
      BY PairingIs
    <3>2. QED BY <1>1, <3>1, CostInt
  <2>2. QED BY <2>1
<1> HIDE DEF C
<1>5. x \in C /\ \A w \in C : x <= w
  BY <1>3
<1> HIDE DEF x
<1>6. x <= d /\ d <= x /\ x \in Int
  BY <1>3, <1>4, <1>5
<1>7. QED BY <1>2, <1>6

-----------------------------------------------------------------------------
RowAfter(row_, a, b, prev, i) ==
    /\ row_ \in [0..Len(b) -> Int]
    /\ \A j \in 0..Len(b) : row_[j] =
         IF j = 0 THEN i
         ELSE Min2(Min2(prev[j] + 1, row_[j - 1] + 1), prev[j - 1] + Differ(a[i], b[j]))

LEMMA NextRowIs ==
    ASSUME NEW a, NEW b \in Text, NEW i0 \in Int, NEW prev \in [0..Len(b) -> Int]
    PROVE  RowAfter(NextRow(a, b, prev, i0), a, b, prev, i0)
<1> DEFINE n == Len(b)
           S == Int
           Step(t, i) == Min2(Min2(prev[i] + 1, t + 1),
                           prev[i - 1] + (IF a[i0] = b[i] THEN 0 ELSE 1))
           step == [i \in 1..n |-> [t \in S |-> Step(t, i)]]
           Eq(f) == f = [i \in 0..n |-> IF i = 0 THEN i0 ELSE Step(f[i - 1], i)]
           g == CHOOSE f : Eq(f)
<1>1. n \in Nat /\ i0 \in S /\ \A i \in 1..n : prev[i] \in Int /\ prev[i - 1] \in Int
  <2>1. n \in Nat
    BY LenProperties DEF Text
  <2>2. \A i \in 1..n : i \in 0..n /\ i - 1 \in 0..n
    BY <2>1
  <2> HIDE DEF n
  <2>3. QED BY <2>1, <2>2 DEF n
<1>2. \A i \in 1..n, t \in S : Step(t, i) \in S
  <2> SUFFICES ASSUME NEW i \in 1..n, NEW t \in S PROVE Step(t, i) \in S
    OBVIOUS
  <2> DEFINE c == IF a[i0] = b[i] THEN 0 ELSE 1
             x == prev[i]
             y == prev[i - 1]
  <2>1. c \in Int
    OBVIOUS
  <2>2. x \in Int /\ y \in Int /\ t \in Int
    BY <1>1
  <2>3. Step(t, i) = Min2(Min2(x + 1, t + 1), y + c)
    OBVIOUS
  <2> HIDE DEF c, x, y, Step
  <2>4. QED BY <2>1, <2>2, <2>3 DEF Min2
<1>3. Stepper(step, n, S)
  BY <1>1, <1>2 DEF Stepper
<1>4. PICK f : Run(f, n, S, i0, step)
  <2> HIDE DEF step, n, S
  <2> QED BY <1>1, <1>3, Runs
<1>5. Eq(f)
  <2>1. f = [i \in 0..n |-> f[i]]
    BY <1>4 DEF Run
  <2>2. ASSUME NEW i \in 0..n
        PROVE  f[i] = IF i = 0 THEN i0 ELSE Step(f[i - 1], i)
    <3>1. i # 0 => i \in 1..n /\ i - 1 \in 0..n
      <4> HIDE DEF n
      <4> QED BY <1>1
    <3>2. i # 0 => f[i - 1] \in S
      <4> HIDE DEF n, S
      <4> QED BY <1>4, <3>1 DEF Run
    <3> HIDE DEF S
    <3>3. QED BY <1>4, <3>1, <3>2 DEF Run
  <2>3. QED BY <2>1, <2>2
<1>6. Eq(g)
  <2> HIDE DEF Eq
  <2> QED BY <1>5
<1>7. NextRow(a, b, prev, i0) = g
  BY DEF NextRow
<1> HIDE DEF g
<1>8. Follows(g, n, S, i0, step)
  <2>1. 0 \in 0..n /\ \A i \in 1..n : i \in 0..n /\ i # 0
    BY <1>1
  <2> HIDE DEF S
  <2>2. QED BY <1>6, <2>1 DEF Follows
<1>9. Stays(g, n, S)
  <2> HIDE DEF step, n, S
  <2> QED BY <1>1, <1>3, <1>8, RunStays
<1>10. g = [i \in 0..n |-> g[i]]
  BY <1>6
<1>11. g \in [0..n -> Int]
  BY <1>9, <1>10 DEF Stays
<1>12. \A i \in 0..n : g[i] = IF i = 0 THEN i0 ELSE Step(g[i - 1], i)
  BY <1>6
<1>13. QED BY <1>7, <1>11, <1>12 DEF RowAfter, Differ


\* Row i of the table: the distances of the first i letters of a.
RowOf(a, b, i) == {t \in [0..Len(b) -> Int] : \A j \in 0..Len(b) : Least(a, b, i, j, t[j])}

LEMMA FirstRow ==
    ASSUME NEW a \in Text, NEW b \in Text
    PROVE  [j \in 0..Len(b) |-> j] \in RowOf(a, b, 0)
<1>1. Len(b) \in Nat
  BY LenProperties DEF Text
<1>2. ASSUME NEW j \in 0..Len(b) PROVE Least(a, b, 0, j, j)
  <2>1. j \in Nat /\ 0 + j = j
    BY <1>1
  <2>2. Least(a, b, 0, j, 0 + j)
    BY <2>1, LeastEdge
  <2>3. QED BY <2>1, <2>2
<1>3. QED BY <1>1, <1>2 DEF RowOf

LEMMA RowStep ==
    ASSUME NEW a \in Text, NEW b \in Text, NEW i \in 1..Len(a), NEW prev \in RowOf(a, b, i - 1)
    PROVE  NextRow(a, b, prev, i) \in RowOf(a, b, i)
<1> DEFINE n == Len(b)
           t == NextRow(a, b, prev, i)
           K == {j \in 0..n : Least(a, b, i, j, t[j])}
<1>1. n \in Nat /\ Len(a) \in Nat
  BY LenProperties DEF Text
<1>2. i \in Nat \ {0} /\ i \in Int
  BY <1>1
<1>3. prev \in [0..n -> Int] /\ \A j \in 0..n : Least(a, b, i - 1, j, prev[j])
  BY DEF RowOf
<1>4. RowAfter(t, a, b, prev, i)
  BY <1>2, <1>3, NextRowIs
<1>5. t \in [0..n -> Int] /\ \A j \in 0..n : t[j] =
         IF j = 0 THEN i
         ELSE Min2(Min2(prev[j] + 1, t[j - 1] + 1), prev[j - 1] + Differ(a[i], b[j]))
  BY <1>4 DEF RowAfter
<1> HIDE DEF n, t
<1>6. 0 \in K
  <2>1. 0 \in 0..n /\ t[0] = i /\ i + 0 = i
    BY <1>1, <1>2, <1>5
  <2>2. Least(a, b, i, 0, i + 0)
    BY <1>2, LeastEdge
  <2>3. QED BY <2>1, <2>2
<1>7. ASSUME NEW j \in 1..n, j - 1 \in K PROVE j \in K
  <2>1. j \in 0..n /\ j - 1 \in 0..n /\ j \in Nat \ {0}
    BY <1>1
  <2>2. prev[j] \in Int /\ prev[j - 1] \in Int /\ t[j - 1] \in Int
    BY <1>3, <1>5, <2>1
  <2>3. Least(a, b, i - 1, j, prev[j]) /\ Least(a, b, i, j - 1, t[j - 1])
        /\ Least(a, b, i - 1, j - 1, prev[j - 1])
    BY <1>3, <1>7, <2>1
  <2>4. Least(a, b, i, j, Min2(Min2(prev[j] + 1, t[j - 1] + 1), prev[j - 1] + Differ(a[i], b[j])))
    BY <1>2, <2>1, <2>2, <2>3, LeastStep
  <2>5. QED BY <1>5, <2>1, <2>4
<1>8. \A j \in 0..n : j \in K
  <2> HIDE DEF K
  <2> QED BY <1>1, <1>6, <1>7, UpTo
<1>9. QED BY <1>5, <1>8 DEF RowOf, n, t

LEMMA LastRowIs ==
    ASSUME NEW a \in Text, NEW b \in Text
    PROVE  Loop(LAMBDA prev, i : NextRow(a, b, prev, i), [j \in 0..Len(b) |-> j],
                [i \in 1..Len(a) |-> i]) \in RowOf(a, b, Len(a))
<1> DEFINE s == [i \in 1..Len(a) |-> i]
           n == Len(s)
           init == [j \in 0..Len(b) |-> j]
           S == [0..Len(b) -> Int]
           Step(t, i) == NextRow(a, b, t, s[i])
           step == [i \in 1..n |-> [t \in S |-> Step(t, i)]]
           Eq(f) == f = [i \in 0..n |-> IF i = 0 THEN init ELSE Step(f[i - 1], i)]
           g == CHOOSE f : Eq(f)
<1>1. n \in Nat /\ n = Len(a) /\ init \in S /\ \A i \in 1..n : s[i] = i /\ s[i] \in Int
  BY LenProperties DEF Text
<1>2. \A i \in 1..n, t \in S : Step(t, i) \in S
  <2> HIDE DEF n, s
  <2> QED BY <1>1, NextRowIs DEF RowAfter
<1>3. Stepper(step, n, S)
  BY <1>1, <1>2 DEF Stepper
<1>4. PICK f : Run(f, n, S, init, step)
  <2> HIDE DEF step, n, S, init
  <2> QED BY <1>1, <1>3, Runs
<1>5. Eq(f)
  <2>1. f = [i \in 0..n |-> f[i]]
    BY <1>4 DEF Run
  <2>2. ASSUME NEW i \in 0..n
        PROVE  f[i] = IF i = 0 THEN init ELSE Step(f[i - 1], i)
    <3>1. i # 0 => i \in 1..n /\ i - 1 \in 0..n
      <4> HIDE DEF n
      <4> QED BY <1>1
    <3>2. i # 0 => f[i - 1] \in S
      <4> HIDE DEF n, S
      <4> QED BY <1>4, <3>1 DEF Run
    <3> HIDE DEF S, init
    <3>3. QED BY <1>4, <3>1, <3>2 DEF Run
  <2>3. QED BY <2>1, <2>2
<1>6. Eq(g)
  <2> HIDE DEF Eq
  <2> QED BY <1>5
<1>7. Loop(LAMBDA prev, i : NextRow(a, b, prev, i), [j \in 0..Len(b) |-> j], s) = g[n]
  BY DEF Loop
<1> HIDE DEF g
<1> DEFINE K == {i \in 0..n : g[i] \in RowOf(a, b, i)}
<1>8. \A i \in 0..n : g[i] = IF i = 0 THEN init ELSE Step(g[i - 1], i)
  BY <1>6
<1> HIDE DEF n, Eq
<1>9. 0 \in K
  <2>1. 0 \in 0..n
    BY <1>1
  <2>2. g[0] = init
    BY <1>8, <2>1
  <2>3. QED BY <2>1, <2>2, FirstRow
<1>10. ASSUME NEW i \in 1..n, i - 1 \in K PROVE i \in K
  <2>1. i \in 0..n /\ i # 0 /\ s[i] = i /\ i \in 1..Len(a)
    BY <1>1
  <2>2. g[i] = NextRow(a, b, g[i - 1], i)
    BY <1>8, <2>1
  <2>3. g[i - 1] \in RowOf(a, b, i - 1)
    BY <1>10
  <2>4. NextRow(a, b, g[i - 1], i) \in RowOf(a, b, i)
    BY <2>1, <2>3, RowStep
  <2>5. QED BY <2>1, <2>2, <2>4
<1>11. \A i \in 0..n : i \in K
  <2> HIDE DEF K
  <2> QED BY <1>1, <1>9, <1>10, UpTo
<1>12. g[n] \in RowOf(a, b, n)
  <2>1. n \in 0..n
    BY <1>1
  <2>2. QED BY <1>11, <2>1
<1>13. QED BY <1>1, <1>7, <1>12

LEMMA DistanceIs ==
    ASSUME NEW a \in Text, NEW b \in Text
    PROVE  LevenshteinDistance(a, b) \in Int /\ LevenshteinDistance(a, b) = EditDistance(a, b)
<1> DEFINE last == Loop(LAMBDA prev, i : NextRow(a, b, prev, i), [j \in 0..Len(b) |-> j],
                        [i \in 1..Len(a) |-> i])
           d == LevenshteinDistance(a, b)
<1>1. Len(a) \in Nat /\ Len(b) \in Nat
  BY LenProperties DEF Text
<1>2. last \in RowOf(a, b, Len(a))
  BY LastRowIs
<1>3. last[Len(b)] \in Int /\ Least(a, b, Len(a), Len(b), last[Len(b)])
  <2> HIDE DEF last
  <2>1. Len(b) \in 0..Len(b)
    BY <1>1
  <2>2. QED BY <1>2, <2>1 DEF RowOf
<1>4. d = IF a = b THEN 0 ELSE IF a = <<>> THEN Len(b) ELSE IF b = <<>> THEN Len(a)
          ELSE last[Len(b)]
  BY DEF LevenshteinDistance
<1> HIDE DEF last, d
<1>5. CASE a = b
  <2>1. d = 0 /\ Least(a, b, Len(a), Len(b), 0)
    BY <1>4, <1>5, LeastSame
  <2>2. QED BY <2>1, LeastIsDistance DEF d
<1>6. CASE a # b /\ a = <<>>
  <2>1. Len(a) = 0 /\ d = 0 + Len(b)
    BY <1>1, <1>4, <1>6, EmptySeq
  <2>2. Least(a, b, Len(a), Len(b), Len(a) + Len(b))
    BY <1>1, <2>1, LeastEdge
  <2>3. Least(a, b, Len(a), Len(b), d) /\ d \in Int
    BY <1>1, <2>1, <2>2
  <2>4. QED BY <2>3, LeastIsDistance DEF d
<1>7. CASE a # b /\ a # <<>> /\ b = <<>>
  <2>1. Len(b) = 0 /\ d = Len(a) + 0
    BY <1>1, <1>4, <1>7, EmptySeq
  <2>2. Least(a, b, Len(a), Len(b), Len(a) + Len(b))
    BY <1>1, <2>1, LeastEdge
  <2>3. Least(a, b, Len(a), Len(b), d) /\ d \in Int
    BY <1>1, <2>1, <2>2
  <2>4. QED BY <2>3, LeastIsDistance DEF d
<1>8. CASE a # b /\ a # <<>> /\ b # <<>>
  <2>1. d = last[Len(b)]
    BY <1>4, <1>8
  <2>2. Least(a, b, Len(a), Len(b), d) /\ d \in Int
    BY <1>3, <2>1
  <2>3. QED BY <2>2, LeastIsDistance DEF d
<1>9. QED BY <1>5, <1>6, <1>7, <1>8

-----------------------------------------------------------------------------
Fractions == Int \X (Nat \ {0})

LEMMA ScoreType ==
    ASSUME NEW name \in Text, NEW key \in Text
    PROVE  Score(name, key) \in Fractions
<1> DEFINE longest == Larger(Len(name), Len(key))
           d == LevenshteinDistance(name, key)
<1>1. Len(name) \in Nat /\ Len(key) \in Nat /\ d \in Int
  BY LenProperties, DistanceIs DEF Text
<1>2. CASE name = <<>> \/ key = <<>>
  BY <1>2 DEF Score, NoScore, Fractions
<1>3. CASE name # <<>> /\ key # <<>>
  <2>1. longest \in Nat \ {0} /\ Min2(Len(name), Len(key)) \in Int
    <3>1. Len(name) # 0 /\ Len(key) # 0
      BY <1>3, EmptySeq DEF Text
    <3>2. QED BY <1>1, <3>1 DEF Larger, Min2
  <2> HIDE DEF longest, d
  <2>2. Score(name, key) \in {<<Min2(Len(name), Len(key)), longest>>,
                              <<longest - d, longest>>, <<0, 1>>}
    BY <1>3 DEF Score, NoScore, longest, d
  <2>3. QED BY <1>1, <2>1, <2>2 DEF Fractions
<1>4. QED BY <1>2, <1>3

\* What a variant has after the name.
Tails ==
    {<<>>, <<" ", "1">>, <<" ", "1", "2">>, <<"*", "B">>} \cup
    {<<" ">> \o StoreSuffixes[i] : i \in DOMAIN StoreSuffixes} \cup
    {<<" ">> \o StoreSuffixes[i] \o <<" ", "1">> : i \in DOMAIN StoreSuffixes}

LEMMA FewType ==
    ASSUME NEW E, NEW a \in E, NEW b \in E, NEW c \in E
    PROVE  <<a>> \in Seq(E) /\ <<a, b>> \in Seq(E) /\ <<a, b, c>> \in Seq(E)
OBVIOUS

LEMMA TailType ==
    ASSUME NEW tail \in Tails
    PROVE  tail \in Text
<1>1. {"B", "1", "2", "*", " "} \subseteq Characters
  BY RowsAssumption
<1>2. \A i \in DOMAIN StoreSuffixes : StoreSuffixes[i] \in Text
  <2>1. StoreSuffixes \in Seq(Text)
    BY RowsAssumption DEF Text
  <2>2. DOMAIN StoreSuffixes = 1..Len(StoreSuffixes)
    BY <2>1, LenProperties
  <2>3. QED BY <2>1, <2>2, ElementOfSeq
<1>3. <<" ">> \in Text /\ <<" ", "1">> \in Text
  BY <1>1, FewType DEF Text
<1>4. <<>> \in Text /\ <<" ", "1", "2">> \in Text /\ <<"*", "B">> \in Text
  BY <1>1, FewType, EmptySeq DEF Text
<1>5. \A i \in DOMAIN StoreSuffixes : <<" ">> \o StoreSuffixes[i] \in Text
  BY <1>2, <1>3, ConcatProperties DEF Text
<1>6. \A i \in DOMAIN StoreSuffixes : <<" ">> \o StoreSuffixes[i] \o <<" ", "1">> \in Text
  BY <1>3, <1>5, ConcatProperties DEF Text
<1>7. QED BY <1>3, <1>4, <1>5, <1>6 DEF Tails

LEMMA VariantIs ==
    ASSUME NEW name \in Text, NEW v \in Variants(name)
    PROVE  v \in Text /\ \E tail \in Tails : v = name \o tail
<1>1. PICK tail \in Tails : v = name \o tail
  BY DEF Variants, Tails
<1>2. QED BY <1>1, TailType, ConcatProperties DEF Text

LEMMA KeyType ==
    ASSUME NEW m \in Merchants
    PROVE  m \in Text /\ ToUpper(m) \in Text
<1>1. m \in Text /\ "A" \in Characters
  BY RowsAssumption DEF Text
<1>2. QED BY <1>1, ReplaceType DEF ToUpper, Text

LEMMA NameType ==
    ASSUME NEW m \in Names
    PROVE  m \in Text
<1>1. m \in Merchants \/ \E x \in Merchants : m \in Variants(ToUpper(x))
  BY DEF Names
<1>2. QED BY <1>1, KeyType, VariantIs

LEMMA ScoresType ==
    ASSUME NEW m \in Names, NEW k \in MerchantKeys
    PROVE  /\ Scores[m][k] = Score(NormalizeMerchant(m), NormalizeMerchant(k))
           /\ Scores[m][k] \in Fractions
<1> DEFINE norm == [x \in Names |-> NormalizeMerchant(x)]
<1>1. m \in Text /\ k \in Text
  BY KeyType, NameType DEF MerchantKeys
<1>2. k \in Names
  <2>1. k \o <<>> = k
    BY <1>1, ConcatEmptySeq DEF Text
  <2>2. k \in Variants(k)
    BY <2>1 DEF Variants
  <2>3. QED BY <2>2 DEF Names, MerchantKeys
<1>3. Scores[m][k] = Score(NormalizeMerchant(m), NormalizeMerchant(k))
  BY <1>2 DEF Scores
<1>4. QED BY <1>1, <1>3, NormalizeType, ScoreType

-----------------------------------------------------------------------------
(* The order of the scores *)

LEMMA Scale ==
    ASSUME NEW x \in Int, NEW y \in Int, NEW z \in Nat \ {0}
    PROVE  x < y <=> x * z < y * z
OBVIOUS

\* The order of fractions, by multiplying with their denominators.
LEMMA LessTransitive ==
    ASSUME NEW s \in Fractions, NEW t \in Fractions, NEW u \in Fractions, Less(s, t), Less(t, u)
    PROVE  Less(s, u)
<1> DEFINE a == s[1]  b == s[2]  c == t[1]  d == t[2]  e == u[1]  f == u[2]
<1>1. /\ a \in Int /\ c \in Int /\ e \in Int
      /\ b \in Nat \ {0} /\ d \in Nat \ {0} /\ f \in Nat \ {0}
  BY DEF Fractions
<1>2. a * d < c * b /\ c * f < e * d
  BY DEF Less
<1> HIDE DEF a, b, c, d, e, f
<1>3. (a * d) * f < (c * b) * f
  <2>1. a * d \in Int /\ c * b \in Int
    BY <1>1
  <2>2. QED BY <1>1, <1>2, <2>1, Scale
<1>4. (c * f) * b < (e * d) * b
  <2>1. c * f \in Int /\ e * d \in Int
    BY <1>1
  <2>2. QED BY <1>1, <1>2, <2>1, Scale
<1>5. /\ (a * d) * f = (a * f) * d /\ (c * b) * f = (c * f) * b
      /\ (e * d) * b = (e * b) * d
  BY <1>1
<1>6. (a * f) * d < (e * b) * d
  <2>1. (c * f) * b \in Int /\ (a * f) * d \in Int /\ (e * b) * d \in Int
    BY <1>1
  <2>2. QED BY <1>3, <1>4, <1>5, <2>1
<1>7. a * f < e * b
  <2>1. a * f \in Int /\ e * b \in Int
    BY <1>1
  <2>2. QED BY <1>1, <1>6, <2>1, Scale
<1>8. QED BY <1>7 DEF Less, a, b, e, f

\* What is not greater than t is less than what is greater than t.
LEMMA LessThanGreater ==
    ASSUME NEW s \in Fractions, NEW t \in Fractions, NEW u \in Fractions,
           ~Less(t, s), Less(t, u)
    PROVE  Less(s, u)
<1> DEFINE a == s[1]  b == s[2]  c == t[1]  d == t[2]  e == u[1]  f == u[2]
<1>1. /\ a \in Int /\ c \in Int /\ e \in Int
      /\ b \in Nat \ {0} /\ d \in Nat \ {0} /\ f \in Nat \ {0}
  BY DEF Fractions
<1>2. ~(c * b < a * d) /\ c * f < e * d
  BY DEF Less
<1> HIDE DEF a, b, c, d, e, f
<1>3. ~((c * b) * f < (a * d) * f)
  <2>1. a * d \in Int /\ c * b \in Int
    BY <1>1
  <2>2. QED BY <1>1, <1>2, <2>1, Scale
<1>4. (c * f) * b < (e * d) * b
  <2>1. c * f \in Int /\ e * d \in Int
    BY <1>1
  <2>2. QED BY <1>1, <1>2, <2>1, Scale
<1>5. /\ (a * d) * f = (a * f) * d /\ (c * b) * f = (c * f) * b
      /\ (e * d) * b = (e * b) * d
  BY <1>1
<1>6. (a * f) * d < (e * b) * d
  <2>1. (c * f) * b \in Int /\ (a * f) * d \in Int /\ (e * b) * d \in Int
    BY <1>1
  <2>2. QED BY <1>3, <1>4, <1>5, <2>1
<1>7. a * f < e * b
  <2>1. a * f \in Int /\ e * b \in Int
    BY <1>1
  <2>2. QED BY <1>1, <1>6, <2>1, Scale
<1>8. QED BY <1>7 DEF Less, a, b, e, f

LEMMA LessIrreflexive ==
    ASSUME NEW s \in Fractions
    PROVE  ~Less(s, s)
<1>1. s[1] * s[2] \in Int
  BY DEF Fractions
<1>2. QED BY <1>1 DEF Less

LEMMA LessThanNone ==
    ASSUME NEW s \in Fractions
    PROVE  Less(NoScore, s) <=> s[1] > 0
BY DEF Fractions, Less, NoScore

-----------------------------------------------------------------------------
(***************************************************************************)
(* The loop keeps the first of the best scores.                            *)
(***************************************************************************)
Entries == [key: MerchantKeys, category: Learned]
ScoreAt(m, entries, i) == Scores[m][entries[i].key]

NoneUpTo(m, entries, i) == \A j \in 1..i : ~Less(NoScore, ScoreAt(m, entries, j))

Wins(m, entries, i, w) ==
    /\ w \in 1..i
    /\ Less(NoScore, ScoreAt(m, entries, w))
    /\ \A j \in 1..i : ~Less(ScoreAt(m, entries, w), ScoreAt(m, entries, j))
    /\ \A j \in 1..w - 1 : Less(ScoreAt(m, entries, j), ScoreAt(m, entries, w))

\* What the loop has after i entries.
Kept(m, entries, i, best) ==
    \/ best = Unmatched /\ NoneUpTo(m, entries, i)
    \/ \E w \in 1..i : Wins(m, entries, i, w) /\ best = Match(m, entries[w])

LEMMA ScoreAtType ==
    ASSUME NEW m \in Names, NEW entries \in Seq(Entries), NEW i \in 1..Len(entries)
    PROVE  /\ entries[i].key \in MerchantKeys /\ entries[i].category \in Learned
           /\ ScoreAt(m, entries, i) \in Fractions
<1>1. entries[i] \in Entries
  BY ElementOfSeq
<1>2. entries[i].key \in MerchantKeys /\ entries[i].category \in Learned
  BY <1>1 DEF Entries
<1>3. QED BY <1>2, ScoresType DEF ScoreAt

LEMMA NoScoreType == NoScore \in Fractions
BY DEF NoScore, Fractions

\* One turn of the loop.
LEMMA KeptStep ==
    ASSUME NEW m \in Names, NEW entries \in Seq(Entries), NEW i \in 1..Len(entries),
           NEW best, Kept(m, entries, i - 1, best)
    PROVE  Kept(m, entries, i, IF Less(best.score, Match(m, entries[i]).score)
                               THEN Match(m, entries[i]) ELSE best)
<1> DEFINE at(j) == ScoreAt(m, entries, j)
<1>1. Len(entries) \in Nat
  BY LenProperties
<1>2. \A j \in 1..i : j \in 1..Len(entries) /\ (j # i => j \in 1..i - 1)
  BY <1>1
<1>3. \A j \in 1..i : at(j) \in Fractions
  BY <1>2, ScoreAtType
<1>4. Match(m, entries[i]).score = at(i)
  BY DEF Match, ScoreAt
<1>5. \A j \in 1..i - 1 : j \in 1..i
  BY <1>1
<1>6. i \in 1..i
  BY <1>1
<1>7. CASE best = Unmatched /\ NoneUpTo(m, entries, i - 1)
  <2>1. best.score = NoScore
    BY <1>7 DEF Unmatched
  <2>2. CASE Less(NoScore, at(i))
    <3>1. \A j \in 1..i - 1 : Less(at(j), at(i))
      <4> SUFFICES ASSUME NEW j \in 1..i - 1 PROVE Less(at(j), at(i))
        OBVIOUS
      <4>1. ~Less(NoScore, at(j))
        BY <1>7 DEF NoneUpTo
      <4>2. at(j) \in Fractions /\ at(i) \in Fractions
        BY <1>3, <1>5, <1>6
      <4> HIDE DEF at
      <4>3. QED BY <2>2, <4>1, <4>2, NoScoreType, LessThanGreater
    <3>2. \A j \in 1..i : ~Less(at(i), at(j))
      <4> SUFFICES ASSUME NEW j \in 1..i, Less(at(i), at(j)) PROVE FALSE
        OBVIOUS
      <4>1. at(j) \in Fractions /\ at(i) \in Fractions
        BY <1>3, <1>6
      <4>2. j = i \/ Less(at(j), at(i))
        BY <1>2, <3>1
      <4> HIDE DEF at
      <4>3. QED BY <4>1, <4>2, LessTransitive, LessIrreflexive
    <3>3. Wins(m, entries, i, i)
      BY <1>6, <2>2, <3>1, <3>2 DEF Wins
    <3>4. QED BY <1>4, <1>6, <2>1, <2>2, <3>3 DEF Kept
  <2>3. CASE ~Less(NoScore, at(i))
    <3>1. NoneUpTo(m, entries, i)
      BY <1>2, <1>7, <2>3 DEF NoneUpTo
    <3>2. QED BY <1>4, <1>7, <2>1, <2>3, <3>1 DEF Kept
  <2>4. QED BY <2>2, <2>3
<1>8. ASSUME NEW w \in 1..i - 1, Wins(m, entries, i - 1, w), best = Match(m, entries[w])
      PROVE  Kept(m, entries, i, IF Less(best.score, Match(m, entries[i]).score)
                                 THEN Match(m, entries[i]) ELSE best)
  <2>1. best.score = at(w) /\ w \in 1..i
    BY <1>5, <1>8 DEF Match, ScoreAt
  <2>2. CASE Less(at(w), at(i))
    <3>1. \A j \in 1..i - 1 : Less(at(j), at(i))
      <4> SUFFICES ASSUME NEW j \in 1..i - 1 PROVE Less(at(j), at(i))
        OBVIOUS
      <4>1. ~Less(at(w), at(j))
        BY <1>8 DEF Wins
      <4>2. at(j) \in Fractions /\ at(i) \in Fractions /\ at(w) \in Fractions
        BY <1>3, <1>5, <1>6, <2>1
      <4> HIDE DEF at
      <4>3. QED BY <2>2, <4>1, <4>2, LessThanGreater
    <3>2. \A j \in 1..i : ~Less(at(i), at(j))
      <4> SUFFICES ASSUME NEW j \in 1..i, Less(at(i), at(j)) PROVE FALSE
        OBVIOUS
      <4>1. at(j) \in Fractions /\ at(i) \in Fractions
        BY <1>3, <1>6
      <4>2. j = i \/ Less(at(j), at(i))
        BY <1>2, <3>1
      <4> HIDE DEF at
      <4>3. QED BY <4>1, <4>2, LessTransitive, LessIrreflexive
    <3>3. Less(NoScore, at(i))
      <4>1. at(i) \in Fractions /\ at(w) \in Fractions /\ Less(NoScore, at(w))
        BY <1>3, <1>6, <1>8, <2>1 DEF Wins
      <4> HIDE DEF at
      <4>2. QED BY <2>2, <4>1, NoScoreType, LessTransitive
    <3>4. Wins(m, entries, i, i)
      BY <1>6, <3>1, <3>2, <3>3 DEF Wins
    <3>5. QED BY <1>4, <1>6, <2>1, <2>2, <3>4 DEF Kept
  <2>3. CASE ~Less(at(w), at(i))
    <3>1. Wins(m, entries, i, w)
      BY <1>2, <1>8, <2>1, <2>3 DEF Wins
    <3>2. QED BY <1>4, <1>8, <2>1, <2>3, <3>1 DEF Kept
  <2>4. QED BY <2>2, <2>3
<1>9. QED BY <1>7, <1>8 DEF Kept

LEMMA FuzzyKept ==
    ASSUME NEW m \in Names, NEW entries \in Seq(Entries)
    PROVE  \E best : /\ FuzzyMatchCategory(m, entries) = best.category
                     /\ Kept(m, entries, Len(entries), best)
<1> DEFINE n == Len(entries)
           S == [score: Fractions, category: Learned \cup {Null}]
           Step(t, i) == IF Less(t.score, Match(m, entries[i]).score)
                         THEN Match(m, entries[i]) ELSE t
           step == [i \in 1..n |-> [t \in S |-> Step(t, i)]]
           Eq(f) == f = [i \in 0..n |-> IF i = 0 THEN Unmatched ELSE Step(f[i - 1], i)]
           g == CHOOSE f : Eq(f)
           K == {i \in 0..n : Kept(m, entries, i, g[i])}
<1>1. n \in Nat /\ Unmatched \in S
  BY LenProperties, NoScoreType DEF Unmatched
<1>2. \A i \in 1..n, t \in S : Step(t, i) \in S
  <2>1. \A i \in 1..n : Match(m, entries[i]) \in S
    BY ScoreAtType DEF Match, ScoreAt
  <2>2. QED BY <2>1
<1>3. Stepper(step, n, S)
  BY <1>2 DEF Stepper
<1>4. PICK f : Run(f, n, S, Unmatched, step)
  <2> HIDE DEF step, n, S
  <2> QED BY <1>1, <1>3, Runs
<1>5. Eq(f)
  <2>1. f = [i \in 0..n |-> f[i]]
    BY <1>4 DEF Run
  <2>2. ASSUME NEW i \in 0..n
        PROVE  f[i] = IF i = 0 THEN Unmatched ELSE Step(f[i - 1], i)
    <3>1. i # 0 => i \in 1..n /\ i - 1 \in 0..n
      <4> HIDE DEF n
      <4> QED BY <1>1
    <3>2. i # 0 => f[i - 1] \in S
      <4> HIDE DEF n, S
      <4> QED BY <1>4, <3>1 DEF Run
    <3> HIDE DEF S
    <3>3. QED BY <1>4, <3>1, <3>2 DEF Run
  <2>3. QED BY <2>1, <2>2
<1>6. Eq(g)
  <2> HIDE DEF Eq
  <2> QED BY <1>5
<1>7. FuzzyMatchCategory(m, entries) = g[n].category
  BY DEF FuzzyMatchCategory, Loop
<1> HIDE DEF g
<1>8. 0 \in K
  <2>1. 0 \in 0..n /\ g[0] = Unmatched
    BY <1>1, <1>6
  <2>2. NoneUpTo(m, entries, 0)
    BY DEF NoneUpTo
  <2>3. QED BY <2>1, <2>2 DEF Kept
<1>9. ASSUME NEW i \in 1..n, i - 1 \in K PROVE i \in K
  <2>1. i \in 0..n /\ i # 0
    <3> HIDE DEF n, K
    <3> QED BY <1>1
  <2>2. g[i] = Step(g[i - 1], i)
    BY <1>6, <2>1
  <2>3. Kept(m, entries, i - 1, g[i - 1])
    BY <1>9
  <2>4. Kept(m, entries, i, Step(g[i - 1], i))
    BY <2>3, KeptStep
  <2>5. QED BY <2>1, <2>2, <2>4
<1>10. \A i \in 0..n : i \in K
  <2> HIDE DEF K, n
  <2> QED BY <1>1, <1>8, <1>9, UpTo
<1>11. n \in K
  <2> HIDE DEF K, n
  <2> QED BY <1>1, <1>10
<1>12. QED BY <1>7, <1>11

\* What is taken: the category of the first of the best, or none.
LEMMA FuzzyTakesFirstBest ==
    ASSUME NEW m \in Names, NEW entries \in Seq(Entries)
    PROVE  \/ /\ NoneUpTo(m, entries, Len(entries))
              /\ FuzzyMatchCategory(m, entries) = Null
           \/ \E w \in 1..Len(entries) :
                /\ Wins(m, entries, Len(entries), w)
                /\ FuzzyMatchCategory(m, entries) = entries[w].category
<1>1. PICK best : /\ FuzzyMatchCategory(m, entries) = best.category
                  /\ Kept(m, entries, Len(entries), best)
  BY FuzzyKept
<1>2. CASE best = Unmatched /\ NoneUpTo(m, entries, Len(entries))
  BY <1>1, <1>2 DEF Unmatched
<1>3. ASSUME NEW w \in 1..Len(entries), Wins(m, entries, Len(entries), w),
             best = Match(m, entries[w])
      PROVE  FuzzyMatchCategory(m, entries) = entries[w].category
  BY <1>1, <1>3 DEF Match
<1>4. QED BY <1>1, <1>2, <1>3 DEF Kept

LEMMA OneWinner ==
    ASSUME NEW m, NEW entries, NEW n \in Nat, NEW v, NEW w,
           Wins(m, entries, n, v), Wins(m, entries, n, w)
    PROVE  v = w
<1>1. v \in 1..n /\ w \in 1..n
  BY DEF Wins
<1>2. ASSUME v < w PROVE FALSE
  BY <1>1, <1>2 DEF Wins
<1>3. ASSUME w < v PROVE FALSE
  BY <1>1, <1>3 DEF Wins
<1>4. QED BY <1>1, <1>2, <1>3

\* In the words of BestMatchWins.
LEMMA BestMatch ==
    ASSUME NEW m \in Names, map \in Seq(Entries)
    PROVE  LET of(i) == Scores[m][map[i].key]
               best == {i \in DOMAIN map : /\ of(i)[1] > 0
                                           /\ \A j \in DOMAIN map : ~Less(of(i), of(j))}
           IN  IF best = {} THEN FuzzyMatchCategory(m, map) = Null
               ELSE FuzzyMatchCategory(m, map) \in {map[i].category : i \in best}
<1> DEFINE n == Len(map)
           at(i) == ScoreAt(m, map, i)
           best == {i \in DOMAIN map : /\ Scores[m][map[i].key][1] > 0
                                       /\ \A j \in DOMAIN map :
                                            ~Less(Scores[m][map[i].key], Scores[m][map[j].key])}
<1>1. DOMAIN map = 1..n /\ n \in Nat
  BY LenProperties
<1>2. \A i \in 1..n : /\ Scores[m][map[i].key] = at(i)
                      /\ at(i)[1] > 0 <=> Less(NoScore, at(i))
  <2>1. \A i \in 1..n : at(i) \in Fractions
    BY ScoreAtType
  <2>2. \A i \in 1..n : Scores[m][map[i].key] = at(i)
    BY DEF ScoreAt
  <2> HIDE DEF at
  <2>3. QED BY <2>1, <2>2, LessThanNone
<1>3. best = {i \in 1..n : Less(NoScore, at(i)) /\ \A j \in 1..n : ~Less(at(i), at(j))}
  <2> HIDE DEF n, at
  <2> QED BY <1>1, <1>2
<1>4. ASSUME NoneUpTo(m, map, n) PROVE best = {}
  <2>1. \A i \in 1..n : ~Less(NoScore, at(i))
    BY <1>4 DEF NoneUpTo
  <2> HIDE DEF best, n, at
  <2>2. QED BY <1>3, <2>1
<1>5. ASSUME NEW w \in 1..n, Wins(m, map, n, w),
             FuzzyMatchCategory(m, map) = map[w].category
      PROVE  w \in best
  <2>1. Less(NoScore, at(w)) /\ \A j \in 1..n : ~Less(at(w), at(j))
    BY <1>5 DEF Wins
  <2> HIDE DEF best, n, at
  <2>2. QED BY <1>3, <2>1
<1>6. \/ NoneUpTo(m, map, n) /\ FuzzyMatchCategory(m, map) = Null
      \/ \E w \in 1..n : Wins(m, map, n, w) /\ FuzzyMatchCategory(m, map) = map[w].category
  BY FuzzyTakesFirstBest
<1>7. IF best = {} THEN FuzzyMatchCategory(m, map) = Null
      ELSE FuzzyMatchCategory(m, map) \in {map[i].category : i \in best}
  <2> HIDE DEF best, n
  <2> QED BY <1>4, <1>5, <1>6
<1>8. QED BY <1>7

-----------------------------------------------------------------------------
(***************************************************************************)
(* Teaching changes one entry, or adds one at the end; no key is there     *)
(* twice.                                                                  *)
(***************************************************************************)
KeysOnce(entries) ==
    \A i, j \in 1..Len(entries) : entries[i].key = entries[j].key => i = j

MapSound(entries) == entries \in Seq(Entries) /\ KeysOnce(entries)

\* after is entries, but for e at p: the place of its key, or a new one.
Taught(entries, after, p, e) ==
    /\ p \in 1..Len(after) /\ after[p] = e
    /\ Len(after) \in {Len(entries), Len(entries) + 1}
    /\ \A i \in 1..Len(entries) : /\ i \in 1..Len(after)
                                  /\ after[i].key = entries[i].key
    /\ \A i \in 1..Len(after) : i # p => i \in 1..Len(entries) /\ after[i] = entries[i]
    /\ p \notin 1..Len(entries) => \A i \in 1..Len(entries) : entries[i].key # e.key

Entry(merchant, category) == [key |-> ToUpper(merchant), category |-> category]

LEMMA AddOverrideTeaches ==
    ASSUME NEW entries, MapSound(entries), NEW merchant \in Merchants, NEW category \in Learned
    PROVE  LET after == AddOverride(entries, merchant, category) IN
           /\ after \in Seq(Entries)
           /\ \E p : Taught(entries, after, p, Entry(merchant, category))
<1> DEFINE key == ToUpper(merchant)
           e == [key |-> key, category |-> category]
           after == AddOverride(entries, merchant, category)
           n == Len(entries)
<1>1. entries \in Seq(Entries) /\ n \in Nat /\ DOMAIN entries = 1..n
  BY LenProperties DEF MapSound
<1>2. e \in Entries /\ e = Entry(merchant, category) /\ e.key = key
  BY DEF Entries, MerchantKeys, Entry
<1>3. CASE key \in KeysOf(entries)
  <2> DEFINE p == Position(entries, key)
  <2>1. p \in 1..n /\ entries[p].key = key
    <3>1. \E i \in DOMAIN entries : entries[i].key = key
      BY <1>3 DEF KeysOf
    <3>2. p \in DOMAIN entries /\ entries[p].key = key
      <4> HIDE DEF key
      <4> QED BY <3>1 DEF Position
    <3>3. QED BY <1>1, <3>2
  <2>2. after = [entries EXCEPT ![p] = e]
    BY <1>3 DEF AddOverride
  <2> HIDE DEF p, e, after
  <2>3. /\ after \in Seq(Entries) /\ Len(after) = n
        /\ \A j \in 1..n : after[j] = IF j = p THEN e ELSE entries[j]
    BY <1>1, <1>2, <2>1, <2>2, ExceptSeq
  <2>4. Taught(entries, after, p, e)
    BY <1>1, <1>2, <2>1, <2>3 DEF Taught
  <2>5. QED BY <1>2, <2>3, <2>4 DEF after
<1>4. CASE key \notin KeysOf(entries)
  <2>1. after = Append(entries, e)
    BY <1>4 DEF AddOverride
  <2>2. \A i \in 1..n : entries[i].key # key
    BY <1>1, <1>4 DEF KeysOf
  <2> HIDE DEF e, after, key
  <2>3. /\ after \in Seq(Entries) /\ Len(after) = n + 1
        /\ \A j \in 1..n + 1 : after[j] = IF j = n + 1 THEN e ELSE entries[j]
    BY <1>1, <1>2, <2>1
  <2>4. Taught(entries, after, n + 1, e)
    <3> HIDE DEF n
    <3> QED BY <1>1, <1>2, <2>2, <2>3 DEF Taught, n
  <2>5. QED BY <1>2, <2>3, <2>4 DEF after
<1>5. QED BY <1>3, <1>4

LEMMA TaughtKeysOnce ==
    ASSUME NEW entries, MapSound(entries), NEW after \in Seq(Entries), NEW p, NEW e,
           Taught(entries, after, p, e)
    PROVE  MapSound(after)
<1>1. SUFFICES ASSUME NEW i \in 1..Len(after), NEW j \in 1..Len(after),
                      after[i].key = after[j].key
               PROVE  i = j
  BY DEF MapSound, KeysOnce
<1>2. ASSUME NEW x \in 1..Len(after), NEW y \in 1..Len(after), x # p,
             after[x].key = after[y].key
      PROVE  x = y
  <2>1. x \in 1..Len(entries) /\ after[x].key = entries[x].key
    BY <1>2 DEF Taught
  <2>2. CASE y \in 1..Len(entries)
    BY <1>2, <2>1, <2>2 DEF Taught, MapSound, KeysOnce
  <2>3. CASE y \notin 1..Len(entries)
    <3>1. y = p /\ after[y] = e /\ entries[x].key # e.key
      BY <2>1, <2>3 DEF Taught
    <3>2. QED BY <1>2, <2>1, <3>1
  <2>4. QED BY <2>2, <2>3
<1>3. QED BY <1>1, <1>2

LEMMA LookupFinds ==
    ASSUME NEW entries, MapSound(entries), NEW m, NEW i \in 1..Len(entries),
           entries[i].key = ToUpper(m)
    PROVE  LookupOverride(entries, m) = entries[i].category
<1> DEFINE key == ToUpper(m)
           p == Position(entries, key)
<1>1. DOMAIN entries = 1..Len(entries)
  BY LenProperties DEF MapSound
<1>2. key \in KeysOf(entries)
  BY <1>1 DEF KeysOf
<1>3. p \in DOMAIN entries /\ entries[p].key = key
  <2>1. \E j \in DOMAIN entries : entries[j].key = key
    BY <1>1
  <2> HIDE DEF key
  <2>2. QED BY <2>1 DEF Position
<1>4. p = i
  <2> HIDE DEF p
  <2> QED BY <1>1, <1>3 DEF MapSound, KeysOnce
<1>5. QED BY <1>2, <1>4 DEF LookupOverride

LEMMA LookupMisses ==
    ASSUME NEW entries, MapSound(entries), NEW m,
           \A i \in 1..Len(entries) : entries[i].key # ToUpper(m)
    PROVE  LookupOverride(entries, m) = Null
<1>1. DOMAIN entries = 1..Len(entries)
  BY LenProperties DEF MapSound
<1>2. ToUpper(m) \notin KeysOf(entries)
  BY <1>1 DEF KeysOf
<1>3. QED BY <1>2 DEF LookupOverride

\* Another name's own entry is not touched.
LEMMA LookupOfOthers ==
    ASSUME NEW entries, MapSound(entries), NEW after, MapSound(after), NEW p, NEW e,
           Taught(entries, after, p, e), NEW m, ToUpper(m) # e.key
    PROVE  LookupOverride(after, m) = LookupOverride(entries, m)
<1>1. CASE \E i \in 1..Len(after) : after[i].key = ToUpper(m)
  <2>1. PICK i \in 1..Len(after) : after[i].key = ToUpper(m)
    BY <1>1
  <2>2. i \in 1..Len(entries) /\ entries[i] = after[i]
    BY <2>1 DEF Taught
  <2>3. QED BY <2>1, <2>2, LookupFinds
<1>2. CASE \A i \in 1..Len(after) : after[i].key # ToUpper(m)
  <2>1. \A i \in 1..Len(entries) : entries[i].key # ToUpper(m)
    BY <1>2 DEF Taught
  <2>2. QED BY <1>2, <2>1, LookupMisses
<1>3. QED BY <1>1, <1>2

LEMMA FuzzyOnlyTeaches ==
    ASSUME NEW entries, MapSound(entries), NEW after, MapSound(after), NEW p, NEW e,
           Taught(entries, after, p, e), NEW m \in Names
    PROVE  FuzzyMatchCategory(m, after) \in {e.category, FuzzyMatchCategory(m, entries)}
<1> DEFINE n == Len(entries)
           k == Len(after)
<1>1. entries \in Seq(Entries) /\ after \in Seq(Entries) /\ n \in Nat /\ k \in Nat
  BY LenProperties DEF MapSound
<1>2. \A j \in 1..n : j \in 1..k /\ ScoreAt(m, after, j) = ScoreAt(m, entries, j)
  BY DEF Taught, ScoreAt
<1>3. CASE NoneUpTo(m, after, k) /\ FuzzyMatchCategory(m, after) = Null
  <2>1. NoneUpTo(m, entries, n)
    BY <1>2, <1>3 DEF NoneUpTo
  <2>2. ~ \E w \in 1..n : Wins(m, entries, n, w)
    BY <2>1 DEF NoneUpTo, Wins
  <2>3. FuzzyMatchCategory(m, entries) = Null
    BY <1>1, <2>2, FuzzyTakesFirstBest
  <2>4. QED BY <1>3, <2>3
<1>4. ASSUME NEW w \in 1..k, Wins(m, after, k, w),
             FuzzyMatchCategory(m, after) = after[w].category
      PROVE  FuzzyMatchCategory(m, after) \in {e.category, FuzzyMatchCategory(m, entries)}
  <2>1. CASE w = p
    BY <1>4, <2>1 DEF Taught
  <2>2. CASE w # p
    <3>1. w \in 1..n /\ after[w] = entries[w]
      BY <2>2 DEF Taught
    <3>2. \A j \in 1..w - 1 : j \in 1..n
      BY <1>1, <3>1
    <3>3. Wins(m, entries, n, w)
      BY <1>2, <1>4, <3>1, <3>2 DEF Wins
    <3>4. ~NoneUpTo(m, entries, n)
      BY <3>1, <3>3 DEF NoneUpTo, Wins
    <3>5. PICK v \in 1..n : /\ Wins(m, entries, n, v)
                           /\ FuzzyMatchCategory(m, entries) = entries[v].category
      BY <1>1, <3>4, FuzzyTakesFirstBest
    <3>6. v = w
      BY <1>1, <3>3, <3>5, OneWinner
    <3>7. QED BY <1>4, <3>1, <3>5, <3>6
  <2>3. QED BY <2>1, <2>2
<1>5. QED BY <1>1, <1>3, <1>4, FuzzyTakesFirstBest

LEMMA TeachingTeaches ==
    ASSUME MapSound(map)
    PROVE  LearningOnlyTeaches
<1> SUFFICES ASSUME NEW merchant \in Merchants, NEW category \in Learned
             PROVE  LET after == AddOverride(map, merchant, category) IN
                    /\ ResolveCategory(Null, merchant, after) = category
                    /\ \A m \in Merchants : ResolveCategory(Null, m, after)
                                              \in {category, ResolveCategory(Null, m, map)}
  BY DEF LearningOnlyTeaches
<1> DEFINE after == AddOverride(map, merchant, category)
           e == Entry(merchant, category)
<1>1. after \in Seq(Entries) /\ \E p : Taught(map, after, p, e)
  BY AddOverrideTeaches
<1>2. PICK p : Taught(map, after, p, e)
  BY <1>1
<1>3. MapSound(after)
  <2> HIDE DEF after, e
  <2> QED BY <1>1, <1>2, TaughtKeysOnce
<1>4. e.key = ToUpper(merchant) /\ e.category = category /\ category # Null
  BY RowsAssumption DEF Entry
<1> HIDE DEF after, e
<1>5. ASSUME NEW m, ToUpper(m) = e.key
      PROVE  ResolveCategory(Null, m, after) = category
  <2>1. p \in 1..Len(after) /\ after[p].key = ToUpper(m) /\ after[p].category = category
    BY <1>2, <1>4, <1>5 DEF Taught
  <2>2. LookupOverride(after, m) = category
    BY <1>3, <2>1, LookupFinds
  <2>3. QED BY <1>4, <2>2 DEF ResolveCategory
<1>6. ASSUME NEW m \in Merchants, ToUpper(m) # e.key
      PROVE  ResolveCategory(Null, m, after) \in {category, ResolveCategory(Null, m, map)}
  <2>1. LookupOverride(after, m) = LookupOverride(map, m)
    BY <1>2, <1>3, <1>6, LookupOfOthers
  <2>2. FuzzyMatchCategory(m, after) \in {category, FuzzyMatchCategory(m, map)}
    BY <1>2, <1>3, <1>4, FuzzyOnlyTeaches DEF Names
  <2>3. QED BY <1>4, <2>1, <2>2 DEF ResolveCategory
<1>7. QED BY <1>4, <1>5, <1>6 DEF after

LEMMA MapStaysSound ==
    ASSUME MapSound(map), [RowsNext]_<<map, row>>
    PROVE  MapSound(map)'
<1>1. ASSUME NEW m \in Merchants, NEW c \in Learned, Learn(m, c) PROVE MapSound(map')
  <2>1. map' = AddOverride(map, m, c)
    BY <1>1 DEF Learn
  <2>2. map' \in Seq(Entries) /\ \E p : Taught(map, map', p, Entry(m, c))
    BY <2>1, AddOverrideTeaches
  <2>3. QED BY <2>2, TaughtKeysOnce
<1>2. ASSUME NEW n \in Written, ReadText(n) PROVE map' = map
  BY <1>2 DEF ReadText
<1>3. CASE UNCHANGED <<map, row>>
  BY <1>3
<1>4. QED BY <1>1, <1>2, <1>3 DEF RowsNext

LEMMA MapIsSound == RowsSpec => []MapSound(map)
<1>1. RowsInit => MapSound(map)
  BY DEF RowsInit, MapSound, KeysOnce
<1>2. MapSound(map) /\ [RowsNext]_<<map, row>> => MapSound(map)'
  BY MapStaysSound
<1>3. QED BY <1>1, <1>2, PTL DEF RowsSpec

LEMMA RowsDistances ==
    ASSUME NEW a \in KeysOf(map) \cap ShortKeys, NEW b \in KeysOf(map) \cap ShortKeys
    PROVE  LevenshteinDistance(a, b) = EditDistances[a, b]
<1>1. a \in MerchantKeys /\ b \in MerchantKeys
  BY DEF ShortKeys
<1>2. a \in Text /\ b \in Text
  BY <1>1, KeyType DEF MerchantKeys
<1>3. EditDistances[a, b] = EditDistance(a, b)
  BY DEF EditDistances
<1>4. QED BY <1>2, <1>3, DistanceIs

(***************************************************************************)
(* For any names and any order of learning, fuzzyMatchCategory takes the   *)
(* category of a learned name than which none matches better, or none if   *)
(* none matches.                                                           *)
(***************************************************************************)
THEOREM RowsBestMatch == RowsSpec => []BestMatchWins
<1>1. MapSound(map) => BestMatchWins
  BY BestMatch DEF BestMatchWins, MapSound, Names
<1>2. QED BY <1>1, MapIsSound, PTL

(***************************************************************************)
(* For any names, rules and map, addOverride changes what resolving a      *)
(* row's category gives only to the category that was taught.              *)
(***************************************************************************)
THEOREM RowsLearning == RowsSpec => []LearningOnlyTeaches
BY MapIsSound, TeachingTeaches, PTL

-----------------------------------------------------------------------------
(***************************************************************************)
(* THE AMOUNTS                                                             *)
(*                                                                         *)
(* A text is built from the end: the figures of a number, in groups of     *)
(* three, then the cents.  Without its points it has the number's value,   *)
(* which goes by induction on the number; below a million there is one     *)
(* point, and cutting the first cuts all.                                  *)
(***************************************************************************)
Figures == {DigitText(i) : i \in 0..9}

LEMMA DigitOfText ==
    ASSUME NEW i \in 0..9
    PROVE  DigitText(i) \in Figures /\ DigitOf(DigitText(i)) = i
<1>1. \A j \in 0..9 : DigitText(j) = DigitText(i) => j = i
  BY DEF DigitText
<1>2. QED BY <1>1 DEF DigitOf, Figures

LEMMA FigureIsDigit ==
    ASSUME NEW x \in Figures
    PROVE  DigitOf(x) \in 0..9 /\ x # "." /\ x # ","
<1>1. PICK i \in 0..9 : x = DigitText(i)
  BY DEF Figures
<1>2. DigitOf(x) = i
  BY <1>1, DigitOfText
<1>3. x \in {"0", "1", "2", "3", "4", "5", "6", "7", "8", "9"}
  <2>1. i \in {0, 1, 2, 3, 4, 5, 6, 7, 8, 9}
    OBVIOUS
  <2>2. QED BY <1>1, <2>1 DEF DigitText
<1>4. x # "." /\ x # ","
  BY <1>3, Zenon
<1>5. QED BY <1>1, <1>2, <1>4

ValueStep == [x \in Figures |-> [v \in Nat |-> 10 * v + DigitOf(x)]]

LEMMA ValueSteps == Steps(ValueStep, Figures, Nat)
<1>1. ASSUME NEW x \in Figures, NEW v \in Nat
      PROVE  10 * v + DigitOf(x) \in Nat
  <2>1. DigitOf(x) \in 0..9
    BY FigureIsDigit
  <2>2. QED BY <2>1
<1>2. QED BY <1>1 DEF Steps, ValueStep

LEMMA ValueFold ==
    ASSUME NEW s \in Seq(Figures)
    PROVE  Value(s) = Fold(ValueStep, 0, s)
<1> DEFINE n == Len(s)
           S == Nat
           step == ValueStep
           Step(t, i) == 10 * t + DigitOf(s[i])
           Eq(f) == f = [i \in 0..n |-> IF i = 0 THEN 0 ELSE Step(f[i - 1], i)]
           g == CHOOSE f : Eq(f)
<1>1. n \in Nat /\ \A i \in 0..n : i # 0 => i \in 1..n /\ i - 1 \in 0..n /\ s[i] \in Figures
  BY LenProperties, ElementOfSeq
<1>2. Steps(step, Figures, S) /\ 0 \in S
  BY ValueSteps
<1>3. PICK f : Run(f, n, S, 0, Along(step, s)) /\ Fold(step, 0, s) = f[n]
  <2> HIDE DEF step, S
  <2> QED BY <1>2, FoldRuns
<1>4. \A i \in 1..n, t \in S : Along(step, s)[i][t] = Step(t, i)
  <2>1. \A i \in 1..n : s[i] \in Figures
    BY ElementOfSeq
  <2> QED BY <2>1 DEF Along, ValueStep
<1>5. Eq(f)
  <2> HIDE DEF Step, step, S
  <2> QED BY <1>1, <1>3, <1>4 DEF Run
<1>6. Eq(g)
  <2> HIDE DEF Eq
  <2> QED BY <1>5
<1>7. Value(s) = g[n]
  BY DEF Value, Loop
<1> HIDE DEF g
<1>8. Follows(g, n, S, 0, Along(step, s))
  <2>1. 0 \in 0..n /\ \A i \in 1..n : i \in 0..n /\ i # 0
    BY <1>1
  <2> HIDE DEF S, step, Step
  <2> QED BY <1>4, <1>6, <2>1 DEF Follows
<1>9. g[n] = f[n]
  <2> HIDE DEF n, S, step
  <2> QED BY <1>1, <1>2, <1>3, <1>8, AlongSteps, OneRun DEF n
<1>10. QED BY <1>3, <1>7, <1>9

LEMMA ValueAppend ==
    ASSUME NEW s \in Seq(Figures), NEW i \in 0..9
    PROVE  /\ Append(s, DigitText(i)) \in Seq(Figures)
           /\ Value(s) \in Nat
           /\ Value(Append(s, DigitText(i))) = 10 * Value(s) + i
<1> DEFINE x == DigitText(i)
           N == Nat
<1>0. Steps(ValueStep, Figures, N) /\ 0 \in N
  BY ValueSteps
<1>1. x \in Figures /\ DigitOf(x) = i
  BY DigitOfText
<1> HIDE DEF x
<1>2. Append(s, x) \in Seq(Figures)
  BY <1>1
<1>3. Value(s) = Fold(ValueStep, 0, s) /\ Value(Append(s, x)) = Fold(ValueStep, 0, Append(s, x))
  BY <1>2, ValueFold
<1>4. Fold(ValueStep, 0, s) \in Nat
  BY ValueSteps, FoldType
<1>5. Fold(ValueStep, 0, Append(s, x)) = ValueStep[x][Fold(ValueStep, 0, s)]
  <2> HIDE DEF N
  <2> QED BY <1>0, <1>1, FoldAppend
<1>6. QED BY <1>1, <1>2, <1>3, <1>4, <1>5 DEF ValueStep, x

LEMMA ValueEmpty == Value(<<>>) = 0
<1>1. <<>> \in Seq(Figures)
  BY EmptySeq
<1>2. Value(<<>>) = Fold(ValueStep, 0, <<>>)
  BY <1>1, ValueFold
<1>3. QED BY <1>2, ValueSteps, FoldEmpty

LEMMA WithoutEmpty ==
    ASSUME NEW dropped
    PROVE  Without(<<>>, dropped) = <<>>
<1> DEFINE E == {}
<1>1. <<>> \in Seq(E)
  BY EmptySeq
<1> HIDE DEF E
<1>2. Without(<<>>, dropped) = Fold(DropStep(E, dropped), <<>>, <<>>)
  BY <1>1, WithoutFold
<1>3. QED BY <1>1, <1>2, DropSteps, FoldEmpty

LEMMA WithoutAppend ==
    ASSUME NEW E, NEW s \in Seq(E), NEW x \in E, NEW dropped
    PROVE  /\ Without(s, dropped) \in Seq(E)
           /\ Without(Append(s, x), dropped) =
                IF x \in dropped THEN Without(s, dropped) ELSE Append(Without(s, dropped), x)
<1> DEFINE step == DropStep(E, dropped)
           S == Seq(E)
           e == <<>>
<1>1. Append(s, x) \in Seq(E)
  OBVIOUS
<1>2. Steps(step, E, S) /\ e \in S
  BY DropSteps
<1>3. Without(s, dropped) = Fold(step, <<>>, s)
      /\ Without(Append(s, x), dropped) = Fold(step, <<>>, Append(s, x))
  BY <1>1, WithoutFold
<1>4. \A t \in Seq(E) : step[x][t] = IF x \in dropped THEN t ELSE Append(t, x)
  BY DEF DropStep
<1> HIDE DEF step
<1>5. Fold(step, e, s) \in S
  <2> HIDE DEF e, S
  <2> QED BY <1>2, FoldType
<1>6. Fold(step, e, Append(s, x)) = step[x][Fold(step, e, s)]
  <2> HIDE DEF e, S
  <2> QED BY <1>2, FoldAppend
<1>7. QED BY <1>3, <1>4, <1>5, <1>6

LEMMA Below ==
    ASSUME NEW K, \A n \in Nat : (\A i \in 0..n - 1 : i \in K) => n \in K
    PROVE  \A n \in Nat : n \in K
<1> DEFINE W == Nat \ K
           Before == OpToRel(<, Nat)
<1>1. SUFFICES ASSUME W # {} PROVE FALSE
  OBVIOUS
<1>2. W \subseteq Nat
  OBVIOUS
<1>3. PICK k \in W : \A i \in W : <<i, k>> \notin Before
  <2> HIDE DEF W
  <2> QED BY <1>1, <1>2, NatLessThanWellFounded, WFMin
<1>4. \A i \in W : ~(i < k)
  BY <1>2, <1>3 DEF OpToRel
<1>5. k \in Nat /\ k \notin K
  BY <1>3
<1>6. \A i \in 0..k - 1 : i \in Nat /\ i < k
  BY <1>5
<1>7. \A i \in 0..k - 1 : i \in K
  BY <1>4, <1>6
<1>8. QED BY <1>5, <1>7

Place(n, k) == (n \div k) % 10
Marks == Figures \cup {".", ","}

LEMMA Places ==
    ASSUME NEW n \in Nat
    PROVE  Place(n, 1) \in 0..9 /\ Place(n, 10) \in 0..9 /\ Place(n, 100) \in 0..9
BY SMT DEF Place

LEMMA PlacesSum ==
    ASSUME NEW n \in Nat
    PROVE  /\ n < 10 => n = Place(n, 1)
           /\ n < 100 => n = 10 * Place(n, 10) + Place(n, 1)
           /\ n < 1000 => n = 100 * Place(n, 100) + 10 * Place(n, 10) + Place(n, 1)
           /\ n = 1000 * (n \div 1000) + 100 * Place(n, 100) + 10 * Place(n, 10) + Place(n, 1)
           /\ n = 100 * (n \div 100) + 10 * Place(n, 10) + Place(n, 1)
           /\ n \div 1000 \in Nat /\ n \div 100 \in Nat
           /\ n # 0 => n \div 1000 < n
BY SMT DEF Place

LEMMA BelowMillion ==
    ASSUME NEW n \in Nat, n < 100 * Million
    PROVE  (n \div 100) \div 1000 < 1000
BY SMT DEF Million

LEMMA DigitMarks ==
    ASSUME NEW n \in Nat, NEW k \in {1, 10, 100}
    PROVE  /\ Digit(n, k) = DigitText(Place(n, k)) /\ Place(n, k) \in 0..9
           /\ Digit(n, k) \in Figures /\ Digit(n, k) \in Marks
<1>1. Place(n, k) \in 0..9
  BY Places
<1>2. Digit(n, k) = DigitText(Place(n, k))
  BY DEF Digit, Place
<1>3. QED BY <1>1, <1>2, DigitOfText DEF Marks

\* Whole's equation.
Short(n) == IF n < 10 THEN <<Digit(n, 1)>>
            ELSE IF n < 100 THEN <<Digit(n, 10), Digit(n, 1)>>
            ELSE <<Digit(n, 100), Digit(n, 10), Digit(n, 1)>>
Three(n) == <<Digit(n, 100), Digit(n, 10), Digit(n, 1)>>
Grow(h, n) ==
    IF n < 10 THEN <<Digit(n, 1)>>
    ELSE IF n < 100 THEN <<Digit(n, 10), Digit(n, 1)>>
    ELSE IF n < 1000 THEN <<Digit(n, 100), Digit(n, 10), Digit(n, 1)>>
    ELSE h[n \div 1000] \o <<".", Digit(n, 100), Digit(n, 10), Digit(n, 1)>>

LEMMA ShortType ==
    ASSUME NEW n \in Nat
    PROVE  Short(n) \in Seq(Figures) /\ Three(n) \in Seq(Figures)
<1> DEFINE a == Digit(n, 100)
           b == Digit(n, 10)
           c == Digit(n, 1)
<1>1. a \in Figures /\ b \in Figures /\ c \in Figures
  BY DigitMarks
<1> HIDE DEF a, b, c
<1>2. <<c>> \in Seq(Figures) /\ <<b, c>> \in Seq(Figures) /\ <<a, b, c>> \in Seq(Figures)
  BY <1>1
<1>3. QED BY <1>2 DEF Short, Three, a, b, c

LEMMA FourMarks ==
    ASSUME NEW E, NEW p \in E, NEW a \in E, NEW b \in E, NEW c \in E
    PROVE  <<p>> \o <<a, b, c>> = <<p, a, b, c>>
<1> DEFINE s == <<p>>
           t == <<a, b, c>>
           u == <<p, a, b, c>>
<1>1. s \in Seq(E) /\ Len(s) = 1 /\ s[1] = p
  OBVIOUS
<1>2. t \in Seq(E) /\ Len(t) = 3 /\ t[1] = a /\ t[2] = b /\ t[3] = c
  OBVIOUS
<1>3. u \in Seq(E) /\ Len(u) = 4 /\ u[1] = p /\ u[2] = a /\ u[3] = b /\ u[4] = c
  OBVIOUS
<1> HIDE DEF s, t, u
<1>4. s \o t \in Seq(E) /\ Len(s \o t) = Len(s) + Len(t)
      /\ \A i \in 1..Len(s) + Len(t) : (s \o t)[i] = IF i <= Len(s) THEN s[i] ELSE t[i - Len(s)]
  BY <1>1, <1>2, ConcatProperties
<1>5. /\ (s \o t)[1] = p /\ (s \o t)[2] = a /\ (s \o t)[3] = b /\ (s \o t)[4] = c
      /\ Len(s \o t) = 4
  BY <1>1, <1>2, <1>4
<1>6. \A i \in 1..4 : (s \o t)[i] = u[i]
  <2>1. \A i \in 1..4 : i = 1 \/ i = 2 \/ i = 3 \/ i = 4
    OBVIOUS
  <2>2. QED BY <1>3, <1>5, <2>1
<1>8. s \o t = u
  BY <1>3, <1>4, <1>5, <1>6, SeqEqual
<1>7. QED BY <1>8 DEF s, t, u

Grown(h, n) ==
    /\ n < 1000 => Grow(h, n) = Short(n)
    /\ n >= 1000 => Grow(h, n) = h[n \div 1000] \o (<<".">> \o Three(n))

LEMMA GrowIs ==
    ASSUME NEW n \in Nat, NEW h
    PROVE  Grown(h, n)
<1>1. ASSUME n < 1000
      PROVE  Grow(h, n) = Short(n)
  BY <1>1 DEF Grow, Short
<1>2. ASSUME n >= 1000
      PROVE  Grow(h, n) = h[n \div 1000] \o (<<".">> \o Three(n))
  <2>1. ~(n < 10) /\ ~(n < 100) /\ ~(n < 1000)
    BY <1>2
  <2>2. Digit(n, 100) \in Marks /\ Digit(n, 10) \in Marks /\ Digit(n, 1) \in Marks /\ "." \in Marks
    BY DigitMarks DEF Marks
  <2> DEFINE t == <<".", Digit(n, 100), Digit(n, 10), Digit(n, 1)>>
             u == <<".">> \o Three(n)
             w == h[n \div 1000]
  <2>3. u = t
    BY <2>2, FourMarks DEF Three
  <2>4. Grow(h, n) = w \o t
    BY <2>1 DEF Grow
  <2>5. Grow(h, n) = w \o u
    <3> HIDE DEF t, u, w
    <3> QED BY <2>3, <2>4
  <2>6. QED BY <2>5
<1>3. QED BY <1>1, <1>2 DEF Grown

LEMMA GrowType ==
    ASSUME NEW n \in Nat, NEW h, n >= 1000 => h[n \div 1000] \in Seq(Marks)
    PROVE  Grow(h, n) \in Seq(Marks)
<1>1. Figures \subseteq Marks /\ "." \in Marks
  BY DEF Marks
<1>2. Short(n) \in Seq(Marks) /\ Three(n) \in Seq(Marks)
  BY <1>1, ShortType, SeqMonotonic
<1>3. <<".">> \in Seq(Marks)
  BY <1>1
<1>4. <<".">> \o Three(n) \in Seq(Marks)
  BY <1>2, <1>3, ConcatProperties
<1>5. ASSUME n >= 1000
      PROVE  h[n \div 1000] \o (<<".">> \o Three(n)) \in Seq(Marks)
  <2> DEFINE t == h[n \div 1000]
             u == <<".">> \o Three(n)
  <2>1. t \in Seq(Marks) /\ u \in Seq(Marks)
    BY <1>4, <1>5
  <2> HIDE DEF t, u
  <2>2. t \o u \in Seq(Marks)
    BY <2>1, ConcatProperties
  <2>3. QED BY <2>2 DEF t, u
<1> DEFINE u == h[n \div 1000] \o (<<".">> \o Three(n))
<1>6. n < 1000 \/ n >= 1000
  OBVIOUS
<1>7. (n < 1000 => Grow(h, n) = Short(n)) /\ (n >= 1000 => Grow(h, n) = u)
  <2>1. Grown(h, n)
    BY GrowIs
  <2>2. QED BY <2>1 DEF Grown
<1>8. n >= 1000 => u \in Seq(Marks)
  BY <1>5
<1> HIDE DEF u
<1>9. QED BY <1>2, <1>6, <1>7, <1>8

Grows(f, n) == f \in [0..n -> Seq(Marks)] /\ \A i \in 0..n : f[i] = Grow(f, i)

LEMMA GrowsExists ==
    ASSUME NEW n \in Nat
    PROVE  \E f : Grows(f, n)
<1> DEFINE S == Seq(Marks)
           K == {k \in 0..n : \E f : Grows(f, k)}
<1>1. 0 \in K
  <2> DEFINE f == [i \in 0..0 |-> Grow(<<>>, 0)]
  <2>1. Grow(<<>>, 0) \in S
    BY GrowType
  <2> HIDE DEF S
  <2>2. Grows(f, 0)
    BY <2>1 DEF Grows, Grow, S
  <2>3. 0 \in 0..n
    OBVIOUS
  <2> HIDE DEF f
  <2>4. QED BY <2>2, <2>3
<1>2. ASSUME NEW k \in 1..n, k - 1 \in K PROVE k \in K
  <2>1. PICK f : Grows(f, k - 1)
    BY <1>2
  <2> DEFINE g == [i \in 0..k |-> IF i = k THEN Grow(f, k) ELSE f[i]]
  <2>2. /\ k \in 0..n /\ k \in Nat /\ k # 0
        /\ \A i \in 0..k : i # k => i \in 0..(k - 1)
    OBVIOUS
  <2>3. \A i \in 0..k : i >= 1000 => i \div 1000 \in 0..(k - 1) /\ i \div 1000 \in 0..k /\ i \div 1000 # k
    BY <2>2
  <2>4. Grow(f, k) \in S
    <3>1. k >= 1000 => f[k \div 1000] \in S
      BY <2>1, <2>2, <2>3 DEF Grows
    <3>2. QED BY <2>2, <3>1, GrowType
  <2>5. g \in [0..k -> S]
    <3> HIDE DEF S
    <3> QED BY <2>1, <2>2, <2>4 DEF Grows, S
  <2>6. ASSUME NEW i \in 0..k PROVE g[i] = Grow(f, i)
    <3>1. CASE i = k
      BY <3>1
    <3>2. CASE i # k
      BY <2>1, <2>2, <3>2 DEF Grows
    <3>3. QED BY <3>1, <3>2
  <2>7. ASSUME NEW i \in 0..k PROVE Grow(g, i) = Grow(f, i)
    <3>1. i >= 1000 => g[i \div 1000] = f[i \div 1000]
      BY <2>3
    <3> HIDE DEF g
    <3>2. QED BY <3>1 DEF Grow
  <2> HIDE DEF g, S
  <2>8. Grows(g, k)
    BY <2>5, <2>6, <2>7 DEF Grows, S
  <2>9. QED BY <2>2, <2>8
<1>3. \A i \in 0..n : i \in K
  <2> HIDE DEF K
  <2> QED BY <1>1, <1>2, UpTo
<1>4. n \in 0..n
  OBVIOUS
<1>5. QED BY <1>3, <1>4

LEMMA GrowsUnique ==
    ASSUME NEW n \in Nat, NEW m \in Nat, NEW f, Grows(f, n), NEW g, Grows(g, m),
           NEW i \in Nat, i <= n, i <= m
    PROVE  f[i] = g[i]
<1> DEFINE K == {j \in Nat : j <= n /\ j <= m => f[j] = g[j]}
<1>1. ASSUME NEW j \in Nat, \A k \in 0..j - 1 : k \in K
      PROVE  j \in K
  <2>1. SUFFICES ASSUME j <= n, j <= m PROVE f[j] = g[j]
    OBVIOUS
  <2>2. j >= 1000 => j \div 1000 \in 0..j - 1 /\ j \div 1000 <= n /\ j \div 1000 <= m
    BY <2>1
  <2>3. j >= 1000 => f[j \div 1000] = g[j \div 1000]
    BY <1>1, <2>2
  <2>4. Grow(f, j) = Grow(g, j)
    BY <2>3 DEF Grow
  <2>5. j \in 0..n /\ j \in 0..m
    BY <2>1
  <2>6. QED BY <2>4, <2>5 DEF Grows
<1>2. \A j \in Nat : j \in K
  <2> HIDE DEF K
  <2> QED BY <1>1, Below
<1>3. QED BY <1>2

LEMMA WholeIs ==
    ASSUME NEW n \in Nat
    PROVE  Whole[n] = Grow(Whole, n) /\ Whole[n] \in Seq(Marks)
<1> DEFINE Eq(h) == h = [i \in Nat |-> Grow(h, i)]
           Up(k) == CHOOSE f : Grows(f, k)
           h0 == [i \in Nat |-> Up(i)[i]]
           S == Seq(Marks)
<1>1. \A k \in Nat : Grows(Up(k), k)
  BY GrowsExists
<1> HIDE DEF Up
<1>2. ASSUME NEW i \in Nat
      PROVE  h0[i] = Grow(h0, i) /\ h0[i] \in S
  <2>1. Grows(Up(i), i) /\ i \in 0..i
    BY <1>1
  <2>2. Up(i)[i] = Grow(Up(i), i) /\ Up(i)[i] \in S
    <3> HIDE DEF S
    <3> QED BY <2>1 DEF Grows, S
  <2>3. i >= 1000 => Up(i)[i \div 1000] = h0[i \div 1000]
    <3>1. SUFFICES ASSUME i >= 1000 PROVE Up(i)[i \div 1000] = h0[i \div 1000]
      OBVIOUS
    <3> DEFINE j == i \div 1000
    <3>2. j \in Nat /\ j <= i
      BY <3>1
    <3> HIDE DEF j
    <3>3. Grows(Up(j), j)
      BY <1>1, <3>2
    <3>4. Up(i)[j] = Up(j)[j]
      BY <2>1, <3>2, <3>3, GrowsUnique
    <3>5. h0[j] = Up(j)[j]
      BY <3>2
    <3>6. QED BY <3>4, <3>5 DEF j
  <2>4. h0[i] = Up(i)[i]
    OBVIOUS
  <2> HIDE DEF h0
  <2>5. Grow(Up(i), i) = Grow(h0, i)
    BY <2>3 DEF Grow
  <2>6. QED BY <2>2, <2>4, <2>5
<1>3. Eq(h0)
  <2>1. h0 = [i \in Nat |-> h0[i]]
    OBVIOUS
  <2> HIDE DEF h0
  <2>2. QED BY <1>2, <2>1
<1>4. Eq(Whole)
  <2>1. Whole = CHOOSE h : Eq(h)
    BY DEF Whole, Grow
  <2>2. QED
    <3> HIDE DEF Eq, h0
    <3> QED BY <1>3, <2>1
<1>5. \A i \in Nat : Whole[i] = Grow(Whole, i)
  BY <1>4
<1>6. QED
  <2> DEFINE K == {i \in Nat : Whole[i] \in S}
  <2>1. ASSUME NEW i \in Nat, \A k \in 0..i - 1 : k \in K
        PROVE  i \in K
    <3>1. i >= 1000 => i \div 1000 \in 0..i - 1
      OBVIOUS
    <3>2. i >= 1000 => Whole[i \div 1000] \in S
      BY <2>1, <3>1
    <3>3. Grow(Whole, i) \in S
      BY <3>2, GrowType
    <3>4. QED BY <1>5, <3>3
  <2>2. \A i \in Nat : i \in K
    <3> HIDE DEF K
    <3> QED BY <2>1, Below
  <2>3. QED BY <1>5, <2>2

LEMMA ConcatAppend ==
    ASSUME NEW E, NEW s \in Seq(E), NEW t \in Seq(E), NEW x \in E
    PROVE  s \o Append(t, x) = Append(s \o t, x)
<1>1. Append(t, x) = t \o <<x>> /\ <<x>> \in Seq(E)
  BY AppendIsConcat
<1>2. s \o t \in Seq(E)
  BY ConcatProperties
<1>3. Append(s \o t, x) = (s \o t) \o <<x>>
  BY <1>2, AppendIsConcat
<1>4. (s \o t) \o <<x>> = s \o (t \o <<x>>)
  BY <1>1, ConcatAssociative
<1>5. QED BY <1>1, <1>3, <1>4

Push(s, a, b) == Append(Append(s, a), b)

Pushes(E, s, a, b, c) ==
    /\ s \o <<a>> = Append(s, a)
    /\ s \o <<a, b>> = Push(s, a, b)
    /\ s \o <<a, b, c>> = Append(Push(s, a, b), c)
    /\ Append(s, a) \in Seq(E) /\ Push(s, a, b) \in Seq(E)
    /\ Append(Push(s, a, b), c) \in Seq(E)

LEMMA Pushed ==
    ASSUME NEW E, NEW s \in Seq(E), NEW a \in E, NEW b \in E, NEW c \in E
    PROVE  Pushes(E, s, a, b, c)
<1>1. <<a>> \in Seq(E) /\ <<a, b>> \in Seq(E) /\ <<a, b>> = Append(<<a>>, b)
      /\ <<a, b, c>> = Append(<<a, b>>, c)
  OBVIOUS
<1>2. s \o <<a>> = Append(s, a)
  BY AppendIsConcat
<1>3. s \o <<a, b>> = Append(s \o <<a>>, b)
  BY <1>1, ConcatAppend
<1>4. s \o <<a, b, c>> = Append(s \o <<a, b>>, c)
  BY <1>1, ConcatAppend
<1>5. Append(s, a) \in Seq(E)
  BY AppendProperties
<1>6. Push(s, a, b) \in Seq(E)
  BY <1>5, AppendProperties DEF Push
<1>7. Append(Push(s, a, b), c) \in Seq(E)
  BY <1>6, AppendProperties
<1>8. QED BY <1>2, <1>3, <1>4, <1>5, <1>6, <1>7 DEF Push, Pushes

Plain(s) == Without(s, {"."})

LEMMA PlainAppend ==
    ASSUME NEW s \in Seq(Marks), NEW x \in Figures
    PROVE  /\ Append(s, x) \in Seq(Marks)
           /\ Plain(Append(s, x)) = Append(Plain(s), x)
<1>1. x \in Marks /\ x \notin {"."}
  BY FigureIsDigit DEF Marks
<1> DEFINE d == {"."}
<1>2. x \in Marks /\ x \notin d
  BY <1>1
<1> HIDE DEF d
<1>3. Append(s, x) \in Seq(Marks)
  BY <1>2, AppendProperties
<1>4. Without(Append(s, x), d) = Append(Without(s, d), x)
  BY <1>2, WithoutAppend
<1>5. QED BY <1>3, <1>4 DEF Plain, d

LEMMA DigitValue ==
    ASSUME NEW s \in Seq(Figures), NEW n \in Nat, NEW k \in {1, 10, 100}
    PROVE  /\ Append(s, Digit(n, k)) \in Seq(Figures)
           /\ Value(s) \in Nat
           /\ Value(Append(s, Digit(n, k))) = 10 * Value(s) + Place(n, k)
<1>1. Digit(n, k) = DigitText(Place(n, k)) /\ Place(n, k) \in 0..9
  BY DigitMarks
<1> DEFINE i == Place(n, k)
<1>2. i \in 0..9
  BY <1>1
<1> HIDE DEF i
<1>3. /\ Append(s, DigitText(i)) \in Seq(Figures)
      /\ Value(s) \in Nat
      /\ Value(Append(s, DigitText(i))) = 10 * Value(s) + i
  BY <1>2, ValueAppend
<1>4. QED BY <1>1, <1>3 DEF i

\* Three digits more.
Thousand(s, n) == Append(Push(s, Digit(n, 100), Digit(n, 10)), Digit(n, 1))

LEMMA ThousandIs ==
    ASSUME NEW E, NEW s \in Seq(E), Figures \subseteq E, NEW n \in Nat
    PROVE  s \o Three(n) = Thousand(s, n) /\ Thousand(s, n) \in Seq(E)
<1>1. Digit(n, 100) \in E /\ Digit(n, 10) \in E /\ Digit(n, 1) \in E
  BY DigitMarks
<1> DEFINE a == Digit(n, 100)
           b == Digit(n, 10)
           c == Digit(n, 1)
<1>2. a \in E /\ b \in E /\ c \in E
  BY <1>1
<1> HIDE DEF a, b, c
<1>3. Pushes(E, s, a, b, c)
  BY <1>2, Pushed
<1>4. QED BY <1>3 DEF Pushes, Three, Thousand, a, b, c

LEMMA ThousandPlain ==
    ASSUME NEW s \in Seq(Marks), NEW n \in Nat
    PROVE  Plain(Thousand(s, n)) = Thousand(Plain(s), n)
<1>1. Digit(n, 100) \in Figures /\ Digit(n, 10) \in Figures /\ Digit(n, 1) \in Figures
  BY DigitMarks
<1> DEFINE a == Append(s, Digit(n, 100))
           b == Append(a, Digit(n, 10))
<1>2. a \in Seq(Marks) /\ Plain(a) = Append(Plain(s), Digit(n, 100))
  BY <1>1, PlainAppend
<1>3. b \in Seq(Marks) /\ Plain(b) = Append(Plain(a), Digit(n, 10))
  <2> HIDE DEF a
  <2> QED BY <1>1, <1>2, PlainAppend
<1>4. Plain(Append(b, Digit(n, 1))) = Append(Plain(b), Digit(n, 1))
  <2> HIDE DEF b
  <2> QED BY <1>1, <1>3, PlainAppend
<1>5. QED BY <1>2, <1>3, <1>4 DEF Thousand, Push

LEMMA ThousandValue ==
    ASSUME NEW s \in Seq(Figures), NEW n \in Nat
    PROVE  /\ Thousand(s, n) \in Seq(Figures)
           /\ Value(Thousand(s, n)) =
                1000 * Value(s) + 100 * Place(n, 100) + 10 * Place(n, 10) + Place(n, 1)
<1> DEFINE a == Append(s, Digit(n, 100))
           b == Append(a, Digit(n, 10))
           c == Append(b, Digit(n, 1))
<1>1. a \in Seq(Figures) /\ Value(s) \in Nat /\ Value(a) = 10 * Value(s) + Place(n, 100)
  BY DigitValue
<1>2. b \in Seq(Figures) /\ Value(b) = 10 * Value(a) + Place(n, 10)
  <2> HIDE DEF a
  <2> QED BY <1>1, DigitValue
<1>3. c \in Seq(Figures) /\ Value(c) = 10 * Value(b) + Place(n, 1)
  <2> HIDE DEF b
  <2> QED BY <1>2, DigitValue
<1>4. Thousand(s, n) = c
  BY DEF Thousand, Push
<1> HIDE DEF a, b, c
<1>5. Place(n, 100) \in Nat /\ Place(n, 10) \in Nat /\ Place(n, 1) \in Nat
  BY Places
<1> DEFINE x == Place(n, 100)
           y == Place(n, 10)
           z == Place(n, 1)
           v == Value(s)
<1>6. v \in Nat /\ x \in Nat /\ y \in Nat /\ z \in Nat
      /\ Value(c) = 10 * (10 * (10 * v + x) + y) + z
  BY <1>1, <1>2, <1>3, <1>5
<1> HIDE DEF x, y, z, v
<1>7. Value(c) = 1000 * v + 100 * x + 10 * y + z
  BY <1>6
<1>8. QED BY <1>3, <1>4, <1>7 DEF x, y, z, v

LEMMA ShortValue ==
    ASSUME NEW n \in Nat, n < 1000
    PROVE  Plain(Short(n)) = Short(n) /\ Value(Short(n)) = n
<1> DEFINE e == <<>>
           a == Append(e, Digit(n, 100))
           b == Append(e, Digit(n, 10))
           c == Append(e, Digit(n, 1))
           d == Append(b, Digit(n, 1))
<1>1. e \in Seq(Figures) /\ e \in Seq(Marks) /\ Value(e) = 0 /\ Plain(e) = e
  BY ValueEmpty, WithoutEmpty DEF Plain
<1>2. Digit(n, 100) \in Figures /\ Digit(n, 10) \in Figures /\ Digit(n, 1) \in Figures
  BY DigitMarks
<1>3. b \in Seq(Figures) /\ b \in Seq(Marks) /\ Value(b) = Place(n, 10) /\ Plain(b) = b
  <2> HIDE DEF e
  <2>1. Value(b) = 10 * Value(e) + Place(n, 10) /\ b \in Seq(Figures)
    BY <1>1, DigitValue
  <2>2. b \in Seq(Marks) /\ Plain(b) = b
    BY <1>1, <1>2, PlainAppend
  <2>3. QED BY <1>1, <2>1, <2>2, Places
<1>4. Value(c) = Place(n, 1) /\ Plain(c) = c
  <2> HIDE DEF e
  <2>1. Value(c) = 10 * Value(e) + Place(n, 1)
    BY <1>1, DigitValue
  <2>2. Plain(c) = c
    BY <1>1, <1>2, PlainAppend
  <2>3. QED BY <1>1, <2>1, <2>2, Places
<1>5. Value(d) = 10 * Place(n, 10) + Place(n, 1) /\ Plain(d) = d
  <2> HIDE DEF b
  <2>1. Value(d) = 10 * Value(b) + Place(n, 1)
    BY <1>3, DigitValue
  <2>2. Plain(d) = d
    BY <1>2, <1>3, PlainAppend
  <2>3. QED BY <1>3, <2>1, <2>2
<1>6. Value(Thousand(e, n)) = 100 * Place(n, 100) + 10 * Place(n, 10) + Place(n, 1)
      /\ Plain(Thousand(e, n)) = Thousand(e, n)
  <2> HIDE DEF e
  <2>1. Plain(Thousand(e, n)) = Thousand(e, n)
    BY <1>1, ThousandPlain
  <2>2. Value(Thousand(e, n)) = 1000 * Value(e) + 100 * Place(n, 100) + 10 * Place(n, 10) + Place(n, 1)
    BY <1>1, ThousandValue
  <2>3. QED BY <1>1, <2>1, <2>2, Places
<1>7. c = <<Digit(n, 1)>> /\ d = <<Digit(n, 10), Digit(n, 1)>>
      /\ Thousand(e, n) = <<Digit(n, 100), Digit(n, 10), Digit(n, 1)>>
  <2> DEFINE x == Digit(n, 100)
             y == Digit(n, 10)
             z == Digit(n, 1)
  <2>1. x \in Figures /\ y \in Figures /\ z \in Figures
    BY <1>2
  <2> HIDE DEF x, y, z
  <2>2. e \in Seq(Figures) /\ <<z>> \in Seq(Figures) /\ <<y, z>> \in Seq(Figures)
        /\ <<x, y, z>> \in Seq(Figures)
    BY <2>1
  <2>3. Pushes(Figures, e, z, z, z) /\ Pushes(Figures, e, y, z, z) /\ Pushes(Figures, e, x, y, z)
    <3> HIDE DEF e
    <3> QED BY <2>1, <2>2, Pushed
  <2>4. \A t \in Seq(Figures) : e \o t = t
    BY ConcatEmptySeq
  <2> HIDE DEF e
  <2>5. Append(e, z) = <<z>> /\ Push(e, y, z) = <<y, z>> /\ Append(Push(e, x, y), z) = <<x, y, z>>
    BY <2>2, <2>3, <2>4 DEF Pushes
  <2>6. QED BY <2>5 DEF x, y, z, Thousand, Push
<1>8. \/ n < 10 /\ n = Place(n, 1)
      \/ ~(n < 10) /\ n < 100 /\ n = 10 * Place(n, 10) + Place(n, 1)
      \/ ~(n < 10) /\ ~(n < 100) /\ n = 100 * Place(n, 100) + 10 * Place(n, 10) + Place(n, 1)
  BY SMT, PlacesSum
<1> HIDE DEF c, d, e
<1>9. CASE n < 10
  BY <1>4, <1>7, <1>8, <1>9 DEF Short
<1>10. CASE ~(n < 10) /\ n < 100
  BY <1>5, <1>7, <1>8, <1>10 DEF Short
<1>11. CASE ~(n < 10) /\ ~(n < 100)
  BY <1>6, <1>7, <1>8, <1>11 DEF Short
<1>12. QED BY <1>9, <1>10, <1>11

\* The text of n is w, the text of its thousands, and three digits more.
Lengthened(n, w) == w \in Seq(Marks) /\ Whole[n] = Thousand(Append(w, "."), n)

LEMMA WholeFrom ==
    ASSUME NEW n \in Nat, n >= 1000
    PROVE  Lengthened(n, Whole[n \div 1000])
<1> DEFINE w == Whole[n \div 1000]
           p == "."
<1>1. n \div 1000 \in Nat
  BY PlacesSum
<1>2. w \in Seq(Marks)
  BY <1>1, WholeIs
<1>3. p \in Marks /\ Figures \subseteq Marks
  BY DEF Marks
<1>4. Three(n) \in Seq(Marks)
  BY <1>3, ShortType, SeqMonotonic
<1>5. Whole[n] = w \o (<<p>> \o Three(n))
  <2>1. Grown(Whole, n) /\ Whole[n] = Grow(Whole, n)
    BY GrowIs, WholeIs
  <2>2. QED BY ZenonT(30), <2>1 DEF Grown
<1> HIDE DEF w, p
<1>6. <<p>> \in Seq(Marks)
  BY <1>3
<1>7. w \o (<<p>> \o Three(n)) = (w \o <<p>>) \o Three(n)
  BY <1>2, <1>4, <1>6, ConcatAssociative
<1>8. w \o <<p>> = Append(w, p) /\ Append(w, p) \in Seq(Marks)
  BY <1>2, <1>3, AppendIsConcat, AppendProperties
<1>9. Append(w, p) \o Three(n) = Thousand(Append(w, p), n)
  BY <1>3, <1>8, ThousandIs
<1>10. Whole[n] = Thousand(Append(w, p), n)
  BY <1>5, <1>7, <1>8, <1>9
<1>11. Lengthened(n, w)
  BY <1>2, <1>10 DEF p, Lengthened
<1>12. QED BY <1>11 DEF w

LEMMA PlainWhole ==
    ASSUME NEW n \in Nat
    PROVE  /\ n < 1000 => Whole[n] = Short(n) /\ Plain(Whole[n]) = Short(n)
           /\ n >= 1000 => Plain(Whole[n]) = Thousand(Plain(Whole[n \div 1000]), n)
<1>1. ASSUME n < 1000
      PROVE  Whole[n] = Short(n) /\ Plain(Whole[n]) = Short(n)
  <2>1. Grown(Whole, n) /\ Whole[n] = Grow(Whole, n)
    BY GrowIs, WholeIs
  <2>2. Whole[n] = Short(n)
    BY <1>1, <2>1 DEF Grown
  <2>3. QED BY <1>1, <2>2, ShortValue
<1>2. ASSUME n >= 1000
      PROVE  Plain(Whole[n]) = Thousand(Plain(Whole[n \div 1000]), n)
  <2> DEFINE w == Whole[n \div 1000]
             p == "."
             d == {"."}
  <2>0. Lengthened(n, w)
    BY <1>2, WholeFrom
  <2>1. w \in Seq(Marks) /\ Whole[n] = Thousand(Append(w, p), n)
    <3> HIDE DEF w
    <3> QED BY <2>0 DEF Lengthened
  <2>2. p \in Marks /\ p \in d
    BY DEF Marks
  <2> HIDE DEF w, p, d
  <2>3. Without(Append(w, p), d) = Without(w, d) /\ Append(w, p) \in Seq(Marks)
    BY <2>1, <2>2, WithoutAppend, AppendProperties
  <2>4. Plain(Append(w, p)) = Plain(w)
    BY <2>3 DEF Plain, d
  <2>5. Plain(Whole[n]) = Thousand(Plain(w), n)
    BY <2>1, <2>3, <2>4, ThousandPlain
  <2>6. QED BY <2>5 DEF w
<1>3. QED BY <1>1, <1>2

LEMMA WholeValue ==
    ASSUME NEW n \in Nat
    PROVE  Plain(Whole[n]) \in Seq(Figures) /\ Value(Plain(Whole[n])) = n
<1> DEFINE Reads(i) == Plain(Whole[i]) \in Seq(Figures) /\ Value(Plain(Whole[i])) = i
           K == {i \in Nat : Reads(i)}
<1>1. ASSUME NEW i \in Nat, \A k \in 0..i - 1 : k \in K
      PROVE  i \in K
  <2>1. CASE i < 1000
    <3>1. Plain(Whole[i]) = Short(i)
      BY <2>1, PlainWhole
    <3>2. Short(i) \in Seq(Figures) /\ Value(Short(i)) = i
      BY <2>1, ShortType, ShortValue
    <3>3. QED BY <3>1, <3>2
  <2>2. CASE i >= 1000
    <3> DEFINE j == i \div 1000
               w == Plain(Whole[j])
    <3>1. j \in 0..i - 1
      BY <2>2
    <3>2. w \in Seq(Figures) /\ Value(w) = j
      <4> HIDE DEF j
      <4> QED BY <1>1, <3>1
    <3>3. Plain(Whole[i]) = Thousand(w, i)
      BY <2>2, PlainWhole
    <3> HIDE DEF w
    <3>4. Thousand(w, i) \in Seq(Figures)
      BY <3>2, ThousandValue
    <3>8. Value(Thousand(w, i)) = 1000 * Value(w) + 100 * Place(i, 100) + 10 * Place(i, 10) + Place(i, 1)
      BY <3>2, ThousandValue
    <3>5. i = 1000 * j + 100 * Place(i, 100) + 10 * Place(i, 10) + Place(i, 1)
      BY PlacesSum
    <3>6. Value(Thousand(w, i)) = i
      BY <3>2, <3>8, <3>5
    <3>7. QED BY <3>3, <3>4, <3>6
  <2>3. QED BY <2>1, <2>2
<1>2. \A i \in Nat : i \in K
  <2> HIDE DEF K
  <2> QED BY <1>1, Below
<1>3. QED BY <1>2

-----------------------------------------------------------------------------
(* The first occurrence of a character *)

FirstAt(t, old) == SelectInSeq(t, LAMBDA ch : ch = old)
Holds(a, old, b) == a \o (<<old>> \o b)

Parted(E, a, old, b) ==
    /\ Holds(a, old, b) \in Seq(E)
    /\ Len(Holds(a, old, b)) = Len(a) + 1 + Len(b)
    /\ \A i \in 1..Len(a) : Holds(a, old, b)[i] = a[i]
    /\ Holds(a, old, b)[Len(a) + 1] = old
    /\ \A i \in 1..Len(b) : Holds(a, old, b)[Len(a) + 1 + i] = b[i]

LEMMA HoldsParts ==
    ASSUME NEW E, NEW a \in Seq(E), NEW b \in Seq(E), NEW old \in E
    PROVE  Parted(E, a, old, b)
<1> DEFINE o == <<old>>
           c == o \o b
<1>1. o \in Seq(E) /\ Len(o) = 1 /\ o[1] = old
  OBVIOUS
<1> HIDE DEF o
<1>2. Len(a) \in Nat /\ Len(b) \in Nat
  BY LenProperties
<1>3. c \in Seq(E) /\ Len(c) = Len(o) + Len(b)
      /\ \A i \in 1..Len(o) + Len(b) : c[i] = IF i <= Len(o) THEN o[i] ELSE b[i - Len(o)]
  BY <1>1, ConcatProperties
<1>4. c[1] = old /\ \A i \in 1..Len(b) : c[1 + i] = b[i]
  BY <1>1, <1>2, <1>3
<1>5. Len(c) = 1 + Len(b)
  BY <1>1, <1>3
<1> HIDE DEF c
<1>6. a \o c \in Seq(E) /\ Len(a \o c) = Len(a) + Len(c)
      /\ \A i \in 1..Len(a) + Len(c) : (a \o c)[i] = IF i <= Len(a) THEN a[i] ELSE c[i - Len(a)]
  <2>1. c \in Seq(E)
    BY <1>3
  <2>2. QED BY <2>1, ConcatProperties
<1> DEFINE t == a \o c
<1>7. \A i \in 1..Len(a) : t[i] = a[i]
  BY <1>2, <1>5, <1>6
<1>8. t[Len(a) + 1] = old
  BY <1>2, <1>4, <1>5, <1>6
<1>9. ASSUME NEW i \in 1..Len(b) PROVE t[Len(a) + 1 + i] = b[i]
  BY <1>2, <1>4, <1>5, <1>6
<1>10. t \in Seq(E) /\ Len(t) = Len(a) + 1 + Len(b)
  BY <1>2, <1>5, <1>6
<1> HIDE DEF t
<1>11. Holds(a, old, b) = t
  BY DEF Holds, t, c, o
<1>12. QED BY <1>7, <1>8, <1>9, <1>10, <1>11 DEF Parted

LEMMA FirstIs ==
    ASSUME NEW E, NEW a \in Seq(E), NEW b \in Seq(E), NEW old \in E,
           \A i \in 1..Len(a) : a[i] # old
    PROVE  /\ FirstAt(Holds(a, old, b), old) = Len(a) + 1
           /\ \E i \in 1..Len(Holds(a, old, b)) : Holds(a, old, b)[i] = old
           /\ old \in ToSet(Holds(a, old, b))
<1> DEFINE t == Holds(a, old, b)
           I == {i \in 1..Len(t) : t[i] = old}
           p == Len(a) + 1
<1>1. Len(a) \in Nat /\ Len(b) \in Nat
  BY LenProperties
<1>2. Parted(E, a, old, b)
  BY HoldsParts
<1>3. t \in Seq(E) /\ Len(t) = Len(a) + 1 + Len(b) /\ t[p] = old /\ \A i \in 1..Len(a) : t[i] # old
  BY <1>2 DEF Parted
<1>4. DOMAIN t = 1..Len(t)
  BY <1>3, LenProperties
<1>5. FirstAt(t, old) = IF I # {} THEN CHOOSE x \in I : \A y \in I : x <= y ELSE 0
  BY DEF FirstAt, SelectInSeq, Min
<1> HIDE DEF t
<1>6. p \in 1..Len(t) /\ p \in I
  BY <1>1, <1>3
<1>7. \A y \in I : p <= y
  BY <1>1, <1>3
<1>8. I \subseteq Int
  OBVIOUS
<1> DEFINE m == CHOOSE x \in I : \A y \in I : x <= y
<1>9. m \in I /\ \A y \in I : m <= y
  <2> HIDE DEF I, p
  <2> QED BY <1>6, <1>7
<1>10. m = p
  <2> HIDE DEF I, m
  <2> QED BY <1>1, <1>6, <1>7, <1>8, <1>9
<1>11. FirstAt(t, old) = p
  <2> HIDE DEF I, p
  <2> QED BY <1>5, <1>6, <1>10
<1>12. old \in ToSet(t)
  BY <1>3, <1>4, <1>6 DEF ToSet
<1>13. QED BY <1>3, <1>6, <1>11, <1>12 DEF t

LEMMA ReplaceFirstIs ==
    ASSUME NEW E, NEW a \in Seq(E), NEW b \in Seq(E), NEW old \in E, NEW new \in E,
           \A i \in 1..Len(a) : a[i] # old
    PROVE  ReplaceFirst(Holds(a, old, b), old, new) = Holds(a, new, b)
<1> DEFINE t == Holds(a, old, b)
           u == Holds(a, new, b)
           p == Len(a) + 1
           r == [t EXCEPT ![p] = new]
<1>1. Len(a) \in Nat /\ Len(b) \in Nat
  BY LenProperties
<1>2. Parted(E, a, old, b) /\ Parted(E, a, new, b)
  BY HoldsParts
<1>3. FirstAt(t, old) = p /\ old \in ToSet(t)
  BY FirstIs
<1>4. ReplaceFirst(t, old, new) = r
  <2> HIDE DEF t
  <2> QED BY <1>3 DEF ReplaceFirst, ReplaceAt, FirstAt
<1>5. t \in Seq(E) /\ u \in Seq(E) /\ Len(t) = Len(a) + 1 + Len(b) /\ Len(u) = Len(t) /\ p \in 1..Len(t)
  BY <1>1, <1>2 DEF Parted
<1>6. /\ \A i \in 1..Len(a) : t[i] = a[i] /\ u[i] = a[i]
      /\ t[Len(a) + 1] = old /\ u[Len(a) + 1] = new
      /\ \A i \in 1..Len(b) : t[Len(a) + 1 + i] = b[i] /\ u[Len(a) + 1 + i] = b[i]
  BY <1>2 DEF Parted
<1> HIDE DEF t, u
<1>7. r \in Seq(E) /\ Len(r) = Len(t) /\ \A j \in 1..Len(t) : r[j] = IF j = p THEN new ELSE t[j]
  <2> HIDE DEF p
  <2> QED BY <1>5, ExceptSeq
<1> HIDE DEF r
<1>8. ASSUME NEW j \in 1..Len(r) PROVE r[j] = u[j]
  <2>1. CASE j = p
    BY <1>6, <1>7, <2>1
  <2>2. CASE j <= Len(a)
    BY <1>1, <1>6, <1>7, <2>2
  <2>3. CASE j > p
    <3>1. j - p \in 1..Len(b) /\ Len(a) + 1 + (j - p) = j
      BY <1>1, <1>5, <1>7, <2>3
    <3>2. t[j] = u[j]
      BY <1>6, <3>1
    <3>3. QED BY <1>1, <1>7, <2>3, <3>2
  <2>4. QED BY <1>1, <1>7, <1>5, <2>1, <2>2, <2>3
<1>9. r = u
  BY <1>5, <1>7, <1>8, SeqEqual
<1>10. QED BY <1>4, <1>9 DEF t, u

\* The two parts.
LEMMA PartsAre ==
    ASSUME NEW E, NEW a \in Seq(E), NEW b \in Seq(E), NEW old \in E
    PROVE  /\ SubSeq(Holds(a, old, b), 1, Len(a)) = a
           /\ SubSeq(Holds(a, old, b), Len(a) + 2, Len(a) + 1 + Len(b)) = b
<1> DEFINE t == Holds(a, old, b)
           n == Len(a)
           m == Len(b)
           l == SubSeq(t, 1, n)
           r == SubSeq(t, n + 2, n + 1 + m)
<1>1. n \in Nat /\ m \in Nat
  BY LenProperties
<1>2. Parted(E, a, old, b)
  BY HoldsParts
<1>3. t \in Seq(E) /\ Len(t) = n + 1 + m
      /\ (\A i \in 1..n : t[i] = a[i]) /\ (\A i \in 1..m : t[n + 1 + i] = b[i])
  BY <1>2 DEF Parted
<1> HIDE DEF t, n, m
<1>4. \A i \in 1..n + 1 + m : t[i] \in E
  BY <1>3, ElementOfSeq
<1>5. l = a
  <2>1. \A i \in 1..n : t[i] \in E
    BY <1>1, <1>4
  <2>2. l \in Seq(E) /\ Len(l) = (IF 1 <= n THEN n - 1 + 1 ELSE 0)
        /\ \A i \in 1..n - 1 + 1 : l[i] = t[1 + i - 1]
    BY <1>1, <2>1, SubSeqProperties
  <2>3. Len(l) = n /\ \A i \in 1..n : l[i] = a[i]
    <3> HIDE DEF l
    <3> QED BY <1>1, <1>3, <2>2
  <2> HIDE DEF l
  <2>4. QED BY <2>2, <2>3, SeqEqual DEF n
<1>6. r = b
  <2>1. \A i \in n + 2..n + 1 + m : t[i] \in E
    BY <1>1, <1>4
  <2>2. r \in Seq(E) /\ Len(r) = (IF n + 2 <= n + 1 + m THEN n + 1 + m - (n + 2) + 1 ELSE 0)
        /\ \A i \in 1..n + 1 + m - (n + 2) + 1 : r[i] = t[n + 2 + i - 1]
    BY <1>1, <2>1, SubSeqProperties
  <2> HIDE DEF r
  <2>3. Len(r) = m
    BY <1>1, <2>2
  <2>4. ASSUME NEW i \in 1..m PROVE r[i] = b[i]
    <3>1. r[i] = t[n + 2 + i - 1] /\ n + 2 + i - 1 = n + 1 + i
      BY <1>1, <2>2
    <3>2. QED BY <1>3, <3>1
  <2>5. QED BY <2>2, <2>3, <2>4, SeqEqual DEF m
<1>7. QED BY <1>5, <1>6 DEF t, n, m

LEMMA RemoveFirstIs ==
    ASSUME NEW E, NEW a \in Seq(E), NEW b \in Seq(E), NEW old \in E,
           \A i \in 1..Len(a) : a[i] # old
    PROVE  RemoveFirst(Holds(a, old, b), old) = a \o b
<1> DEFINE t == Holds(a, old, b)
           p == Len(a) + 1
<1>1. Len(a) \in Nat /\ Len(b) \in Nat
  BY LenProperties
<1>2. FirstAt(t, old) = p /\ \E i \in 1..Len(t) : t[i] = old
  BY FirstIs
<1>3. Len(t) = Len(a) + 1 + Len(b)
  BY HoldsParts DEF Parted
<1>4. SubSeq(t, 1, Len(a)) = a /\ SubSeq(t, Len(a) + 2, Len(a) + 1 + Len(b)) = b
  BY PartsAre
<1>5. RemoveFirst(t, old) = SubSeq(t, 1, p - 1) \o SubSeq(t, p + 1, Len(t))
  <2> HIDE DEF t, p
  <2> QED BY <1>2 DEF RemoveFirst, RemoveAt, FirstAt
<1> HIDE DEF t
<1>6. p - 1 = Len(a) /\ p + 1 = Len(a) + 2
  BY <1>1
<1>7. QED BY <1>3, <1>4, <1>5, <1>6 DEF t

-----------------------------------------------------------------------------
(* The amount in a text *)

Cents(n) == <<Digit(n, 10), Digit(n, 1)>>

LEMMA CentsType ==
    ASSUME NEW n \in Nat
    PROVE  /\ Cents(n) \in Seq(Figures) /\ Len(Cents(n)) = 2
           /\ Value(Cents(n)) = 10 * Place(n, 10) + Place(n, 1)
<1> DEFINE e == <<>>
           x == Digit(n, 10)
           y == Digit(n, 1)
<1>1. e \in Seq(Figures) /\ Value(e) = 0
  BY ValueEmpty
<1>2. x \in Figures /\ y \in Figures
  BY DigitMarks
<1>3. <<x, y>> \in Seq(Figures) /\ Len(<<x, y>>) = 2
  <2> HIDE DEF x, y
  <2> QED BY <1>2
<1>4. Append(e, x) \in Seq(Figures) /\ Value(Append(e, x)) = 10 * Value(e) + Place(n, 10)
  <2> HIDE DEF e
  <2> QED BY <1>1, DigitValue
<1> DEFINE a == Append(e, x)
<1>5. Value(Append(a, y)) = 10 * Value(a) + Place(n, 1)
  <2>1. a \in Seq(Figures)
    BY <1>4
  <2> HIDE DEF a
  <2>2. Value(Append(a, Digit(n, 1))) = 10 * Value(a) + Place(n, 1)
    BY <2>1, DigitValue
  <2>3. QED BY <2>2
<1>6. Append(a, y) = <<x, y>>
  <2>1. Pushes(Figures, e, x, y, y)
    <3> HIDE DEF e, x, y
    <3> QED BY <1>1, <1>2, Pushed
  <2>2. e \o <<x, y>> = <<x, y>>
    <3> HIDE DEF x, y
    <3> QED BY <1>3, ConcatEmptySeq
  <2> HIDE DEF e, x, y
  <2>3. QED BY <2>1, <2>2 DEF Pushes, Push
<1>7. Place(n, 10) \in Nat /\ Place(n, 1) \in Nat
  BY Places
<1>8. Cents(n) = <<x, y>>
  BY DEF Cents
<1> HIDE DEF a, e, x, y
<1>9. Value(<<x, y>>) = 10 * Place(n, 10) + Place(n, 1)
  BY <1>1, <1>4, <1>5, <1>6, <1>7 DEF a
<1>10. QED BY <1>3, <1>8, <1>9

LEMMA NoneIn ==
    ASSUME NEW w \in Seq(Figures)
    PROVE  /\ w \in Seq(Marks)
           /\ \A i \in 1..Len(w) : w[i] # "."
           /\ \A i \in 1..Len(w) : w[i] # ","
<1>1. \A i \in 1..Len(w) : w[i] \in Figures
  BY ElementOfSeq
<1>2. Figures \subseteq Marks
  BY DEF Marks
<1>3. w \in Seq(Marks)
  BY <1>2, SeqMonotonic
<1>4. QED BY <1>1, <1>3, FigureIsDigit

LEMMA AmountParsed ==
    ASSUME NEW w \in Seq(Figures), NEW n \in Nat
    PROVE  ParseFloat(ReplaceFirst(Holds(w, ",", Cents(n)), ",", ".")) =
             100 * Value(w) + 10 * Place(n, 10) + Place(n, 1)
<1> DEFINE c == Cents(n)
           comma == ","
           point == "."
           t == Holds(w, point, c)
<1>1. c \in Seq(Figures) /\ Len(c) = 2 /\ Value(c) = 10 * Place(n, 10) + Place(n, 1)
  BY CentsType
<1>2. w \in Seq(Marks) /\ c \in Seq(Marks)
      /\ (\A i \in 1..Len(w) : w[i] # point) /\ (\A i \in 1..Len(w) : w[i] # comma)
  BY <1>1, NoneIn
<1>3. comma \in Marks /\ point \in Marks
  BY DEF Marks
<1> HIDE DEF c, comma, point
<1>4. ReplaceFirst(Holds(w, comma, c), comma, point) = t
  BY <1>2, <1>3, ReplaceFirstIs
<1>5. FirstAt(t, point) = Len(w) + 1
  BY <1>2, <1>3, FirstIs
<1>6. SubSeq(t, 1, Len(w)) = w /\ SubSeq(t, Len(w) + 2, Len(w) + 1 + Len(c)) = c
  BY <1>2, <1>3, PartsAre
<1> DEFINE p == Len(w) + 1
<1>7. ParseFloat(t) = 100 * Value(SubSeq(t, 1, p - 1)) + Value(SubSeq(t, p + 1, p + 2))
  <2> HIDE DEF t, p
  <2> QED BY <1>5 DEF ParseFloat, FirstAt, point, p
<1>8. Len(w) \in Nat
  BY LenProperties
<1>9. p - 1 = Len(w) /\ p + 1 = Len(w) + 2 /\ p + 2 = Len(w) + 1 + Len(c)
  BY <1>1, <1>8
<1>10. ParseFloat(t) = 100 * Value(w) + Value(c)
  <2> HIDE DEF t, p
  <2> QED BY <1>6, <1>7, <1>9
<1>11. Value(w) \in Nat /\ Place(n, 10) \in Nat /\ Place(n, 1) \in Nat
  <2>1. Value(w) \in Nat
    BY ValueAppend
  <2>2. QED BY <2>1, Places
<1> HIDE DEF t
<1>12. ParseFloat(t) = 100 * Value(w) + 10 * Place(n, 10) + Place(n, 1)
  BY <1>1, <1>10, <1>11
<1>13. QED BY <1>4, <1>12 DEF c, comma, point

LEMMA CommaCents ==
    ASSUME NEW n \in Nat
    PROVE  <<",">> \o Cents(n) = <<",", Digit(n, 10), Digit(n, 1)>>
<1> DEFINE p == ","
           x == Digit(n, 10)
           y == Digit(n, 1)
<1>1. p \in Marks /\ x \in Marks /\ y \in Marks
  BY DigitMarks DEF Marks
<1>2. <<p>> \o <<x, y>> = <<p, x, y>>
  <2> HIDE DEF p, x, y
  <2>1. <<p>> \in Seq(Marks) /\ <<p, x, y>> = Append(Append(<<p>>, x), y)
    BY <1>1
  <2>2. Pushes(Marks, <<p>>, x, y, y)
    BY <1>1, <2>1, Pushed
  <2>3. QED BY <2>1, <2>2 DEF Pushes, Push
<1>3. QED BY <1>2 DEF Cents

LEMMA BankTextIs ==
    ASSUME NEW n \in Nat
    PROVE  BankText(n) = Holds(Whole[n \div 100], ",", Cents(n))
BY CommaCents DEF BankText, Holds

LEMMA ParsedText ==
    ASSUME NEW n \in Nat
    PROVE  Without(BankText(n), {"."}) = Holds(Plain(Whole[n \div 100]), ",", Cents(n))
<1> DEFINE w == Whole[n \div 100]
           p == ","
           x == Digit(n, 10)
           y == Digit(n, 1)
           a == Append(w, p)
           b == Append(a, x)
<1>1. n \div 100 \in Nat
  BY PlacesSum
<1>2. w \in Seq(Marks) /\ Plain(w) \in Seq(Figures)
  BY <1>1, WholeIs, WholeValue
<1>3. x \in Figures /\ y \in Figures /\ x \in Marks /\ y \in Marks
  BY DigitMarks
<1>4. p \in Marks /\ p \notin {"."}
  BY DEF Marks
<1>5. a \in Seq(Marks) /\ Plain(a) = Append(Plain(w), p)
  <2> DEFINE d == {"."}
  <2>1. p \notin d
    BY <1>4
  <2> HIDE DEF w, p, d
  <2>2. a \in Seq(Marks)
    BY <1>2, <1>4, AppendProperties
  <2>3. Without(a, d) = Append(Without(w, d), p)
    BY <1>2, <1>4, <2>1, WithoutAppend
  <2>4. QED BY <2>2, <2>3 DEF Plain, d
<1>6. b \in Seq(Marks) /\ Plain(b) = Append(Plain(a), x)
  <2> HIDE DEF a, x
  <2> QED BY <1>3, <1>5, PlainAppend
<1>7. Plain(Append(b, y)) = Append(Plain(b), y)
  <2> HIDE DEF b, y
  <2> QED BY <1>3, <1>6, PlainAppend
<1>8. Plain(w) \in Seq(Marks)
  BY <1>2, NoneIn
<1> DEFINE v == Plain(w)
<1>9. Pushes(Marks, w, p, x, y) /\ Pushes(Marks, v, p, x, y)
  <2> HIDE DEF v, w, p, x, y
  <2> QED BY <1>2, <1>3, <1>4, <1>8, Pushed DEF v
<1> HIDE DEF v
<1>10. BankText(n) = Append(b, y)
  <2>1. BankText(n) = w \o <<p, x, y>>
    BY DEF BankText
  <2> HIDE DEF w, p, x, y
  <2>2. QED BY <1>9, <2>1 DEF Pushes, Push
<1>11. v \o <<p, x, y>> = Append(Append(Append(v, p), x), y)
  <2> HIDE DEF w, p, x, y
  <2> QED BY <1>9 DEF Pushes, Push
<1>13. Plain(BankText(n)) = Append(Append(Append(v, p), x), y)
  <2> HIDE DEF w, p, x, y
  <2> QED BY <1>5, <1>6, <1>7, <1>10 DEF v
<1>14. QED BY <1>11, <1>13, CommaCents DEF Plain, Holds, v

\* What the dashboard cuts out of an amount below a million is its one point.
LEMMA CutText ==
    ASSUME NEW n \in Nat, n < 100 * Million
    PROVE  RemoveFirst(BankText(n), ".") = Holds(Plain(Whole[n \div 100]), ",", Cents(n))
<1> DEFINE q == n \div 100
           r == q \div 1000
           point == "."
           comma == ","
           c == <<comma>> \o Cents(n)
<1>1. q \in Nat /\ r \in Nat /\ r < 1000
  <2>1. q \in Nat /\ r < 1000
    BY PlacesSum, BelowMillion
  <2> HIDE DEF q
  <2>2. QED BY <2>1, PlacesSum
<1>2. Figures \subseteq Marks /\ point \in Marks /\ comma \in Marks /\ comma # point
  BY DEF Marks
<1>3. c \in Seq(Marks) /\ Cents(n) \in Seq(Figures) /\ Cents(n) \in Seq(Marks)
  <2>1. Cents(n) \in Seq(Figures) /\ Cents(n) \in Seq(Marks)
    BY CentsType, NoneIn
  <2>2. <<comma>> \in Seq(Marks)
    <3>1. comma \in Marks
      BY <1>2
    <3> HIDE DEF comma
    <3>2. QED BY <3>1
  <2>3. QED BY <2>1, <2>2, ConcatProperties
<1>4. BankText(n) = Whole[q] \o c
  BY BankTextIs DEF Holds
<1> HIDE DEF q, r
<1>5. ASSUME q < 1000
      PROVE  RemoveFirst(BankText(n), point) = Plain(Whole[q]) \o c
  <2>1. Whole[q] = Short(q) /\ Plain(Whole[q]) = Short(q)
    BY <1>1, <1>5, PlainWhole
  <2> DEFINE w == Short(q)
             t == Holds(w, comma, Cents(n))
  <2>2. w \in Seq(Figures)
    BY <1>1, ShortType
  <2>3. w \in Seq(Marks) /\ (\A i \in 1..Len(w) : w[i] # point)
    BY <2>2, NoneIn
  <2>4. \A i \in 1..Len(Cents(n)) : Cents(n)[i] # point
    BY <1>3, NoneIn
  <2>5. Len(w) \in Nat /\ Len(Cents(n)) \in Nat
    BY <1>3, <2>3, LenProperties
  <2>6. Parted(Marks, w, comma, Cents(n))
    <3> HIDE DEF w, comma
    <3> QED BY <1>2, <1>3, <2>3, HoldsParts
  <2>7. ASSUME NEW i \in 1..Len(t) PROVE t[i] # point
    <3> HIDE DEF w, comma, point, t
    <3>1. Len(t) = Len(w) + 1 + Len(Cents(n))
          /\ (\A j \in 1..Len(w) : t[j] = w[j]) /\ t[Len(w) + 1] = comma
          /\ (\A j \in 1..Len(Cents(n)) : t[Len(w) + 1 + j] = Cents(n)[j])
      BY <2>6 DEF Parted, t
    <3>2. CASE i <= Len(w)
      BY <2>3, <2>5, <3>1, <3>2
    <3>3. CASE i = Len(w) + 1
      BY <1>2, <3>1, <3>3
    <3>4. CASE i > Len(w) + 1
      <4>1. i - (Len(w) + 1) \in 1..Len(Cents(n)) /\ Len(w) + 1 + (i - (Len(w) + 1)) = i
        BY <2>5, <3>1, <3>4
      <4>2. QED BY <2>4, <3>1, <4>1
    <3>5. i \in Int
      OBVIOUS
    <3>6. QED BY <2>5, <3>2, <3>3, <3>4, <3>5
  <2>8. RemoveFirst(t, point) = t
    <3> HIDE DEF t, point
    <3> QED BY <2>7 DEF RemoveFirst
  <2>9. t = w \o c
    BY DEF Holds
  <2>10. BankText(n) = t
    <3> HIDE DEF t, w, c
    <3> QED BY <1>4, <2>1, <2>9 DEF w
  <2> HIDE DEF t, w, c, point
  <2>11. Plain(Whole[q]) = w
    BY <2>1 DEF w
  <2>12. QED BY <2>8, <2>9, <2>10, <2>11
<1>6. ASSUME q >= 1000
      PROVE  RemoveFirst(BankText(n), point) = Plain(Whole[q]) \o c
  <2> DEFINE w == Short(r)
             d == Three(q)
  <2>1. w \in Seq(Figures) /\ d \in Seq(Figures)
    BY <1>1, ShortType
  <2>2. w \in Seq(Marks) /\ d \in Seq(Marks) /\ (\A i \in 1..Len(w) : w[i] # point)
    BY <2>1, NoneIn
  <2>3. Whole[r] = w /\ Plain(w) = w
    BY <1>1, PlainWhole, ShortValue
  <2>4. Whole[q] = w \o (<<point>> \o d)
    <3>1. Grown(Whole, q) /\ Whole[q] = Grow(Whole, q)
      BY <1>1, GrowIs, WholeIs
    <3>2. Whole[q] = Whole[r] \o (<<point>> \o d)
      BY ZenonT(30), <1>6, <3>1 DEF Grown, r
    <3>3. QED BY <2>3, <3>2
  <2>5. Plain(Whole[q]) = w \o d
    <3>1. Plain(Whole[q]) = Thousand(Plain(Whole[r]), q)
      BY <1>1, <1>6, PlainWhole DEF r
    <3>2. w \o d = Thousand(w, q)
      <4> HIDE DEF w
      <4> QED BY <1>1, <2>1, ThousandIs
    <3>3. QED BY <2>3, <3>1, <3>2
  <2> HIDE DEF w, d, c, point
  <2>6. d \o c \in Seq(Marks) /\ <<point>> \in Seq(Marks) /\ <<point>> \o d \in Seq(Marks)
    <3>1. <<point>> \in Seq(Marks)
      <4>1. point \in Marks
        BY <1>2
      <4>2. QED BY <4>1, SingleType
    <3>2. <<point>> \o d \in Seq(Marks)
      BY <2>2, <3>1, ConcatProperties
    <3>3. d \o c \in Seq(Marks)
      BY <1>3, <2>2, ConcatProperties
    <3>4. QED BY <3>1, <3>2, <3>3
  <2>7. (w \o (<<point>> \o d)) \o c = w \o ((<<point>> \o d) \o c)
    <3> DEFINE u == <<point>> \o d
    <3>1. u \in Seq(Marks)
      BY <2>6
    <3> HIDE DEF u
    <3>2. (w \o u) \o c = w \o (u \o c)
      BY SMTT(20), <1>3, <2>2, <3>1, ConcatAssociative
    <3>3. QED BY <3>2 DEF u
  <2>8. (<<point>> \o d) \o c = <<point>> \o (d \o c)
    BY <1>3, <2>2, <2>6, ConcatAssociative
  <2>9. BankText(n) = Holds(w, point, d \o c)
    BY <1>4, <2>4, <2>7, <2>8 DEF Holds
  <2>10. RemoveFirst(Holds(w, point, d \o c), point) = w \o (d \o c)
    BY <1>2, <2>2, <2>6, RemoveFirstIs
  <2>11. (w \o d) \o c = w \o (d \o c)
    BY SMTT(20), <1>3, <2>2, ConcatAssociative
  <2>12. QED BY <2>5, <2>9, <2>10, <2>11
<1>7. q < 1000 \/ q >= 1000
  BY <1>1
<1>8. RemoveFirst(BankText(n), point) = Plain(Whole[q]) \o c
  <2> HIDE DEF c, point
  <2> QED BY <1>5, <1>6, <1>7
<1>9. QED BY <1>8 DEF Holds, q, c, point, comma

\* What is read of a text is what it says.
LEMMA TextRead ==
    ASSUME NEW n \in Nat
    PROVE  /\ ParseFloat(ParseAmount(BankText(n))) = n
           /\ n < 100 * Million => ParseFloat(Cleaned(BankText(n))) = n
<1> DEFINE q == n \div 100
           w == Plain(Whole[q])
           t == Holds(w, ",", Cents(n))
<1>1. q \in Nat /\ n = 100 * q + 10 * Place(n, 10) + Place(n, 1)
  BY PlacesSum
<1>2. w \in Seq(Figures) /\ Value(w) = q
  <2> HIDE DEF q
  <2> QED BY <1>1, WholeValue
<1>3. ParseFloat(ReplaceFirst(t, ",", ".")) = n
  <2> HIDE DEF w
  <2>1. ParseFloat(ReplaceFirst(t, ",", ".")) = 100 * Value(w) + 10 * Place(n, 10) + Place(n, 1)
    BY <1>2, AmountParsed
  <2> HIDE DEF q, t
  <2>2. QED BY <1>1, <1>2, <2>1
<1>4. Without(BankText(n), {"."}) = t
  BY ParsedText
<1>5. ASSUME n < 100 * Million PROVE RemoveFirst(BankText(n), ".") = t
  BY <1>5, CutText
<1> HIDE DEF t
<1>6. ParseAmount(BankText(n)) = ReplaceFirst(t, ",", ".")
  BY <1>4 DEF ParseAmount
<1>7. ASSUME n < 100 * Million PROVE ParseFloat(Cleaned(BankText(n))) = n
  <2>1. Cleaned(BankText(n)) = ReplaceFirst(t, ",", ".")
    BY <1>5, <1>7 DEF Cleaned
  <2>2. QED BY <1>3, <2>1
<1>8. QED BY <1>3, <1>6, <1>7

(***************************************************************************)
(* For any amounts: what parseAmount makes of a bank's text is the amount, *)
(* in cents, and so is what the dashboard's cleaning makes of it as long   *)
(* as the text has one point at most, which is below a million.            *)
(***************************************************************************)
THEOREM RowsAmounts == RowsSpec => []AmountsRead
<1>1. RowsInit => AmountsRead
  BY DEF RowsInit, AmountsRead
<1>2. AmountsRead /\ [RowsNext]_<<map, row>> => AmountsRead'
  <2> SUFFICES ASSUME AmountsRead, [RowsNext]_<<map, row>> PROVE AmountsRead'
    OBVIOUS
  <2>1. ASSUME NEW n \in Written, ReadText(n) PROVE AmountsRead'
    <3>1. n \in Nat
      BY RowsAssumption
    <3>2. row'.written = n /\ row'.captured = ParseFloat(ParseAmount(BankText(n)))
          /\ row'.shown = ParseFloat(Cleaned(BankText(n)))
      BY <2>1 DEF ReadText
    <3>3. QED BY <3>1, <3>2, TextRead DEF AmountsRead
  <2>2. ASSUME UNCHANGED row PROVE AmountsRead'
    BY <2>2 DEF AmountsRead
  <2>3. QED BY <2>1, <2>2 DEF RowsNext, Learn
<1>3. QED BY <1>1, <1>2, PTL DEF RowsSpec

-----------------------------------------------------------------------------
(***************************************************************************)
(* THE NAMES                                                               *)
(*                                                                         *)
(* A variant is a name with more after it.  Stripping suffixes cuts it at  *)
(* its end or after a space, and a name is cut where a word ends; of two   *)
(* cuts the words of the shorter are the first words of the longer.  So of *)
(* a name and its variant the one continues the other after a space, which *)
(* is a match, and a match scores above nothing.                           *)
(***************************************************************************)

\* Induction over sequences, for a set that is given.
LEMMA SeqInduction ==
    ASSUME NEW E, NEW K, <<>> \in K,
           \A s \in Seq(E), x \in E : s \in K => Append(s, x) \in K
    PROVE  \A s \in Seq(E) : s \in K
<1> SUFFICES ASSUME NEW s \in Seq(E) PROVE s \in K
  OBVIOUS
<1> DEFINE n == Len(s)
           part(i) == SubSeq(s, 1, i)
           M == {i \in 0..n : part(i) \in K}
<1>1. n \in Nat
  BY LenProperties
<1>2. \A i \in 0..n : part(i) \in Seq(E) /\ Len(part(i)) = i /\ \A j \in 1..i : part(i)[j] = s[j]
  <2> SUFFICES ASSUME NEW i \in 0..n
               PROVE  part(i) \in Seq(E) /\ Len(part(i)) = i /\ \A j \in 1..i : part(i)[j] = s[j]
    OBVIOUS
  <2>1. \A j \in 1..i : j \in 1..n
    <3> HIDE DEF n
    <3> QED BY <1>1
  <2>2. \A j \in 1..i : s[j] \in E
    BY <2>1, ElementOfSeq
  <2>3. QED BY <1>1, <2>2, SubSeqProperties
<1>3. 0 \in M
  <2>1. 0 \in 0..n
    BY <1>1
  <2>2. part(0) = <<>>
    BY <1>2, <2>1, EmptySeq
  <2>3. QED BY <2>1, <2>2
<1>4. ASSUME NEW i \in 1..n, i - 1 \in M PROVE i \in M
  <2>1. i \in 0..n /\ i - 1 \in 0..n /\ i - 1 + 1 = i /\ s[i] \in E
    BY <1>1, ElementOfSeq
  <2>2. part(i) = Append(part(i - 1), s[i])
    <3> DEFINE p == part(i - 1)
    <3>1. p \in Seq(E) /\ Len(p) = i - 1 /\ \A j \in 1..i - 1 : p[j] = s[j]
      BY <1>2, <2>1
    <3>2. part(i) \in Seq(E) /\ Len(part(i)) = i /\ \A j \in 1..i : part(i)[j] = s[j]
      BY <1>2, <2>1
    <3> DEFINE q == part(i)
    <3> HIDE DEF p, q, part
    <3>3. Append(p, s[i]) \in Seq(E) /\ Len(Append(p, s[i])) = i
          /\ \A j \in 1..i : Append(p, s[i])[j] = s[j]
      BY <2>1, <3>1, AppendProperties
    <3>4. q = Append(p, s[i])
      BY <3>2, <3>3, SeqEqual DEF q
    <3>5. QED BY <3>4 DEF p, q
  <2>3. part(i - 1) \in K /\ part(i - 1) \in Seq(E)
    BY <1>2, <1>4, <2>1
  <2>4. part(i) \in K
    BY <2>1, <2>2, <2>3
  <2>5. QED BY <2>1, <2>4
<1>5. \A i \in 0..n : i \in M
  <2> HIDE DEF M, n
  <2> QED BY <1>1, <1>3, <1>4, UpTo
<1>6. part(n) \in K
  <2>1. n \in 0..n
    BY <1>1
  <2>2. QED BY <1>5, <2>1
<1>7. part(n) = s
  <2>1. n \in 0..n
    BY <1>1
  <2> DEFINE q == part(n)
  <2>2. q \in Seq(E) /\ Len(q) = n /\ \A j \in 1..n : q[j] = s[j]
    BY <1>2, <2>1
  <2> HIDE DEF q, part
  <2>3. q = s
    BY <2>2, SeqEqual
  <2>4. QED BY <2>3 DEF q
<1>8. QED BY <1>6, <1>7

LEMMA WithoutConcat ==
    ASSUME NEW E, NEW s \in Seq(E), NEW dropped
    PROVE  \A t \in Seq(E) : Without(s \o t, dropped) = Without(s, dropped) \o Without(t, dropped)
<1> DEFINE w(t) == Without(t, dropped)
           K == {t \in Seq(E) : w(s \o t) = w(s) \o w(t)}
           e == <<>>
<1>1. \A t \in Seq(E) : w(t) \in Seq(E)
  BY WithoutType
<1>2. e \in K
  <2>1. e \in Seq(E) /\ s \o e = s
    BY EmptySeq, ConcatEmptySeq
  <2>2. w(e) = e
    BY WithoutEmpty
  <2>3. w(s) \o e = w(s)
    <3> HIDE DEF w
    <3> QED BY <1>1, ConcatEmptySeq
  <2> HIDE DEF e, w
  <2>4. QED BY <2>1, <2>2, <2>3
<1>3. ASSUME NEW t \in Seq(E), NEW x \in E, t \in K
      PROVE  Append(t, x) \in K
  <2>1. s \o t \in Seq(E) /\ s \o Append(t, x) = Append(s \o t, x) /\ Append(t, x) \in Seq(E)
    BY ConcatProperties, ConcatAppend
  <2>2. w(Append(s \o t, x)) = IF x \in dropped THEN w(s \o t) ELSE Append(w(s \o t), x)
    <3> DEFINE u == s \o t
    <3> HIDE DEF u
    <3>1. u \in Seq(E)
      BY <2>1 DEF u
    <3>2. w(Append(u, x)) = IF x \in dropped THEN w(u) ELSE Append(w(u), x)
      BY <3>1, WithoutAppend
    <3>3. QED BY <3>2 DEF u
  <2>3. w(Append(t, x)) = IF x \in dropped THEN w(t) ELSE Append(w(t), x)
    BY WithoutAppend
  <2> HIDE DEF w
  <2>4. w(s) \o Append(w(t), x) = Append(w(s) \o w(t), x)
    BY <1>1, ConcatAppend
  <2>5. w(s \o t) = w(s) \o w(t)
    BY <1>3
  <2>6. w(s \o Append(t, x)) = w(s) \o w(Append(t, x))
    BY <2>1, <2>2, <2>3, <2>4, <2>5
  <2>7. QED BY <2>1, <2>6
<1>4. \A t \in Seq(E) : t \in K
  <2> HIDE DEF K
  <2> QED BY <1>2, <1>3, SeqInduction
<1>5. QED BY <1>4

LEMMA NextLetterConcat ==
    ASSUME NEW ws \in Seq(Text), NEW vs \in WordLists, NEW x \in Characters
    PROVE  /\ ws \o vs \in WordLists
           /\ NextLetter(ws \o vs, x) = ws \o NextLetter(vs, x)
<1> DEFINE both == ws \o vs
           next == NextLetter(vs, x)
           l == NextLetter(both, x)
           r == ws \o next
           n == Len(ws)
           m == Len(vs)
<1>1. vs \in Seq(Text) /\ m \in Nat \ {0} /\ n \in Nat
  BY EmptySeq, LenProperties DEF WordLists
<1>2. /\ both \in Seq(Text) /\ Len(both) = n + m
      /\ \A i \in 1..n + m : both[i] = IF i <= n THEN ws[i] ELSE vs[i - n]
  BY <1>1, ConcatProperties
<1>3. both \in WordLists
  <2> HIDE DEF both
  <2> QED BY <1>1, <1>2, EmptySeq DEF WordLists
<1>4. /\ next \in Seq(Text) /\ Len(next) = m
      /\ \A i \in 1..m : next[i] = IF i = m THEN Append(vs[i], x) ELSE vs[i]
  <2>1. /\ next \in WordLists /\ Len(next) = m
        /\ \A i \in 1..m : next[i] = IF i = m THEN Append(vs[i], x) ELSE vs[i]
    BY NextLetterIs
  <2>2. QED BY <2>1 DEF WordLists
<1>5. /\ l \in Seq(Text) /\ Len(l) = n + m
      /\ \A i \in 1..n + m : l[i] = IF i = n + m THEN Append(both[i], x) ELSE both[i]
  <2> HIDE DEF both
  <2>1. /\ l \in WordLists /\ Len(l) = Len(both)
        /\ \A i \in 1..Len(both) : l[i] = IF i = Len(both) THEN Append(both[i], x) ELSE both[i]
    BY <1>3, NextLetterIs
  <2>2. l \in Seq(Text)
    BY <2>1 DEF WordLists
  <2>3. Len(both) = n + m
    BY <1>2
  <2> HIDE DEF l, n, m
  <2>4. QED BY <2>1, <2>2, <2>3
<1>6. /\ r \in Seq(Text) /\ Len(r) = n + m
      /\ \A i \in 1..n + m : r[i] = IF i <= n THEN ws[i] ELSE next[i - n]
  <2> HIDE DEF next
  <2>1. /\ r \in Seq(Text) /\ Len(r) = Len(ws) + Len(next)
        /\ \A i \in 1..Len(ws) + Len(next) : r[i] = IF i <= Len(ws) THEN ws[i] ELSE next[i - Len(ws)]
    BY <1>4, ConcatProperties
  <2> HIDE DEF r
  <2>2. QED BY <1>4, <2>1
<1> HIDE DEF both, next, l, r, n, m
<1>7. ASSUME NEW i \in 1..n + m PROVE l[i] = r[i]
  <2>1. CASE i <= n
    BY <1>1, <1>2, <1>5, <1>6, <2>1
  <2>2. CASE i > n
    <3>1. i - n \in 1..m /\ (i = n + m <=> i - n = m)
      BY <1>1, <2>2
    <3>2. both[i] = vs[i - n] /\ r[i] = next[i - n]
      BY <1>1, <1>2, <1>6, <2>2
    <3>3. QED BY <1>4, <1>5, <3>1, <3>2
  <2>3. QED BY <1>1, <2>1, <2>2
<1>8. l = r
  BY <1>5, <1>6, <1>7, SeqEqual
<1>9. QED BY <1>3, <1>8 DEF both, l, r, next

\* The words before a space, and those after it.
LEMMA WordsParts ==
    ASSUME NEW s \in Text
    PROVE  \A t \in Text : Words(Append(s, " ") \o t) = Words(s) \o Words(t)
<1> DEFINE p == Append(s, " ")
           K == {t \in Text : Words(p \o t) = Words(s) \o Words(t)}
           e == <<>>
<1>0. " " \in Characters
  BY RowsAssumption
<1>1. p \in Text /\ e \in Text
  <2>1. p \in Text
    BY <1>0, AppendProperties DEF Text
  <2>2. QED BY <2>1, EmptySeq DEF Text
<1>2. Words(s) \in Seq(Text) /\ Words(p) = Append(Words(s), e) /\ Words(e) = <<e>>
  BY <1>0, WordsAppend DEF WordLists
<1> HIDE DEF p
<1>3. e \in K
  <2>1. p \o e = p
    BY <1>1, ConcatEmptySeq DEF Text
  <2>2. Append(Words(s), e) = Words(s) \o <<e>>
    <3> HIDE DEF e
    <3> QED BY <1>1, <1>2, AppendIsConcat
  <2> HIDE DEF e
  <2>3. QED BY <1>1, <1>2, <2>1, <2>2
<1>4. ASSUME NEW t \in Text, NEW x \in Characters, t \in K
      PROVE  Append(t, x) \in K
  <2> DEFINE ws == Words(s)
             vs == Words(t)
  <2>1. p \o t \in Text /\ p \o Append(t, x) = Append(p \o t, x) /\ Append(t, x) \in Text
    BY <1>1, ConcatProperties, ConcatAppend DEF Text
  <2>2. Words(p \o t) = ws \o vs
    BY <1>4
  <2>3. vs \in WordLists
    BY WordsAppend
  <2>4. Words(Append(p \o t, x)) =
          IF x = " " THEN Append(Words(p \o t), e) ELSE NextLetter(Words(p \o t), x)
    BY <2>1, WordsAppend
  <2>5. Words(Append(t, x)) = IF x = " " THEN Append(vs, e) ELSE NextLetter(vs, x)
    BY WordsAppend
  <2> HIDE DEF ws, vs, e
  <2>6. NextLetter(ws \o vs, x) = ws \o NextLetter(vs, x)
    BY <1>2, <2>3, NextLetterConcat DEF ws
  <2>7. ws \o Append(vs, e) = Append(ws \o vs, e)
    <3>1. ws \in Seq(Text) /\ vs \in Seq(Text)
      BY <1>2, <2>3 DEF ws, WordLists
    <3>2. e \in Text
      BY <1>1
    <3>3. QED BY <3>1, <3>2, ConcatAppend
  <2>8. Words(p \o Append(t, x)) = ws \o Words(Append(t, x))
    BY <2>1, <2>2, <2>4, <2>5, <2>6, <2>7
  <2>9. QED BY <2>1, <2>8 DEF ws
<1>5. \A t \in Text : t \in K
  <2> HIDE DEF K, e
  <2> QED BY <1>3, <1>4, SeqInduction DEF Text, e
<1>6. QED BY <1>5 DEF p

-----------------------------------------------------------------------------
\* The words that the normalization leaves of a text.
Left(t) == Without(Words(Without(t, {"."})), Seq(Digits))

LEMMA LeftType ==
    ASSUME NEW t \in Text
    PROVE  Left(t) \in Seq(Text)
<1>1. Without(t, {"."}) \in Text
  BY WithoutType DEF Text
<1>2. Words(Without(t, {"."})) \in Seq(Text)
  BY <1>1, WordsType
<1>3. QED BY <1>2, WithoutType DEF Left

LEMMA LeftEmpty == Left(<<>>) = <<>>
<1> DEFINE e == <<>>
           d == Seq(Digits)
<1>1. e \in Text /\ e \in d /\ " " \in Characters
  BY EmptySeq, RowsAssumption DEF Text
<1>2. Without(e, {"."}) = e
  BY WithoutEmpty
<1>3. Words(e) = <<e>> /\ <<e>> = Append(e, e)
  <2>1. Words(e) = <<e>>
    BY <1>1, WordsAppend, Zenon
  <2>2. <<e>> = Append(e, e)
    OBVIOUS
  <2>3. QED BY <2>1, <2>2
<1>4. e \in Seq(Text)
  BY EmptySeq
<1>5. Without(Append(e, e), d) = Without(e, d)
  <2>1. Without(Append(e, e), d) = IF e \in d THEN Without(e, d) ELSE Append(Without(e, d), e)
    <3> HIDE DEF e, d
    <3> QED BY <1>1, <1>4, WithoutAppend
  <2>2. QED BY <1>1, <2>1
<1>6. Without(e, d) = e
  BY WithoutEmpty
<1> HIDE DEF e, d
<1>7. QED BY <1>2, <1>3, <1>5, <1>6 DEF Left, e, d

LEMMA HoldsAppend ==
    ASSUME NEW E, NEW s \in Seq(E), NEW x \in E, NEW t \in Seq(E)
    PROVE  Holds(s, x, t) = Append(s, x) \o t /\ Append(s, x) \in Seq(E)
<1> DEFINE one == <<x>>
<1>1. one \in Seq(E) /\ Append(s, x) = s \o one
  BY AppendIsConcat
<1> HIDE DEF one
<1>2. (s \o one) \o t = s \o (one \o t)
  BY <1>1, ConcatAssociative
<1>3. Append(s, x) \in Seq(E)
  BY AppendProperties
<1>4. QED BY <1>1, <1>2, <1>3 DEF Holds, one

LEMMA WithoutHolds ==
    ASSUME NEW E, NEW s \in Seq(E), NEW x \in E, NEW t \in Seq(E), NEW dropped, x \notin dropped
    PROVE  Without(Holds(s, x, t), dropped) = Holds(Without(s, dropped), x, Without(t, dropped))
<1> DEFINE w(u) == Without(u, dropped)
<1>1. Holds(s, x, t) = Append(s, x) \o t /\ Append(s, x) \in Seq(E)
  BY HoldsAppend
<1>2. w(s) \in Seq(E) /\ w(t) \in Seq(E)
  BY WithoutType
<1>3. w(Append(s, x)) = Append(w(s), x)
  BY WithoutAppend
<1>4. w(Append(s, x) \o t) = w(Append(s, x)) \o w(t)
  <2> DEFINE u == Append(s, x)
  <2> HIDE DEF u
  <2>1. u \in Seq(E)
    BY <1>1 DEF u
  <2>2. w(u \o t) = w(u) \o w(t)
    BY <2>1, WithoutConcat
  <2>3. QED BY <2>2 DEF u
<1> HIDE DEF w
<1>5. Holds(w(s), x, w(t)) = Append(w(s), x) \o w(t)
  BY <1>2, HoldsAppend
<1>6. QED BY <1>1, <1>3, <1>4, <1>5 DEF w

LEMMA LeftParts ==
    ASSUME NEW s \in Text, NEW t \in Text
    PROVE  Left(Holds(s, " ", t)) = Left(s) \o Left(t)
<1> DEFINE sp == " "
           pts == {"."}
           figs == Seq(Digits)
           a == Without(s, pts)
           b == Without(t, pts)
<1>1. sp \in Characters /\ sp \notin pts
  BY RowsAssumption
<1> HIDE DEF pts, figs
<1>2. a \in Text /\ b \in Text
  BY WithoutType DEF Text
<1>3. Without(Holds(s, sp, t), pts) = Holds(a, sp, b)
  <2> HIDE DEF sp
  <2> QED BY <1>1, WithoutHolds DEF Text
<1> HIDE DEF a, b
<1>4. Holds(a, sp, b) = Append(a, sp) \o b
  <2> HIDE DEF sp
  <2> QED BY <1>1, <1>2, HoldsAppend DEF Text
<1>5. Words(Append(a, sp) \o b) = Words(a) \o Words(b)
  BY <1>2, WordsParts
<1> DEFINE ws == Words(a)
           vs == Words(b)
<1>6. ws \in Seq(Text) /\ vs \in Seq(Text)
  BY <1>2, WordsType
<1> HIDE DEF ws, vs
<1>7. Without(ws \o vs, figs) = Without(ws, figs) \o Without(vs, figs)
  BY <1>6, WithoutConcat
<1>8. Left(Holds(s, sp, t)) = Without(Words(Without(Holds(s, sp, t), pts)), figs)
      /\ Left(s) = Without(ws, figs) /\ Left(t) = Without(vs, figs)
  BY DEF Left, pts, figs, ws, vs, a, b
<1>9. Left(Holds(s, sp, t)) = Without(ws \o vs, figs)
  BY <1>3, <1>4, <1>5, <1>8 DEF ws, vs
<1>10. QED BY <1>7, <1>8, <1>9

\* A text is cut at its end, or before or after a space.
Ends(t, k) ==
    \/ k = Len(t)
    \/ k > 0 /\ t[k] = " "
    \/ k < Len(t) /\ t[k + 1] = " "

Between(n, k, b) ==
    /\ k - 1 \in 0..n /\ k \in Int /\ b \in Int /\ (k - 1) + 1 = k /\ k + 1 \in Int
    /\ 1 \in 1..n + 1 /\ k - 1 \in 1 - 1..n /\ b \in k - 1..n /\ b \in k..n /\ k \in 1..n
    /\ \A i \in k + 1..b : i \in 1..n

LEMMA BetweenIs ==
    ASSUME NEW n \in Nat, NEW k \in 1..n, NEW b \in k..n
    PROVE  Between(n, k, b)
BY DEF Between

LEMMA LeftAt ==
    ASSUME NEW t \in Text, NEW k \in 1..Len(t), t[k] = " ", NEW b \in k..Len(t)
    PROVE  /\ SubSeq(t, k + 1, b) \in Text
           /\ Left(Start(t, b)) = Left(Start(t, k - 1)) \o Left(SubSeq(t, k + 1, b))
<1> DEFINE n == Len(t)
           s == Start(t, k - 1)
           r == SubSeq(t, k + 1, b)
<1>1. n \in Nat /\ t \in Seq(Characters)
  BY LenProperties DEF Text
<1>2. Between(n, k, b)
  BY <1>1, BetweenIs
<1> HIDE DEF n
<1>3. s \in Text
  BY <1>2, StartType DEF n, Between
<1>4. r \in Text
  <2>1. \A i \in k + 1..b : t[i] \in Characters
    BY <1>1, <1>2, ElementOfSeq DEF n, Between
  <2>2. QED BY <1>2, <2>1, SubSeqProperties DEF Text, Between
<1>5. Start(t, b) = s \o SubSeq(t, (k - 1) + 1, b)
  <2> DEFINE j == k - 1
  <2> HIDE DEF j
  <2>1. SubSeq(t, 1, j) \o SubSeq(t, j + 1, b) = SubSeq(t, 1, b)
    BY <1>1, <1>2, ConcatAdjacentSubSeq DEF n, j, Between
  <2>2. QED BY <2>1 DEF j, Start
<1>6. SubSeq(t, k, b) = <<t[k]>> \o r
  BY <1>1, <1>2, SubSeqRecursiveFirst DEF n, Between
<1> HIDE DEF s, r
<1>7. Start(t, b) = Holds(s, " ", r)
  BY <1>2, <1>5, <1>6 DEF Holds, Between
<1>8. Left(Start(t, b)) = Left(s) \o Left(r)
  BY <1>3, <1>4, <1>7, LeftParts
<1>9. QED BY <1>4, <1>8 DEF s, r

\* Of two cuts of a text, the shorter leaves the first of the words.
LEMMA LeftNested ==
    ASSUME NEW t \in Text, NEW a \in 0..Len(t), NEW b \in 0..Len(t), Ends(t, a), a <= b
    PROVE  \E r \in Seq(Text) : Left(Start(t, b)) = Left(Start(t, a)) \o r
<1> DEFINE n == Len(t)
           none == <<>>
<1>1. n \in Nat /\ a \in Nat /\ b \in Nat /\ a <= n /\ b <= n
  <2>1. n \in Nat /\ a \in 0..n /\ b \in 0..n
    BY LenProperties DEF Text
  <2> HIDE DEF n
  <2>2. QED BY <2>1
<1>2. Start(t, a) \in Text
  BY StartType
<1>3. none \in Seq(Text) /\ Left(Start(t, a)) \o none = Left(Start(t, a))
  BY <1>2, LeftType, EmptySeq, ConcatEmptySeq
<1>4. CASE a = b
  BY <1>3, <1>4
<1>5. ASSUME a < b, t[a + 1] = " "
      PROVE  \E r \in Seq(Text) : Left(Start(t, b)) = Left(Start(t, a)) \o r
  <2> DEFINE k == a + 1
  <2>0. a < b
    BY <1>5
  <2>1. k \in 1..n /\ b \in k..n /\ k - 1 = a
    <3> HIDE DEF n
    <3> QED BY <1>1, <2>0
  <2>2. t[k] = " "
    BY <1>5
  <2> HIDE DEF k
  <2> DEFINE r == SubSeq(t, k + 1, b)
  <2>3. r \in Text /\ Left(Start(t, b)) = Left(Start(t, k - 1)) \o Left(r)
    BY <2>1, <2>2, LeftAt
  <2> HIDE DEF r
  <2>4. QED BY <2>1, <2>3, LeftType
<1>6. ASSUME a < b, a > 0, t[a] = " "
      PROVE  \E r \in Seq(Text) : Left(Start(t, b)) = Left(Start(t, a)) \o r
  <2>0. a < b /\ a > 0
    BY <1>6
  <2>1. a \in 1..n /\ b \in a..n /\ a \in a..n /\ a - 1 \in 0..n
    <3> HIDE DEF n
    <3> QED BY <1>1, <2>0
  <2> DEFINE r == SubSeq(t, a + 1, b)
             e == SubSeq(t, a + 1, a)
  <2>2. r \in Text /\ Left(Start(t, b)) = Left(Start(t, a - 1)) \o Left(r)
    BY <1>6, <2>1, LeftAt
  <2>3. Left(Start(t, a)) = Left(Start(t, a - 1)) \o Left(e)
    BY <1>6, <2>1, LeftAt
  <2>4. e = none
    <3>1. a \in Int /\ a + 1 \in Int /\ a < a + 1
      BY <1>1
    <3>2. QED BY <3>1, SubSeqEmpty
  <2> HIDE DEF r, e
  <2>5. Left(Start(t, a - 1)) \in Seq(Text)
    BY <2>1, StartType, LeftType
  <2>6. Left(Start(t, a - 1)) \o none = Left(Start(t, a - 1))
    BY <2>5, ConcatEmptySeq
  <2>7. Left(Start(t, a)) = Left(Start(t, a - 1))
    BY <2>3, <2>4, <2>6, LeftEmpty
  <2>8. QED BY <2>2, <2>7, LeftType
<1>7. a = b \/ (a < b /\ t[a + 1] = " ") \/ (a < b /\ a > 0 /\ t[a] = " ")
  <2>1. a = b \/ a < b
    BY <1>1
  <2>2. a < b => a # n
    <3> HIDE DEF n
    <3> QED BY <1>1
  <2>3. QED BY <2>1, <2>2 DEF Ends
<1>8. QED BY <1>4, <1>5, <1>6, <1>7

-----------------------------------------------------------------------------
\* Stripping suffixes cuts a name at its end, or after a space.
Cuts(u) == {k \in 0..Len(u) : k = Len(u) \/ (k > 0 /\ u[k] = " ")}
CutOf(u) == {Start(u, k) : k \in Cuts(u)}

LEMMA StartOfStart ==
    ASSUME NEW t \in Text, NEW j \in 0..Len(t), NEW k \in 0..j
    PROVE  k \in 0..Len(t) /\ Start(Start(t, j), k) = Start(t, k)
<1> DEFINE n == Len(t)
           s == Start(t, j)
           l == Start(s, k)
           r == Start(t, k)
<1>1. n \in Nat /\ j \in 0..n
  BY LenProperties DEF Text
<1>2. k \in 0..n /\ \A i \in 1..k : i \in 1..j
  <2> HIDE DEF n
  <2> QED BY <1>1
<1>3. s \in Text /\ Len(s) = j /\ \A i \in 1..j : s[i] = t[i]
  BY StartType
<1>4. r \in Text /\ Len(r) = k /\ \A i \in 1..k : r[i] = t[i]
  BY <1>2, StartType
<1>5. l \in Text /\ Len(l) = k /\ \A i \in 1..k : l[i] = s[i]
  <2> HIDE DEF s
  <2> QED BY <1>3, StartType
<1> HIDE DEF s, l, r
<1>6. l = r
  <2>1. \A i \in 1..k : l[i] = r[i]
    BY <1>2, <1>3, <1>4, <1>5
  <2>2. QED BY <1>4, <1>5, <2>1, SeqEqual DEF Text
<1>7. QED BY <1>2, <1>6 DEF s, l, r, n

LEMMA StripCuts ==
    ASSUME NEW u \in Text, NEW t \in CutOf(u), NEW x \in Text
    PROVE  StripSuffix(t, x) \in CutOf(u)
<1> DEFINE m == Trimmed(t)
           n == Len(m) - Len(x)
           new == SubSeq(m, 1, n)
<1>1. PICK k \in Cuts(u) : t = Start(u, k)
  BY DEF CutOf
<1>2. k \in 0..Len(u)
  BY DEF Cuts
<1>3. t \in Text /\ Len(t) = k
  BY <1>1, <1>2, StartType
<1>4. PICK e \in 0..k : m = Start(t, e)
  BY <1>3, TrimmedIs
<1>5. e \in 0..Len(u) /\ m = Start(u, e)
  BY <1>1, <1>2, <1>4, StartOfStart
<1>6. Len(m) = e /\ \A i \in 1..e : m[i] = u[i]
  BY <1>5, StartType
<1>7. Len(x) \in Nat /\ e \in Nat
  BY LenProperties DEF Text
<1>8. StripSuffix(t, x) = t \/ (n > 0 /\ m[n] = " " /\ StripSuffix(t, x) = new)
  BY DEF StripSuffix
<1> HIDE DEF m
<1>9. ASSUME n > 0, m[n] = " "
      PROVE  new \in CutOf(u)
  <2>0. n > 0
    BY <1>9
  <2>1. n \in 0..e /\ n \in 1..e
    BY <1>6, <1>7, <2>0
  <2>2. u[n] = " "
    BY <1>6, <1>9, <2>1
  <2> HIDE DEF n
  <2>3. n \in 0..Len(u) /\ Start(Start(u, e), n) = Start(u, n)
    BY <1>5, <2>1, StartOfStart
  <2>4. n \in Cuts(u)
    BY <1>9, <2>2, <2>3 DEF Cuts
  <2>5. new = Start(u, n)
    BY <1>5, <2>3 DEF Start
  <2>6. QED BY <2>4, <2>5 DEF CutOf
<1> HIDE DEF new, n
<1>10. QED BY <1>8, <1>9

LEMMA StrippedCut ==
    ASSUME NEW u \in Text
    PROVE  \E k \in Cuts(u) : Loop(StripSuffix, u, StoreSuffixes) = Start(u, k)
<1>1. Len(u) \in Cuts(u) /\ Start(u, Len(u)) = u
  <2>1. Len(u) \in 0..Len(u)
    BY LenProperties DEF Text
  <2>2. QED BY <2>1, SubSeqFull DEF Cuts, Start, Text
<1>2. u \in CutOf(u)
  BY <1>1 DEF CutOf
<1>3. Loop(StripSuffix, u, StoreSuffixes) \in CutOf(u)
  BY <1>2, StripCuts, StrippedIn
<1>4. QED BY <1>3 DEF CutOf

-----------------------------------------------------------------------------
\* What is y where s is x, and s elsewhere.
Replaced(s, x, y) == [i \in DOMAIN s |-> IF s[i] = x THEN y ELSE s[i]]

LEMMA ReplacedIs ==
    ASSUME NEW s \in Text, NEW x, NEW y \in Characters
    PROVE  /\ Replaced(s, x, y) \in Text /\ Len(Replaced(s, x, y)) = Len(s)
           /\ \A i \in 1..Len(s) : Replaced(s, x, y)[i] = IF s[i] = x THEN y ELSE s[i]
<1> DEFINE r == Replaced(s, x, y)
<1>1. Len(s) \in Nat /\ DOMAIN s = 1..Len(s)
  BY LenProperties DEF Text
<1>2. r \in Text
  BY ReplaceType DEF Replaced, Text
<1>3. DOMAIN r = 1..Len(s) /\ \A i \in 1..Len(s) : r[i] = IF s[i] = x THEN y ELSE s[i]
  BY <1>1 DEF Replaced
<1> HIDE DEF r
<1>4. Len(r) \in Nat /\ DOMAIN r = 1..Len(r)
  BY <1>2, LenProperties DEF Text
<1>5. Len(r) = Len(s)
  BY <1>1, <1>3, <1>4
<1>6. QED BY <1>2, <1>3, <1>5 DEF r

LEMMA SpacedStart ==
    ASSUME NEW t \in Text, NEW k \in 0..Len(t)
    PROVE  Spaced(Start(t, k)) = Start(Spaced(t), k) /\ Spaced(t) \in Text /\ Len(Spaced(t)) = Len(t)
<1> DEFINE x == "*"
           y == " "
           s == Start(t, k)
           l == Replaced(s, x, y)
           p == Replaced(t, x, y)
           r == Start(p, k)
<1>1. y \in Characters
  BY RowsAssumption
<1> HIDE DEF x, y
<1>2. s \in Text /\ Len(s) = k /\ \A i \in 1..k : s[i] = t[i]
  BY StartType
<1>3. p \in Text /\ Len(p) = Len(t) /\ \A i \in 1..Len(t) : p[i] = IF t[i] = x THEN y ELSE t[i]
  BY <1>1, ReplacedIs
<1>4. l \in Text /\ Len(l) = k /\ \A i \in 1..k : l[i] = IF s[i] = x THEN y ELSE s[i]
  <2> HIDE DEF s
  <2> QED BY <1>1, <1>2, ReplacedIs
<1>5. r \in Text /\ Len(r) = k /\ \A i \in 1..k : r[i] = p[i]
  <2> HIDE DEF p
  <2> QED BY <1>3, StartType
<1>6. \A i \in 1..k : i \in 1..Len(t)
  <2> DEFINE n == Len(t)
  <2>1. n \in Nat /\ k \in 0..n
    BY LenProperties DEF Text
  <2> HIDE DEF n
  <2>2. \A i \in 1..k : i \in 1..n
    BY <2>1
  <2>3. QED BY <2>2 DEF n
<1> HIDE DEF s, l, p, r
<1>7. l = r
  <2>1. \A i \in 1..k : l[i] = r[i]
    BY <1>2, <1>3, <1>4, <1>5, <1>6
  <2>2. QED BY <1>4, <1>5, <2>1, SeqEqual DEF Text
<1>8. QED BY <1>3, <1>7 DEF Spaced, Replaced, s, l, p, r, x, y

LEMMA FirstOfConcat ==
    ASSUME NEW E, NEW s \in Seq(E), s # <<>>, NEW t \in Seq(E)
    PROVE  s \o t \in Seq(E) /\ s \o t # <<>> /\ (s \o t)[1] = s[1]
<1> DEFINE n == Len(s)
           m == Len(t)
           u == s \o t
<1>1. n \in Nat \ {0} /\ m \in Nat
  BY LenProperties, EmptySeq
<1>2. u \in Seq(E) /\ Len(u) = n + m /\ \A i \in 1..n + m : u[i] = IF i <= n THEN s[i] ELSE t[i - n]
  BY ConcatProperties
<1>3. 1 \in 1..n + m /\ 1 <= n /\ n + m # 0
  <2> HIDE DEF n, m
  <2> QED BY <1>1
<1>4. u # <<>>
  <2> HIDE DEF u
  <2> QED BY <1>2, <1>3, EmptySeq
<1>5. u[1] = s[1]
  <2> HIDE DEF u, n, m
  <2> QED BY <1>2, <1>3
<1>6. QED BY <1>2, <1>4, <1>5

LEMMA TailHead ==
    ASSUME NEW tail \in Tails, tail # <<>>
    PROVE  tail[1] \in {" ", "*"}
<1> DEFINE sp == <<" ">>
           one == <<" ", "1">>
<1>1. sp \in Text /\ one \in Text /\ sp # <<>> /\ sp[1] = " "
  <2>1. " " \in Characters /\ "1" \in Characters
    BY RowsAssumption
  <2>2. QED BY <2>1, FewType DEF Text
<1>2. ASSUME NEW x \in Text PROVE (sp \o x)[1] = " " /\ sp \o x \in Text /\ sp \o x # <<>>
  <2> HIDE DEF sp
  <2> QED BY <1>1, FirstOfConcat DEF Text
<1>3. ASSUME NEW x \in Text, NEW z \in Text PROVE ((sp \o x) \o z)[1] = " "
  <2> DEFINE s == sp \o x
  <2>1. s \in Text /\ s[1] = " " /\ s # <<>>
    BY <1>2
  <2> HIDE DEF s
  <2>2. (s \o z)[1] = s[1]
    BY <2>1, FirstOfConcat DEF Text
  <2>3. QED BY <2>1, <2>2 DEF s
<1>4. \A i \in DOMAIN StoreSuffixes : StoreSuffixes[i] \in Text
  <2>1. DOMAIN StoreSuffixes = 1..Len(StoreSuffixes)
    BY SuffixesType, LenProperties
  <2>2. QED BY <2>1, SuffixesType, ElementOfSeq
<1>5. CASE tail \in {<<" ", "1">>, <<" ", "1", "2">>, <<"*", "B">>}
  <2>1. <<" ", "1">>[1] = " " /\ <<" ", "1", "2">>[1] = " " /\ <<"*", "B">>[1] = "*"
    OBVIOUS
  <2>2. QED BY <1>5, <2>1, Zenon
<1>6. ASSUME NEW i \in DOMAIN StoreSuffixes, tail = sp \o StoreSuffixes[i]
      PROVE  tail[1] = " "
  <2> HIDE DEF sp
  <2> QED BY <1>2, <1>4, <1>6
<1>7. ASSUME NEW i \in DOMAIN StoreSuffixes, tail = (sp \o StoreSuffixes[i]) \o one
      PROVE  tail[1] = " "
  <2> HIDE DEF sp, one
  <2> QED BY <1>1, <1>3, <1>4, <1>7
<1>8. \/ tail \in {<<" ", "1">>, <<" ", "1", "2">>, <<"*", "B">>}
      \/ \E i \in DOMAIN StoreSuffixes : tail = sp \o StoreSuffixes[i]
      \/ \E i \in DOMAIN StoreSuffixes : tail = (sp \o StoreSuffixes[i]) \o one
  BY DEF Tails
<1>9. QED BY <1>5, <1>6, <1>7, <1>8

\* A variant in upper case, with spaces, is cut where the name ends.
Extends(name, v) ==
    /\ v \in Text /\ Len(name) \in 0..Len(v)
    /\ \A i \in 1..Len(name) : v[i] = name[i]
    /\ Len(name) < Len(v) => v[Len(name) + 1] \in {" ", "*"}

LEMMA UpperVariant ==
    ASSUME NEW name \in Text, ToUpper(name) = name, NEW tail \in Tails
    PROVE  Extends(name, ToUpper(name \o tail))
<1> DEFINE v == name \o tail
           x == "a"
           y == "A"
           u == Replaced(v, x, y)
           n == Len(name)
           m == Len(tail)
<1>1. y \in Characters /\ tail \in Text /\ ToUpper(v) = u /\ Replaced(name, x, y) = name
  BY RowsAssumption, TailType DEF ToUpper, Replaced
<1>2. tail # <<>> => tail[1] \in {" ", "*"}
  BY TailHead
<1>3. " " # x /\ "*" # x
  OBVIOUS
<1> HIDE DEF x, y
<1>4. n \in Nat /\ m \in Nat /\ (m = 0 => tail = <<>>)
  BY <1>1, LenProperties, EmptySeq DEF Text
<1>5. /\ v \in Text /\ Len(v) = n + m
      /\ \A i \in 1..n + m : v[i] = IF i <= n THEN name[i] ELSE tail[i - n]
  BY <1>1, ConcatProperties DEF Text
<1>6. u \in Text /\ Len(u) = n + m /\ \A i \in 1..n + m : u[i] = IF v[i] = x THEN y ELSE v[i]
  <2> HIDE DEF v
  <2> QED BY <1>1, <1>5, ReplacedIs
<1>7. \A i \in 1..n : name[i] = IF name[i] = x THEN y ELSE name[i]
  <2>1. \A i \in 1..n : Replaced(name, x, y)[i] = IF name[i] = x THEN y ELSE name[i]
    BY <1>1, ReplacedIs
  <2>2. QED BY <1>1, <2>1
<1> HIDE DEF v, u, n, m
<1>8. n \in 0..Len(u)
  BY <1>4, <1>6
<1>9. \A i \in 1..n : u[i] = name[i]
  <2>1. \A i \in 1..n : i \in 1..n + m /\ i <= n
    BY <1>4
  <2>2. QED BY <1>5, <1>6, <1>7, <2>1
<1>10. ASSUME n < Len(u) PROVE u[n + 1] \in {" ", "*"}
  <2>1. n + 1 \in 1..n + m /\ ~(n + 1 <= n) /\ (n + 1) - n = 1 /\ m # 0
    BY <1>4, <1>6, <1>10
  <2>2. tail # <<>>
    <3>1. Len(<<>>) = 0
      BY EmptySeq
    <3>2. QED BY <2>1, <3>1 DEF m
  <2>3. v[n + 1] = tail[1]
    BY <1>5, <2>1
  <2>4. v[n + 1] \in {" ", "*"}
    BY <1>2, <2>2, <2>3
  <2>5. v[n + 1] # x
    BY <1>3, <2>4
  <2>6. QED BY <1>6, <2>1, <2>4, <2>5
<1>11. QED BY <1>1, <1>6, <1>8, <1>9, <1>10 DEF Extends, v, n

-----------------------------------------------------------------------------
\* A name that goes on after another, with a space between.
Continues(t, s) == t = s \/ \E z \in Text : t = Holds(s, " ", z)

LEMMA HoldsMore ==
    ASSUME NEW E, NEW s \in Seq(E), NEW x \in E, NEW z \in Seq(E), NEW w \in Seq(E)
    PROVE  /\ Holds(z, x, w) \in Seq(E)
           /\ Holds(s, x, w) \in Seq(E)
           /\ Holds(Holds(s, x, z), x, w) = Holds(s, x, Holds(z, x, w))
           /\ s # <<>> => Holds(s, x, w) # <<>>
<1> DEFINE one == <<x>>
           ow == one \o w
           oz == one \o z
<1>1. one \in Seq(E)
  BY SingleType
<1> HIDE DEF one
<1>2. ow \in Seq(E) /\ oz \in Seq(E)
  BY <1>1, ConcatProperties
<1>3. oz \o ow = one \o (z \o ow)
  <2> HIDE DEF ow
  <2> QED BY <1>1, <1>2, ConcatAssociative DEF oz
<1> HIDE DEF ow, oz
<1>4. (s \o oz) \o ow = s \o (oz \o ow)
  BY SMTT(20), <1>2, ConcatAssociative
<1>5. z \o ow \in Seq(E) /\ s \o ow \in Seq(E)
  BY <1>2, ConcatProperties
<1>6. s # <<>> => s \o ow # <<>>
  BY <1>2, FirstOfConcat
<1>7. QED BY <1>3, <1>4, <1>5, <1>6 DEF Holds, one, ow, oz

LEMMA JoinNested ==
    ASSUME NEW a \in Seq(Text), Join(a) # <<>>
    PROVE  \A r \in Seq(Text) : Continues(Join(a \o r), Join(a))
<1> DEFINE j == Join(a)
           K == {r \in Seq(Text) : Continues(Join(a \o r), j)}
           e == <<>>
           sp == " "
<1>1. j \in Text /\ sp \in Characters
  BY JoinType, RowsAssumption
<1>2. e \in K
  <2>1. e \in Seq(Text) /\ a \o e = a
    BY EmptySeq, ConcatEmptySeq
  <2> HIDE DEF e
  <2>2. QED BY <2>1 DEF Continues
<1>3. ASSUME NEW r \in Seq(Text), NEW w \in Text, r \in K
      PROVE  Append(r, w) \in K
  <2> DEFINE b == a \o r
             t == Join(b)
  <2>1. a \o Append(r, w) = Append(b, w)
    BY ConcatAppend
  <2>2. b \in Seq(Text) /\ Append(r, w) \in Seq(Text)
    BY ConcatProperties, AppendProperties
  <2>3. Continues(t, j)
    BY <1>3
  <2> HIDE DEF b
  <2>4. t \in Text /\ Join(Append(b, w)) = Joined(t, w)
    BY <2>2, JoinAppend
  <2> HIDE DEF t, j, sp
  <2>5. j # <<>>
    BY DEF j
  <2>6. CASE t = j
    <3>1. Joined(t, w) = (j \o <<sp>>) \o w
      BY <2>5, <2>6 DEF Joined, sp
    <3>2. (j \o <<sp>>) \o w = Holds(j, sp, w)
      <4>1. <<sp>> \in Text
        BY <1>1, SingleType DEF Text
      <4>2. QED BY <1>1, <4>1, ConcatAssociative DEF Holds, Text
    <3>3. QED BY <2>1, <2>2, <2>4, <3>1, <3>2 DEF Continues, sp
  <2>7. ASSUME NEW z \in Text, t = Holds(j, sp, z)
        PROVE  Append(r, w) \in K
    <3>1. t # <<>> /\ Holds(z, sp, w) \in Text
      BY <1>1, <2>5, <2>7, HoldsMore DEF Text
    <3>2. Joined(t, w) = (t \o <<sp>>) \o w
      BY <3>1 DEF Joined, sp
    <3>3. (t \o <<sp>>) \o w = Holds(t, sp, w)
      <4>1. <<sp>> \in Text
        BY <1>1, SingleType DEF Text
      <4>2. QED BY <2>4, <4>1, ConcatAssociative DEF Holds, Text
    <3>4. Holds(t, sp, w) = Holds(j, sp, Holds(z, sp, w))
      BY <1>1, <2>7, HoldsMore DEF Text
    <3>5. QED BY <2>1, <2>2, <2>4, <3>1, <3>2, <3>3, <3>4 DEF Continues, sp
  <2>8. QED BY <2>3, <2>6, <2>7 DEF Continues, sp
<1>4. \A r \in Seq(Text) : r \in K
  <2> HIDE DEF K
  <2> QED BY <1>2, <1>3, SeqInduction
<1>5. QED BY <1>4

LEMMA StrictPrefix ==
    ASSUME NEW E, NEW s \in Seq(E), s # <<>>, NEW t \in Seq(E), t # <<>>
    PROVE  IsStrictPrefix(s, s \o t)
<1> DEFINE n == Len(s)
           m == Len(t)
           u == s \o t
<1>1. n \in Nat \ {0} /\ m \in Nat \ {0}
  BY LenProperties, EmptySeq
<1>2. u \in Seq(E) /\ Len(u) = n + m
  BY ConcatProperties
<1>3. 1 \in 1..n /\ n \in 1..n /\ n <= n + m /\ n + m # n
  <2> HIDE DEF n, m
  <2> QED BY <1>1
<1>4. SubSeq(u, 1, n) = SubSeq(s, 1, n)
  BY <1>3, SubSeqOfConcat1
<1> HIDE DEF u
<1>5. u # s
  BY <1>2, <1>3
<1>6. QED BY <1>2, <1>3, <1>4, <1>5 DEF IsStrictPrefix, IsPrefix, u

\* Names of which one continues the other match, either way.
LEMMA ContinuedMatch ==
    ASSUME NEW s \in Text, NEW t \in Text, Continues(t, s)
    PROVE  ContainsMatch(s, t) /\ ContainsMatch(t, s)
<1> DEFINE sp == <<" ">>
<1>1. sp \in Text /\ sp # <<>>
  <2>1. " " \in Characters
    BY RowsAssumption
  <2>2. QED BY <2>1, SingleType DEF Text
<1>2. CASE t = s
  BY <1>2 DEF ContainsMatch
<1>3. ASSUME NEW z \in Text, t = s \o (sp \o z)
      PROVE  IsStrictPrefix(s \o sp, t \o sp)
  <2> HIDE DEF sp
  <2> DEFINE a == s \o sp
             b == z \o sp
  <2>1. a \in Text /\ b \in Text
    BY <1>1, ConcatProperties DEF Text
  <2>2. a # <<>> /\ b # <<>>
    BY <1>1, ConcatEqualIffEmpty DEF Text
  <2>3. (s \o sp) \o z = s \o (sp \o z)
    BY <1>1, ConcatAssociative DEF Text
  <2>4. (a \o z) \o sp = a \o b
    <3> HIDE DEF a
    <3> QED BY SMTT(20), <1>1, <2>1, ConcatAssociative DEF Text
  <2>5. t \o sp = a \o b
    BY <1>3, <2>3, <2>4
  <2> HIDE DEF a, b
  <2>6. IsStrictPrefix(a, a \o b)
    BY <2>1, <2>2, StrictPrefix DEF Text
  <2>7. QED BY <2>5, <2>6 DEF a
<1>4. QED BY <1>2, <1>3 DEF Continues, Holds, ContainsMatch

-----------------------------------------------------------------------------
LEMMA NormalizeIs ==
    ASSUME NEW name
    PROVE  NormalizeMerchant(name) =
             Join(Left(Spaced(Loop(StripSuffix, ToUpper(name), StoreSuffixes))))
BY DEF NormalizeMerchant, Left

\* What is left of a name and of a variant of it: the one continues the other.
LEMMA VariantContinues ==
    ASSUME NEW name \in Text, ToUpper(name) = name, NEW v, Extends(name, ToUpper(v)),
           NormalizeMerchant(name) # <<>>, NormalizeMerchant(v) # <<>>
    PROVE  \/ Continues(NormalizeMerchant(v), NormalizeMerchant(name))
           \/ Continues(NormalizeMerchant(name), NormalizeMerchant(v))
<1> DEFINE u == ToUpper(v)
           t == Spaced(u)
           n == Len(name)
<1>1. u \in Text /\ n \in 0..Len(u) /\ (\A i \in 1..n : u[i] = name[i])
      /\ (n < Len(u) => u[n + 1] \in {" ", "*"})
  BY DEF Extends
<1> HIDE DEF u
<1>2. t \in Text /\ Len(t) = Len(u) /\ \A k \in 0..Len(u) : Spaced(Start(u, k)) = Start(t, k)
  <2>1. u \in Text
    BY <1>1
  <2>2. Len(u) \in 0..Len(u)
    <3>1. Len(u) \in Nat
      BY <2>1, LenProperties DEF Text
    <3>2. QED BY <3>1
  <2>3. QED BY <2>1, <2>2, SpacedStart
<1>3. \A i \in 1..Len(u) : t[i] = IF u[i] = "*" THEN " " ELSE u[i]
  <2>1. DOMAIN u = 1..Len(u)
    BY <1>1, LenProperties DEF Text
  <2>2. QED BY <2>1 DEF Spaced
<1> HIDE DEF t
<1>4. PICK a \in Cuts(name) : Loop(StripSuffix, name, StoreSuffixes) = Start(name, a)
  BY StrippedCut
<1>5. PICK b \in Cuts(u) : Loop(StripSuffix, u, StoreSuffixes) = Start(u, b)
  BY <1>1, StrippedCut
<1>6. a \in 0..n /\ b \in 0..Len(u) /\ a \in 0..Len(u) /\ n \in 0..Len(u)
      /\ Len(u) \in Nat
  <2>1. a \in 0..n /\ b \in 0..Len(u)
    BY DEF Cuts
  <2>2. Len(u) \in Nat
    BY <1>1, LenProperties DEF Text
  <2>3. n \in 0..Len(u)
    BY <1>1
  <2> DEFINE l == Len(u)
  <2>4. l \in Nat /\ n \in 0..l /\ a \in 0..n /\ b \in 0..l
    BY <2>1, <2>2, <2>3
  <2> HIDE DEF n, l
  <2>5. a \in 0..l
    BY <2>4
  <2>6. QED BY <2>4, <2>5 DEF l
<1>7. Start(name, a) = Start(u, a)
  <2> DEFINE x == Start(name, a)
             y == Start(u, a)
  <2>1. x \in Text /\ Len(x) = a /\ \A i \in 1..a : x[i] = name[i]
    BY <1>6, StartType
  <2>2. y \in Text /\ Len(y) = a /\ \A i \in 1..a : y[i] = u[i]
    BY <1>1, <1>6, StartType
  <2>3. \A i \in 1..a : i \in 1..n
    <3>1. n \in Nat
      BY LenProperties DEF Text
    <3> HIDE DEF n
    <3>2. QED BY <1>6, <3>1
  <2> HIDE DEF x, y
  <2>4. \A i \in 1..a : x[i] = y[i]
    BY <1>1, <2>1, <2>2, <2>3
  <2>5. x = y
    BY <2>1, <2>2, <2>4, SeqEqual DEF Text
  <2>6. QED BY <2>5 DEF x, y
<1> DEFINE x == Left(Start(t, a))
           y == Left(Start(t, b))
<1>8. NormalizeMerchant(name) = Join(x) /\ NormalizeMerchant(v) = Join(y)
  <2>1. Spaced(Start(u, a)) = Start(t, a) /\ Spaced(Start(u, b)) = Start(t, b)
    BY <1>2, <1>6
  <2>2. NormalizeMerchant(name) = Join(Left(Spaced(Start(u, a))))
    BY <1>4, <1>7, NormalizeIs
  <2>3. NormalizeMerchant(v) = Join(Left(Spaced(Start(u, b))))
    BY <1>5, NormalizeIs DEF u
  <2>4. QED BY <2>1, <2>2, <2>3
<1>9. \A k \in 1..Len(u) : u[k] \in {" ", "*"} => t[k] = " "
  BY <1>3
<1>10. Ends(t, b)
  <2>1. b = Len(u) \/ (b > 0 /\ u[b] = " ")
    BY DEF Cuts
  <2>2. b > 0 => b \in 1..Len(u)
    <3> DEFINE l == Len(u)
    <3>1. l \in Nat /\ b \in 0..l
      BY <1>6
    <3> HIDE DEF l
    <3>2. b > 0 => b \in 1..l
      BY <3>1
    <3>3. QED BY <3>2 DEF l
  <2>3. QED BY <1>2, <1>9, <2>1, <2>2 DEF Ends
<1>11. Ends(t, a)
  <2>1. a = n \/ (a > 0 /\ name[a] = " ")
    BY DEF Cuts
  <2> DEFINE l == Len(u)
  <2>0. l \in Nat /\ n \in 0..l /\ a \in 0..n
    BY <1>6
  <2> HIDE DEF n, l
  <2>2. a > 0 => a \in 1..l /\ a \in 1..n
    BY <2>0
  <2>3. ASSUME a > 0, name[a] = " " PROVE Ends(t, a)
    <3>1. a \in 1..l /\ a \in 1..n
      BY <2>2, <2>3
    <3>2. u[a] = " "
      BY <1>1, <2>3, <3>1
    <3>3. t[a] = " "
      BY <1>9, <3>1, <3>2 DEF l
    <3>4. QED BY <2>3, <3>3 DEF Ends
  <2>4. ASSUME a = n PROVE Ends(t, a)
    <3>1. n = l \/ n < l
      BY <2>0
    <3>2. n < l => n + 1 \in 1..l
      BY <2>0
    <3>3. n < l => t[n + 1] = " "
      BY <1>1, <1>9, <3>2 DEF l
    <3>4. Len(t) = l
      BY <1>2 DEF l
    <3>5. QED BY <2>4, <3>1, <3>3, <3>4 DEF Ends
  <2>5. QED BY <2>1, <2>3, <2>4
<1>12. x \in Seq(Text) /\ y \in Seq(Text)
  BY <1>2, <1>6, StartType, LeftType
<1> DEFINE l == Len(t)
<1>0. t \in Text /\ a \in 0..l /\ b \in 0..l
  BY <1>2, <1>6
<1>13. ASSUME a <= b PROVE Continues(Join(y), Join(x))
  <2>0. \E r \in Seq(Text) : Left(Start(t, b)) = Left(Start(t, a)) \o r
    BY <1>0, <1>11, <1>13, LeftNested
  <2>1. PICK r \in Seq(Text) : y = x \o r
    BY <2>0
  <2> HIDE DEF x, y
  <2>2. QED BY <1>8, <1>12, <2>1, JoinNested
<1>14. ASSUME b <= a PROVE Continues(Join(x), Join(y))
  <2>0. \E r \in Seq(Text) : Left(Start(t, a)) = Left(Start(t, b)) \o r
    BY <1>0, <1>10, <1>14, LeftNested
  <2>1. PICK r \in Seq(Text) : x = y \o r
    BY <2>0
  <2> HIDE DEF x, y
  <2>2. QED BY <1>8, <1>12, <2>1, JoinNested
<1>15. a <= b \/ b <= a
  BY <1>6
<1>16. QED BY <1>8, <1>13, <1>14, <1>15

LEMMA MatchScore ==
    ASSUME NEW s \in Text, s # <<>>, NEW t \in Text, t # <<>>, ContainsMatch(s, t)
    PROVE  Score(s, t)[1] > 0
<1>1. Len(s) \in Nat \ {0} /\ Len(t) \in Nat \ {0}
  BY LenProperties, EmptySeq DEF Text
<1>2. Score(s, t) = <<Min2(Len(s), Len(t)), Larger(Len(s), Len(t))>>
  BY DEF Score
<1>3. QED BY <1>1, <1>2 DEF Min2

LEMMA VariantCovered ==
    ASSUME map \in Seq(Entries), NEW key \in KeysOf(map), NEW v \in Variants(key),
           NormalizeMerchant(key) # <<>>, NormalizeMerchant(v) # <<>>
    PROVE  ResolveCategory(Null, v, map) \in {map[j].category : j \in NoFarther(v, key)}
<1>1. PICK i \in 1..Len(map) : key = map[i].key
  <2>1. DOMAIN map = 1..Len(map)
    BY LenProperties
  <2>2. QED BY <2>1 DEF KeysOf
<1>2. PICK m \in Merchants : key = ToUpper(m)
  <2>1. map[i] \in Entries
    BY ElementOfSeq
  <2>2. QED BY <1>1, <2>1 DEF Entries, MerchantKeys
<1>3. key \in Text /\ key \in MerchantKeys /\ v \in Names
  BY <1>2, KeyType DEF MerchantKeys, Names
<1>4. ToUpper(key) = key
  <2>1. m \in Text /\ "A" \in Characters
    BY <1>2, KeyType, RowsAssumption
  <2>2. "A" # "a"
    OBVIOUS
  <2> DEFINE x == "a"
             y == "A"
             r == Replaced(m, x, y)
             rr == Replaced(r, x, y)
  <2>3. key = r /\ ToUpper(key) = rr
    BY <1>2 DEF ToUpper, Replaced
  <2>4. y \in Characters /\ y # x
    BY <2>1, <2>2
  <2> HIDE DEF x, y
  <2>5. r \in Text /\ Len(r) = Len(m) /\ \A j \in 1..Len(m) : r[j] = IF m[j] = x THEN y ELSE m[j]
    BY <2>1, <2>4, ReplacedIs
  <2> HIDE DEF r
  <2>6. rr \in Text /\ Len(rr) = Len(r) /\ \A j \in 1..Len(r) : rr[j] = IF r[j] = x THEN y ELSE r[j]
    BY <2>4, <2>5, ReplacedIs
  <2> HIDE DEF rr
  <2>7. \A j \in 1..Len(m) : rr[j] = r[j]
    BY <2>4, <2>5, <2>6
  <2>8. rr = r
    BY <2>5, <2>6, <2>7, SeqEqual DEF Text
  <2>9. QED BY <2>3, <2>8
<1>5. PICK tail \in Tails : v = key \o tail
  BY <1>3, VariantIs
<1>6. Extends(key, ToUpper(v))
  BY <1>3, <1>4, <1>5, UpperVariant
<1> DEFINE nv == NormalizeMerchant(v)
           nk == NormalizeMerchant(key)
<1>7. Continues(nv, nk) \/ Continues(nk, nv)
  BY <1>3, <1>4, <1>6, VariantContinues
<1>8. nv \in Text /\ nk \in Text
  BY <1>3, NameType, NormalizeType
<1>9. ContainsMatch(nv, nk)
  <2> HIDE DEF nv, nk
  <2> QED BY <1>7, <1>8, ContinuedMatch
<1>10. Score(nv, nk)[1] > 0
  <2>1. nv # <<>> /\ nk # <<>>
    OBVIOUS
  <2> HIDE DEF nv, nk
  <2>2. QED BY <1>8, <1>9, <2>1, MatchScore
<1>11. Less(NoScore, ScoreAt(v, map, i))
  <2>1. ScoreAt(v, map, i) = Score(nv, nk) /\ ScoreAt(v, map, i) \in Fractions
    BY <1>1, <1>3, ScoresType DEF ScoreAt
  <2> HIDE DEF nv, nk
  <2>2. QED BY <1>10, <2>1, LessThanNone
<1>12. ~NoneUpTo(v, map, Len(map))
  BY <1>11 DEF NoneUpTo
<1> DEFINE near == {map[j].category : j \in NoFarther(v, key)}
<1>13. FuzzyMatchCategory(v, map) \in near /\ FuzzyMatchCategory(v, map) # Null
  <2>1. PICK w \in 1..Len(map) : /\ Wins(v, map, Len(map), w)
                                 /\ FuzzyMatchCategory(v, map) = map[w].category
    BY <1>3, <1>12, FuzzyTakesFirstBest
  <2>2. ~Less(ScoreAt(v, map, w), ScoreAt(v, map, i))
    BY <2>1 DEF Wins
  <2>3. w \in NoFarther(v, key)
    <3>1. w \in DOMAIN map
      BY LenProperties
    <3>2. QED BY <1>1, <2>2, <3>1 DEF NoFarther, ScoreAt
  <2>4. map[w].category # Null
    BY <1>3, ScoreAtType, RowsAssumption
  <2>5. QED BY <2>1, <2>3, <2>4
<1>14. LookupOverride(map, v) = Null \/ LookupOverride(map, v) \in near
  <2> DEFINE k == ToUpper(v)
             p == Position(map, k)
  <2>1. CASE k \notin KeysOf(map)
    BY <2>1 DEF LookupOverride
  <2>2. CASE k \in KeysOf(map)
    <3>1. p \in DOMAIN map /\ map[p].key = k
      <4> HIDE DEF k
      <4> QED BY <2>2 DEF KeysOf, Position
    <3>2. LookupOverride(map, v) = map[p].category
      BY <2>2 DEF LookupOverride
    <3> HIDE DEF p
    <3>3. p \in NoFarther(v, key)
      BY <3>1 DEF NoFarther
    <3>4. QED BY <3>2, <3>3
  <2>3. QED BY <2>1, <2>2
<1>15. ResolveCategory(Null, v, map) \in near
  <2> HIDE DEF near
  <2> QED BY <1>13, <1>14 DEF ResolveCategory
<1>16. QED BY <1>15

(***************************************************************************)
(* For any names, suffixes and map: the distance that is computed of two   *)
(* names is their edit distance, and every variant of a learned name that  *)
(* banks write shows the category of that name, or of a learned name that  *)
(* it is or that matches it no worse, as long as something of both is left *)
(* by normalizeMerchant.                                                   *)
(***************************************************************************)
THEOREM RowsNames == RowsSpec => []NamesMatch
<1>1. MapSound(map) => NamesMatch
  <2> SUFFICES ASSUME MapSound(map) PROVE NamesMatch
    OBVIOUS
  <2>1. DistancesExact
    BY RowsDistances DEF DistancesExact
  <2>2. VariantsCovered
    BY VariantCovered DEF VariantsCovered, MapSound
  <2>3. QED BY <2>1, <2>2 DEF NamesMatch
<1>2. QED BY <1>1, MapIsSound, PTL
=============================================================================
