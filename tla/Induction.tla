------------------------------ MODULE Induction ------------------------------
(***************************************************************************)
(* Induction over data, in a form that needs no operator as a parameter:   *)
(* the property is a set, and the elements that do not have it, if there   *)
(* are any, include a least one.  With it follow the facts about recursive *)
(* functions and folds that the other proofs rest on.                      *)
(***************************************************************************)
EXTENDS Integers, Sequences, FiniteSetsExt, FiniteSetTheorems, SequenceTheorems, WellFoundedInduction, TLAPS

-----------------------------------------------------------------------------
(* Induction. *)

\* The indices of a sequence are finitely many.
LEMMA AllFinite == \A n \in Nat : IsFiniteSet(1 .. n)
BY FS_Interval

\* A set that has every subset of S of which it has all smaller ones has all subsets of S.
LEMMA EverySubset ==
    ASSUME NEW S, IsFiniteSet(S), NEW family,
           \A T \in SUBSET S : (\A U \in SUBSET T : U # T => U \in family) => T \in family
    PROVE  SUBSET S \subseteq family
<1> DEFINE missing == {T \in SUBSET S : T \notin family}
<1> SUFFICES ASSUME missing # {} PROVE FALSE
    OBVIOUS
<1>1. missing \subseteq FiniteSubsetsOf(S)
    BY FS_FiniteSubsetsOfFinite
<1>2. PICK T \in missing : \A U \in missing : <<U, T>> \notin StrictSubsetOrdering(S)
    <2> HIDE DEF missing
    <2> QED
        BY <1>1, FS_StrictSubsetOrderingWellFounded, WFMin
<1>3. \A U \in SUBSET T : U # T => U \in family
    BY <1>2 DEF StrictSubsetOrdering
<1> QED
    BY <1>2, <1>3

\* A set with 0, and with the successor of each of its elements below n, has all of 0 .. n.
LEMMA UpTo ==
    ASSUME NEW n \in Nat, NEW S, 0 \in S, \A i \in 0 .. n - 1 : i \in S => i + 1 \in S
    PROVE  0 .. n \subseteq S
<1> DEFINE family == {T \in SUBSET (0 .. n) : \A i \in 0 .. n : T = 0 .. i => i \in S}
<1>1. IsFiniteSet(0 .. n)
    BY FS_Interval
<1>2. ASSUME NEW T \in SUBSET (0 .. n), \A U \in SUBSET T : U # T => U \in family
      PROVE  T \in family
    <2> SUFFICES ASSUME NEW i \in 0 .. n, T = 0 .. i PROVE i \in S
        OBVIOUS
    <2>1. CASE i # 0
        <3>1. i - 1 \in 0 .. n - 1 /\ 0 .. i - 1 \in SUBSET T /\ i \in T /\ i \notin 0 .. i - 1
            BY <2>1
        <3>2. 0 .. i - 1 \in family
            BY <1>2, <3>1
        <3>3. i - 1 \in S
            BY <3>1, <3>2
        <3> QED
            BY <3>1, <3>3
    <2> QED
        BY <2>1
<1>3. \A T \in SUBSET (0 .. n) : (\A U \in SUBSET T : U # T => U \in family) => T \in family
    BY <1>2
<1> DEFINE all == 0 .. n
<1>4. SUBSET all \subseteq family
    <2>1. IsFiniteSet(all) /\ \A T \in SUBSET all : (\A U \in SUBSET T : U # T => U \in family) => T \in family
        BY <1>1, <1>3
    <2> HIDE DEF all, family
    <2> QED
        BY <2>1, EverySubset
<1> HIDE DEF family
<1>5. \A i \in 0 .. n : 0 .. i \in SUBSET (0 .. n)
    OBVIOUS
<1>6. \A i \in 0 .. n : 0 .. i \in family
    BY <1>4, <1>5
<1> QED
    BY <1>6 DEF family

\* A set that has a finite S of which it has {}, and T with x added whenever it has T.
LEMMA OneByOne ==
    ASSUME NEW S, IsFiniteSet(S), NEW family, {} \in family,
           \A T \in SUBSET S, x \in S : T \in family => T \cup {x} \in family
    PROVE  S \in family
<1>1. ASSUME NEW T \in SUBSET S, \A U \in SUBSET T : U # T => U \in family PROVE T \in family
    <2>1. CASE T = {}
        BY <2>1
    <2>2. CASE T # {}
        <3>1. PICK x \in T : TRUE
            BY <2>2
        <3>2. T \ {x} \in family
            BY <1>1, <3>1
        <3>3. (T \ {x}) \cup {x} \in family
            BY <3>2
        <3>4. T = (T \ {x}) \cup {x}
            BY <3>1
        <3> QED
            BY <3>3, <3>4
    <2> QED
        BY <2>1, <2>2
<1>2. SUBSET S \subseteq family
    BY <1>1, EverySubset
<1> QED
    BY <1>2

\* last chooses an element of each subset of S, and family has each of which it has the rest.
Chooses(last, S) == \A T \in SUBSET S : T # {} => last[T] \in T
HasWithRest(family, last, S) == \A T \in SUBSET S : T # {} /\ T \ {last[T]} \in family => T \in family

LEMMA TakingOff ==
    ASSUME NEW S, IsFiniteSet(S), NEW last, Chooses(last, S), NEW family,
           {} \in family, HasWithRest(family, last, S)
    PROVE  SUBSET S \subseteq family
<1> USE DEF Chooses, HasWithRest
<1>1. ASSUME NEW T \in SUBSET S, \A U \in SUBSET T : U # T => U \in family PROVE T \in family
    <2>1. CASE T = {}
        BY <2>1
    <2>2. CASE T # {}
        <3>1. T \ {last[T]} \in SUBSET T /\ T \ {last[T]} # T
            BY <2>2
        <3> QED
            BY <1>1, <2>2, <3>1
    <2> QED
        BY <2>1, <2>2
<1> QED
    BY <1>1, EverySubset

-----------------------------------------------------------------------------
(* What a recursion along 0 .. n computes. *)

\* f starts from base, and each of its values is made from the one before.
Iterates(f, n, base, A, F) ==
    /\ f \in [0 .. n -> A] /\ f[0] = base
    /\ \A i \in 1 .. n : f[i] = F[i][f[i - 1]]

LEMMA IterateExists ==
    ASSUME NEW n \in Nat, NEW A, NEW base \in A, NEW F \in [1 .. n -> [A -> A]]
    PROVE  \E f : Iterates(f, n, base, A, F)
<1> DEFINE done == {k \in 0 .. n : \E f : Iterates(f, k, base, A, F)}
<1>1. 0 \in done
    <2>1. Iterates([i \in 0 .. 0 |-> base], 0, base, A, F)
        BY DEF Iterates
    <2> QED
        BY <2>1
<1>2. ASSUME NEW k \in 0 .. n - 1, k \in done PROVE k + 1 \in done
    <2>1. PICK f : Iterates(f, k, base, A, F)
        BY <1>2
    <2> DEFINE g == [i \in 0 .. k + 1 |-> IF i <= k THEN f[i] ELSE F[k + 1][f[k]]]
    <2>2. \A i \in 0 .. k : f[i] \in A
        BY <2>1 DEF Iterates
    <2>3. F[k + 1][f[k]] \in A
        BY <2>2
    <2>4. g \in [0 .. k + 1 -> A] /\ g[0] = base
        BY <2>1, <2>2, <2>3 DEF Iterates
    <2>5. ASSUME NEW i \in 1 .. k + 1 PROVE g[i] = F[i][g[i - 1]]
        <3>1. CASE i <= k
            <4>1. f[i] = F[i][f[i - 1]]
                BY <2>1, <3>1 DEF Iterates
            <4>2. g[i] = f[i] /\ g[i - 1] = f[i - 1]
                BY <3>1
            <4> HIDE DEF g
            <4> QED
                BY <4>1, <4>2
        <3>2. CASE i = k + 1
            <4>1. g[i] = F[k + 1][f[k]] /\ g[i - 1] = f[k]
                BY <3>2
            <4> HIDE DEF g
            <4> QED
                BY <3>2, <4>1
        <3> QED
            BY <3>1, <3>2
    <2> HIDE DEF g
    <2>6. Iterates(g, k + 1, base, A, F)
        BY <2>4, <2>5 DEF Iterates
    <2> QED
        BY <2>6
<1>3. \A k \in 0 .. n - 1 : k \in done => k + 1 \in done
    BY <1>2
<1> HIDE DEF done
<1>4. 0 .. n \subseteq done
    BY <1>1, <1>3, UpTo
<1>5. n \in done
    BY <1>4
<1> QED
    BY <1>5 DEF done

-----------------------------------------------------------------------------
(* The sum of v over the subsets of a set, in whatever order it is taken. *)

IsSum(sum, S, v) ==
    /\ sum \in [SUBSET S -> Int] /\ sum[{}] = 0
    /\ \A T \in SUBSET S : \A x \in T : sum[T] = sum[T \ {x}] + v[x]

LEMMA SumExists ==
    ASSUME NEW S, IsFiniteSet(S), NEW v \in [S -> Int]
    PROVE  \E sum : IsSum(sum, S, v)
<1> DEFINE family == {T \in SUBSET S : \E sum : IsSum(sum, T, v)}
<1>1. {} \in family
    <2>1. IsSum([T \in SUBSET {} |-> 0], {}, v)
        BY DEF IsSum
    <2> QED
        BY <2>1
<1>2. ASSUME NEW T \in SUBSET S, NEW y \in S, T \in family PROVE T \cup {y} \in family
    <2>1. PICK f : IsSum(f, T, v)
        BY <1>2
    <2>2. CASE y \in T
        <3>1. T \cup {y} = T
            BY <2>2
        <3> QED
            BY <1>2, <3>1
    <2>3. CASE y \notin T
        <3> DEFINE g == [U \in SUBSET (T \cup {y}) |-> IF y \in U THEN f[U \ {y}] + v[y] ELSE f[U]]
        <3>1. \A U \in SUBSET (T \cup {y}) : U \ {y} \in SUBSET T /\ f[U \ {y}] \in Int /\ v[y] \in Int
            BY <2>1 DEF IsSum
        <3>2. \A U \in SUBSET (T \cup {y}) : y \notin U => U \in SUBSET T
            OBVIOUS
        <3>3. g \in [SUBSET (T \cup {y}) -> Int] /\ g[{}] = 0
            BY <2>1, <3>1, <3>2 DEF IsSum
        <3>4. ASSUME NEW U \in SUBSET (T \cup {y}), NEW x \in U PROVE g[U] = g[U \ {x}] + v[x]
            <4>1. CASE y \notin U
                <5>1. U \in SUBSET T /\ g[U] = f[U] /\ g[U \ {x}] = f[U \ {x}]
                    BY <4>1
                <5> QED
                    BY <2>1, <5>1 DEF IsSum
            <4>2. CASE y \in U /\ x = y
                <5>1. g[U] = f[U \ {y}] + v[y] /\ g[U \ {x}] = f[U \ {y}]
                    BY <4>2
                <5> QED
                    BY <4>2, <5>1
            <4>3. CASE y \in U /\ x # y
                <5>1. g[U] = f[U \ {y}] + v[y] /\ g[U \ {x}] = f[(U \ {x}) \ {y}] + v[y]
                    BY <4>3
                <5>2. U \ {y} \in SUBSET T /\ x \in U \ {y} /\ (U \ {y}) \ {x} = (U \ {x}) \ {y}
                    BY <4>3
                <5>3. f[U \ {y}] = f[(U \ {x}) \ {y}] + v[x]
                    BY <2>1, <5>2 DEF IsSum
                <5>4. f[(U \ {x}) \ {y}] \in Int /\ v[x] \in Int /\ v[y] \in Int
                    BY <2>1, <5>2 DEF IsSum
                <5> HIDE DEF g
                <5> QED
                    BY <5>1, <5>3, <5>4
            <4> QED
                BY <4>1, <4>2, <4>3
        <3> HIDE DEF g
        <3>5. IsSum(g, T \cup {y}, v)
            BY <3>3, <3>4 DEF IsSum
        <3> QED
            BY <3>5
    <2> QED
        BY <2>2, <2>3
<1> HIDE DEF family
<1>3. \A T \in SUBSET S, x \in S : T \in family => T \cup {x} \in family
    BY <1>2
<1>4. S \in family
    BY <1>1, <1>3, OneByOne
<1> QED
    BY <1>4 DEF family

\* A sum over more is not less.
LEMMA SumGrows ==
    ASSUME NEW S, IsFiniteSet(S), NEW v \in [S -> Nat], NEW sum, IsSum(sum, S, v),
           NEW T \in SUBSET S, NEW U \in SUBSET T
    PROVE  sum[U] <= sum[T]
<1> DEFINE family == {W \in SUBSET S : sum[U] <= sum[U \cup W]}
<1>1. {} \in family
    BY DEF IsSum
<1>2. ASSUME NEW W \in SUBSET S, NEW x \in S, W \in family PROVE W \cup {x} \in family
    <2>1. CASE x \in U \cup W
        <3>1. U \cup (W \cup {x}) = U \cup W
            BY <2>1
        <3> QED
            BY <1>2, <3>1
    <2>2. CASE x \notin U \cup W
        <3> DEFINE all == U \cup (W \cup {x})
        <3>1. all \in SUBSET S /\ x \in all /\ all \ {x} = U \cup W /\ U \cup W \in SUBSET S
            BY <2>2
        <3>2. sum[all] = sum[U \cup W] + v[x]
            BY <3>1 DEF IsSum
        <3>3. sum[U] \in Int /\ sum[U \cup W] \in Int /\ v[x] \in Nat
            BY <3>1 DEF IsSum
        <3> QED
            BY <1>2, <3>2, <3>3
    <2> QED
        BY <2>1, <2>2
<1>3. \A W \in SUBSET S, x \in S : W \in family => W \cup {x} \in family
    BY <1>2
<1>4. IsFiniteSet(T)
    BY FS_Subset
<1> HIDE DEF family
<1>5. T \in family
    BY <1>1, <1>3, <1>4, OneByOne
<1>6. U \cup T = T
    OBVIOUS
<1> QED
    BY <1>5, <1>6 DEF family

\* A sum over more is made of sums over less: a running sum of v along 0 .. n.
RunningSum(f, n, v) ==
    /\ f \in [0 .. n -> Nat] /\ f[0] = v[0]
    /\ \A i \in 1 .. n : f[i] = v[i] + f[i - 1]

LEMMA RunningSumExists ==
    ASSUME NEW n \in Nat, NEW v \in [0 .. n -> Nat]
    PROVE  \E f : RunningSum(f, n, v)
<1> DEFINE F == [i \in 1 .. n |-> [a \in Nat |-> v[i] + a]]
<1>1. F \in [1 .. n -> [Nat -> Nat]] /\ v[0] \in Nat
    OBVIOUS
<1>2. PICK f : Iterates(f, n, v[0], Nat, F)
    <2> HIDE DEF F
    <2> QED
        BY <1>1, IterateExists
<1>3. \A i \in 1 .. n : f[i - 1] \in Nat /\ F[i][f[i - 1]] = v[i] + f[i - 1]
    BY <1>2 DEF Iterates
<1> QED
    BY <1>2, <1>3 DEF Iterates, RunningSum

\* The running sum, as a recursive function defines it.
Running(n, v) == CHOOSE f : f = [i \in 0 .. n |-> v[i] + IF i = 0 THEN 0 ELSE f[i - 1]]

LEMMA RunningIsSum ==
    ASSUME NEW n \in Nat, NEW v \in [0 .. n -> Nat]
    PROVE  RunningSum(Running(n, v), n, v)
<1> DEFINE Adds(f) == f = [i \in 0 .. n |-> v[i] + IF i = 0 THEN 0 ELSE f[i - 1]]
<1>1. PICK f : RunningSum(f, n, v)
    BY RunningSumExists
<1>2. Adds(f)
    <2>1. ASSUME NEW i \in 0 .. n PROVE f[i] = v[i] + IF i = 0 THEN 0 ELSE f[i - 1]
        <3>1. CASE i = 0
            BY <1>1, <3>1 DEF RunningSum
        <3>2. CASE i # 0
            BY <1>1, <3>2 DEF RunningSum
        <3> QED
            BY <3>1, <3>2
    <2>2. f = [i \in 0 .. n |-> f[i]]
        BY <1>1 DEF RunningSum
    <2> QED
        BY <2>1, <2>2
<1>3. Adds(Running(n, v))
    <2>1. Running(n, v) = CHOOSE u : Adds(u)
        BY DEF Running
    <2> HIDE DEF Adds
    <2> QED
        BY <1>2, <2>1
<1> DEFINE u == Running(n, v)
<1>4. u = [i \in 0 .. n |-> v[i] + IF i = 0 THEN 0 ELSE u[i - 1]]
    BY <1>3
<1> HIDE DEF u
<1>5. u[0] = v[0] /\ \A i \in 1 .. n : u[i] = v[i] + u[i - 1]
    <2>1. \A i \in 0 .. n : u[i] = v[i] + IF i = 0 THEN 0 ELSE u[i - 1]
        BY <1>4
    <2>2. v[0] \in Nat /\ u[0] = v[0] + IF 0 = 0 THEN 0 ELSE u[0 - 1]
        BY <2>1
    <2>3. \A i \in 1 .. n : i \in 0 .. n /\ i # 0
        OBVIOUS
    <2> QED
        BY <2>1, <2>2, <2>3
<1> DEFINE done == {i \in 0 .. n : u[i] \in Nat}
<1>6. 0 \in done
    BY <1>5
<1>7. ASSUME NEW i \in 0 .. n - 1, i \in done PROVE i + 1 \in done
    <2>1. u[i + 1] = v[i + 1] + u[i] /\ v[i + 1] \in Nat /\ u[i] \in Nat /\ i + 1 \in 0 .. n
        BY <1>5, <1>7
    <2> QED
        BY <2>1
<1>8. \A i \in 0 .. n - 1 : i \in done => i + 1 \in done
    BY <1>7
<1> HIDE DEF done
<1>9. 0 .. n \subseteq done
    BY <1>6, <1>8, UpTo
<1>10. u \in [0 .. n -> Nat]
    <2>1. \A i \in 0 .. n : u[i] \in Nat
        BY <1>9 DEF done
    <2>2. DOMAIN u = 0 .. n /\ u = [i \in DOMAIN u |-> u[i]]
        BY <1>4
    <2> QED
        BY <2>1, <2>2
<1> QED
    BY <1>5, <1>10 DEF RunningSum, u

\* With one more at the start there is one more everywhere.
MoreAtStart(w, n, v) == w[0] = v[0] + 1 /\ \A i \in 1 .. n : w[i] = v[i]
MoreEverywhere(h, n, f) == \A k \in 0 .. n : h[k] = f[k] + 1

LEMMA RunningOfMore ==
    ASSUME NEW n \in Nat, NEW v \in [0 .. n -> Nat], NEW w, MoreAtStart(w, n, v),
           NEW f, RunningSum(f, n, v), NEW h, RunningSum(h, n, w)
    PROVE  MoreEverywhere(h, n, f)
<1> USE DEF MoreAtStart, MoreEverywhere
<1> DEFINE done == {k \in 0 .. n : h[k] = f[k] + 1}
<1>1. 0 \in done
    BY DEF RunningSum
<1>2. ASSUME NEW i \in 0 .. n - 1, i \in done PROVE i + 1 \in done
    <2>1. i \in 0 .. n /\ i + 1 \in 1 .. n /\ i + 1 # 0 /\ i + 1 - 1 = i
        OBVIOUS
    <2>2. w[i + 1] = v[i + 1] /\ v[i + 1] \in Nat /\ f[i] \in Nat
        <3>1. \A k \in 1 .. n : w[k] = v[k] /\ v[k] \in Nat
            OBVIOUS
        <3>2. \A k \in 0 .. n : f[k] \in Nat
            BY DEF RunningSum
        <3> QED
            BY <2>1, <3>1, <3>2
    <2>3. \A k \in 1 .. n : h[k] = w[k] + h[k - 1] /\ f[k] = v[k] + f[k - 1]
        BY DEF RunningSum
    <2>4. h[i + 1] = w[i + 1] + h[i] /\ f[i + 1] = v[i + 1] + f[i]
        BY <2>1, <2>3
    <2>5. h[i] = f[i] + 1
        BY <1>2
    <2> QED
        BY <2>1, <2>2, <2>4, <2>5
<1>3. \A i \in 0 .. n - 1 : i \in done => i + 1 \in done
    BY <1>2
<1> HIDE DEF done
<1>4. 0 .. n \subseteq done
    BY <1>1, <1>3, UpTo
<1> QED
    BY <1>4 DEF done

\* When all has moved on by one, so have its sums.
MovedOn(w, n, v) == w[0] = 0 /\ \A i \in 1 .. n : w[i] = v[i - 1]

LEMMA RunningOfShifted ==
    ASSUME NEW n \in Nat, NEW v \in [0 .. n -> Nat], NEW w, MovedOn(w, n, v),
           NEW f, RunningSum(f, n, v), NEW h, RunningSum(h, n, w)
    PROVE  MovedOn(h, n, f)
<1> USE DEF MovedOn
<1> DEFINE done == {k \in 0 .. n : IF k = 0 THEN h[k] = 0 ELSE h[k] = f[k - 1]}
<1>1. 0 \in done
    BY DEF RunningSum
<1>2. ASSUME NEW i \in 0 .. n - 1, i \in done PROVE i + 1 \in done
    <2>1. i + 1 \in 1 .. n /\ w[i + 1] = v[i] /\ v[i] \in Nat
        <3>1. i + 1 \in 0 .. n /\ i + 1 # 0 /\ i + 1 - 1 = i /\ i \in 0 .. n
            OBVIOUS
        <3> QED
            BY <3>1
    <2>2. h[i + 1] = v[i] + h[i]
        <3>1. \A k \in 1 .. n : h[k] = w[k] + h[k - 1]
            BY DEF RunningSum
        <3>2. h[i + 1] = w[i + 1] + h[(i + 1) - 1]
            <4> DEFINE j == i + 1
            <4>1. j \in 1 .. n
                OBVIOUS
            <4> HIDE DEF j, done
            <4>2. h[j] = w[j] + h[j - 1]
                BY <3>1, <4>1
            <4> QED
                BY <4>2 DEF j
        <3>3. (i + 1) - 1 = i
            OBVIOUS
        <3>4. h[i + 1] = w[i + 1] + h[i]
            BY <3>2, <3>3
        <3> HIDE DEF done
        <3> QED
            BY <2>1, <3>4
    <2>3. CASE i = 0
        <3>1. h[i] = 0 /\ f[i] = v[i]
            BY <1>1, <2>3 DEF RunningSum
        <3> QED
            BY <2>1, <2>2, <2>3, <3>1
    <2>4. CASE i # 0
        <3>1. h[i] = f[i - 1] /\ f[i] = v[i] + f[i - 1]
            BY <1>2, <2>4 DEF RunningSum
        <3> QED
            BY <2>1, <2>2, <2>4, <3>1
    <2> QED
        BY <2>3, <2>4
<1>3. \A i \in 0 .. n - 1 : i \in done => i + 1 \in done
    BY <1>2
<1> HIDE DEF done
<1>4. 0 .. n \subseteq done
    BY <1>1, <1>3, UpTo
<1> QED
    BY <1>4 DEF done

-----------------------------------------------------------------------------
(* The total of v over a finite set. *)

Sigma(S, v) == (CHOOSE sum : IsSum(sum, S, v))[S]

LEMMA SumIsOne ==
    ASSUME NEW S, IsFiniteSet(S), NEW v, NEW f, IsSum(f, S, v), NEW g, IsSum(g, S, v)
    PROVE  f[S] = g[S]
<1> DEFINE family == {T \in SUBSET S : f[T] = g[T]}
<1>1. {} \in family
    BY DEF IsSum
<1>2. ASSUME NEW T \in SUBSET S, NEW x \in S, T \in family PROVE T \cup {x} \in family
    <2>1. CASE x \in T
        <3>1. T \cup {x} = T
            BY <2>1
        <3> QED
            BY <1>2, <3>1
    <2>2. CASE x \notin T
        <3>1. T \cup {x} \in SUBSET S /\ (T \cup {x}) \ {x} = T /\ x \in T \cup {x}
            BY <2>2
        <3>2. f[T \cup {x}] = f[T] + v[x] /\ g[T \cup {x}] = g[T] + v[x]
            BY <3>1 DEF IsSum
        <3> QED
            BY <1>2, <3>1, <3>2
    <2> QED
        BY <2>1, <2>2
<1>3. \A T \in SUBSET S, x \in S : T \in family => T \cup {x} \in family
    BY <1>2
<1> HIDE DEF family
<1>4. S \in family
    BY <1>1, <1>3, OneByOne
<1> QED
    BY <1>4 DEF family

LEMMA SigmaIs ==
    ASSUME NEW S, IsFiniteSet(S), NEW v, NEW sum, IsSum(sum, S, v)
    PROVE  Sigma(S, v) = sum[S]
<1>1. IsSum(CHOOSE f : IsSum(f, S, v), S, v)
    OBVIOUS
<1> QED
    BY <1>1, SumIsOne DEF Sigma

\* What is known of a total: it is nothing for no element, and each element adds its own.
LEMMA SigmaTakes ==
    ASSUME NEW S, IsFiniteSet(S), NEW v, \A x \in S : v[x] \in Int
    PROVE  /\ Sigma({}, v) = 0 /\ Sigma(S, v) \in Int
           /\ \A x \in S : Sigma(S, v) = Sigma(S \ {x}, v) + v[x]
<1>1. PICK sum : IsSum(sum, S, [x \in S |-> v[x]])
    BY SumExists
<1>2. IsSum(sum, S, v)
    BY <1>1 DEF IsSum
<1>3. Sigma(S, v) = sum[S] /\ sum[S] \in Int
    BY <1>2, SigmaIs DEF IsSum
<1>4. Sigma({}, v) = 0
    <2>1. IsSum([T \in SUBSET {} |-> 0], {}, v)
        BY DEF IsSum
    <2>2. IsFiniteSet({})
        BY FS_EmptySet
    <2> QED
        BY <2>1, <2>2, SigmaIs
<1>5. ASSUME NEW x \in S PROVE Sigma(S, v) = Sigma(S \ {x}, v) + v[x]
    <2> DEFINE rest == S \ {x}
               part == [T \in SUBSET rest |-> sum[T]]
    <2>1. \A T \in SUBSET rest : part[T] = sum[T] /\ T \in SUBSET S
        OBVIOUS
    <2>2. part \in [SUBSET rest -> Int] /\ part[{}] = 0
        BY <1>2, <2>1 DEF IsSum
    <2>3. ASSUME NEW T \in SUBSET rest, NEW y \in T PROVE part[T] = part[T \ {y}] + v[y]
        BY <1>2, <2>1 DEF IsSum
    <2> HIDE DEF part
    <2>4. IsSum(part, rest, v)
        BY <2>2, <2>3 DEF IsSum
    <2>5. IsFiniteSet(rest)
        BY FS_Subset
    <2>6. Sigma(rest, v) = sum[rest]
        BY <2>1, <2>4, <2>5, SigmaIs
    <2>7. sum[S] = sum[rest] + v[x]
        BY <1>2 DEF IsSum
    <2> QED
        BY <1>3, <2>6, <2>7
<1> QED
    BY <1>3, <1>4, <1>5

\* One more element.
LEMMA SigmaAdds ==
    ASSUME NEW S, IsFiniteSet(S), NEW x, x \notin S, NEW v, \A y \in S \cup {x} : v[y] \in Int
    PROVE  /\ Sigma(S, v) \in Int /\ Sigma(S \cup {x}, v) = Sigma(S, v) + v[x]
<1>1. IsFiniteSet(S \cup {x})
    BY FS_AddElement
<1>2. (S \cup {x}) \ {x} = S
    OBVIOUS
<1>3. Sigma(S \cup {x}, v) = Sigma((S \cup {x}) \ {x}, v) + v[x]
    BY <1>1, SigmaTakes
<1>4. Sigma(S, v) \in Int
    BY SigmaTakes
<1> QED
    BY <1>2, <1>3, <1>4

\* The total depends on the values of its elements only.
LEMMA SigmaOfSame ==
    ASSUME NEW S, IsFiniteSet(S), NEW v, \A x \in S : v[x] \in Int, NEW w, \A x \in S : w[x] = v[x]
    PROVE  Sigma(S, w) = Sigma(S, v)
<1> DEFINE family == {T \in SUBSET S : IsFiniteSet(T) /\ Sigma(T, w) = Sigma(T, v)}
<1>1. {} \in family
    <2>1. IsFiniteSet({})
        BY FS_EmptySet
    <2>2. Sigma({}, w) = 0 /\ Sigma({}, v) = 0
        BY <2>1, SigmaTakes
    <2> QED
        BY <2>1, <2>2
<1>2. ASSUME NEW T \in SUBSET S, NEW x \in S, T \in family PROVE T \cup {x} \in family
    <2>1. CASE x \in T
        <3>1. T \cup {x} = T
            BY <2>1
        <3> QED
            BY <1>2, <3>1
    <2>2. CASE x \notin T
        <3>1. IsFiniteSet(T) /\ IsFiniteSet(T \cup {x}) /\ T \cup {x} \in SUBSET S
            BY <1>2, FS_AddElement
        <3>2. \A y \in T \cup {x} : v[y] \in Int /\ w[y] \in Int
            OBVIOUS
        <3>3. Sigma(T \cup {x}, w) = Sigma(T, w) + w[x]
            BY <2>2, <3>1, <3>2, SigmaAdds
        <3>4. Sigma(T \cup {x}, v) = Sigma(T, v) + v[x]
            BY <2>2, <3>1, <3>2, SigmaAdds
        <3> QED
            BY <1>2, <3>1, <3>3, <3>4
    <2> QED
        BY <2>1, <2>2
<1>3. \A T \in SUBSET S, x \in S : T \in family => T \cup {x} \in family
    BY <1>2
<1> HIDE DEF family
<1>4. S \in family
    BY <1>1, <1>3, OneByOne
<1> QED
    BY <1>4 DEF family

\* One element has another value.
LEMMA SigmaOfChanged ==
    ASSUME NEW S, IsFiniteSet(S), NEW v, \A x \in S : v[x] \in Int, NEW i \in S,
           NEW w, w[i] \in Int, \A x \in S \ {i} : w[x] = v[x]
    PROVE  Sigma(S, w) = Sigma(S, v) - v[i] + w[i]
<1>1. IsFiniteSet(S \ {i})
    BY FS_Subset
<1>2. Sigma(S \ {i}, w) = Sigma(S \ {i}, v)
    BY <1>1, SigmaOfSame
<1>3. Sigma(S \ {i}, v) \in Int
    BY <1>1, SigmaTakes
<1>4. Sigma(S, v) = Sigma(S \ {i}, v) + v[i] /\ v[i] \in Int
    BY SigmaTakes
<1>5. \A x \in S : w[x] \in Int
    OBVIOUS
<1>6. Sigma(S, w) = Sigma(S \ {i}, w) + w[i]
    BY <1>5, SigmaTakes
<1> QED
    BY <1>2, <1>3, <1>4, <1>6

\* A total is no more than that of greater values.
LEMMA SigmaOfLess ==
    ASSUME NEW S, IsFiniteSet(S), NEW v, NEW w, \A x \in S : v[x] \in Int /\ w[x] \in Int /\ w[x] <= v[x]
    PROVE  Sigma(S, w) <= Sigma(S, v)
<1> DEFINE family == {T \in SUBSET S : IsFiniteSet(T) /\ Sigma(T, w) <= Sigma(T, v)}
<1>1. {} \in family
    <2>1. IsFiniteSet({})
        BY FS_EmptySet
    <2>2. Sigma({}, w) = 0 /\ Sigma({}, v) = 0
        BY <2>1, SigmaTakes
    <2> QED
        BY <2>1, <2>2
<1>2. ASSUME NEW T \in SUBSET S, NEW x \in S, T \in family PROVE T \cup {x} \in family
    <2>1. CASE x \in T
        <3>1. T \cup {x} = T
            BY <2>1
        <3> QED
            BY <1>2, <3>1
    <2>2. CASE x \notin T
        <3>1. IsFiniteSet(T) /\ IsFiniteSet(T \cup {x})
            BY <1>2, FS_AddElement
        <3>2. \A y \in T \cup {x} : v[y] \in Int /\ w[y] \in Int
            OBVIOUS
        <3>3. /\ Sigma(T, v) \in Int /\ Sigma(T \cup {x}, v) = Sigma(T, v) + v[x]
              /\ Sigma(T, w) \in Int /\ Sigma(T \cup {x}, w) = Sigma(T, w) + w[x]
            BY <2>2, <3>1, <3>2, SigmaAdds
        <3>4. w[x] <= v[x] /\ v[x] \in Int /\ w[x] \in Int /\ Sigma(T, w) <= Sigma(T, v)
            BY <1>2
        <3>5. Sigma(T \cup {x}, w) <= Sigma(T \cup {x}, v)
            BY <3>3, <3>4
        <3> QED
            BY <3>1, <3>5
    <2> QED
        BY <2>1, <2>2
<1> HIDE DEF family
<1>3. \A T \in SUBSET S, x \in S : T \in family => T \cup {x} \in family
    BY <1>2
<1>4. S \in family
    BY <1>1, <1>3, OneByOne
<1> QED
    BY <1>4 DEF family

\* Without some that are not positive a total is no less.
LEMMA SigmaOfPart ==
    ASSUME NEW S, IsFiniteSet(S), NEW v, \A x \in S : v[x] \in Int, NEW T \in SUBSET S,
           \A x \in S \ T : v[x] <= 0
    PROVE  Sigma(S, v) <= Sigma(T, v)
<1> DEFINE family == {U \in SUBSET S : IsFiniteSet(T \cup U) /\ Sigma(T \cup U, v) <= Sigma(T, v)}
<1>1. IsFiniteSet(T)
    BY FS_Subset
<1>2. Sigma(T, v) \in Int
    BY <1>1, SigmaTakes
<1>3. {} \in family
    <2>1. T \cup {} = T
        OBVIOUS
    <2> QED
        BY <1>1, <1>2, <2>1
<1>4. ASSUME NEW U \in SUBSET S, NEW x \in S, U \in family PROVE U \cup {x} \in family
    <2> DEFINE W == T \cup U
    <2>1. T \cup (U \cup {x}) = W \cup {x} /\ W \in SUBSET S
        OBVIOUS
    <2>2. CASE x \in W
        <3>1. W \cup {x} = W
            BY <2>2
        <3> QED
            BY <1>4, <2>1, <3>1
    <2>3. CASE x \notin W
        <3>1. IsFiniteSet(W) /\ IsFiniteSet(W \cup {x}) /\ Sigma(W, v) <= Sigma(T, v)
            BY <1>4, FS_AddElement
        <3>2. \A y \in W \cup {x} : v[y] \in Int
            OBVIOUS
        <3>3. v[x] \in Int /\ v[x] <= 0
            BY <2>3
        <3> HIDE DEF W
        <3>4. Sigma(W, v) \in Int /\ Sigma(W \cup {x}, v) = Sigma(W, v) + v[x]
            BY <2>3, <3>1, <3>2, SigmaAdds
        <3>5. Sigma(W \cup {x}, v) <= Sigma(T, v)
            BY <1>2, <3>1, <3>3, <3>4
        <3> QED
            BY <2>1, <3>1, <3>5
    <2> QED
        BY <2>2, <2>3
<1> HIDE DEF family
<1>5. \A U \in SUBSET S, x \in S : U \in family => U \cup {x} \in family
    BY <1>4
<1>6. S \in family
    BY <1>3, <1>5, OneByOne
<1>7. T \cup S = S
    OBVIOUS
<1> QED
    BY <1>6, <1>7 DEF family

\* The total of nothing but zeros.
LEMMA SigmaOfZeros ==
    ASSUME NEW S, IsFiniteSet(S), NEW v, \A x \in S : v[x] = 0
    PROVE  Sigma(S, v) = 0
<1>1. \A x \in S : v[x] \in Int
    OBVIOUS
<1>2. Sigma({}, v) = 0
    BY <1>1, SigmaTakes
<1> DEFINE family == {T \in SUBSET S : IsFiniteSet(T) /\ Sigma(T, v) = 0}
<1>3. {} \in family
    BY <1>2, FS_EmptySet
<1>4. ASSUME NEW T \in SUBSET S, NEW x \in S, T \in family PROVE T \cup {x} \in family
    <2>1. CASE x \in T
        <3>1. T \cup {x} = T
            BY <2>1
        <3> QED
            BY <1>4, <3>1
    <2>2. CASE x \notin T
        <3>1. IsFiniteSet(T) /\ IsFiniteSet(T \cup {x}) /\ Sigma(T, v) = 0 /\ v[x] = 0
            BY <1>4, FS_AddElement
        <3>2. \A y \in T \cup {x} : v[y] \in Int
            BY <1>1
        <3>3. Sigma(T \cup {x}, v) = Sigma(T, v) + v[x]
            BY <2>2, <3>1, <3>2, SigmaAdds
        <3> QED
            BY <3>1, <3>3
    <2> QED
        BY <2>1, <2>2
<1> HIDE DEF family
<1>5. \A T \in SUBSET S, x \in S : T \in family => T \cup {x} \in family
    BY <1>4
<1>6. S \in family
    BY <1>3, <1>5, OneByOne
<1> QED
    BY <1>6 DEF family

\* A total of natural numbers is one, and no less than each of them, or than that of some.
LEMMA SigmaOfNats ==
    ASSUME NEW S, IsFiniteSet(S), NEW v, \A x \in S : v[x] \in Nat
    PROVE  /\ Sigma(S, v) \in Nat /\ \A x \in S : v[x] <= Sigma(S, v)
           /\ \A T \in SUBSET S : Sigma(T, v) \in Nat /\ Sigma(T, v) <= Sigma(S, v)
<1> DEFINE zero == [x \in S |-> 0]
<1>1. \A T \in SUBSET S : IsFiniteSet(T)
    BY FS_Subset
<1>2. ASSUME NEW T \in SUBSET S PROVE Sigma(T, v) \in Nat
    <2>1. /\ IsFiniteSet(T) /\ \A x \in T : zero[x] = 0
          /\ \A x \in T : v[x] \in Int /\ zero[x] \in Int /\ zero[x] <= v[x]
        BY <1>1
    <2> HIDE DEF zero
    <2>2. Sigma(T, zero) = 0 /\ Sigma(T, zero) <= Sigma(T, v) /\ Sigma(T, v) \in Int
        BY <2>1, SigmaOfZeros, SigmaOfLess, SigmaTakes
    <2> QED
        BY <2>2
<1>3. ASSUME NEW x \in S PROVE v[x] <= Sigma(S, v)
    <2>1. S \ {x} \in SUBSET S /\ v[x] \in Nat /\ \A y \in S : v[y] \in Int
        OBVIOUS
    <2>2. Sigma(S, v) = Sigma(S \ {x}, v) + v[x] /\ Sigma(S \ {x}, v) \in Nat
        BY <1>2, <2>1, SigmaTakes
    <2> QED
        BY <2>1, <2>2
<1>4. ASSUME NEW T \in SUBSET S PROVE Sigma(T, v) <= Sigma(S, v)
    <2> DEFINE family == {U \in SUBSET S : Sigma(T, v) <= Sigma(T \cup U, v)}
    <2>1. {} \in family
        <3>1. T \cup {} = T
            OBVIOUS
        <3> QED
            BY <1>2, <3>1
    <2>2. ASSUME NEW U \in SUBSET S, NEW x \in S, U \in family PROVE U \cup {x} \in family
        <3> DEFINE W == T \cup U
        <3>1. T \cup (U \cup {x}) = W \cup {x} /\ W \in SUBSET S /\ W \cup {x} \in SUBSET S
            OBVIOUS
        <3>2. CASE x \in W
            <4>1. W \cup {x} = W
                BY <3>2
            <4> QED
                BY <2>2, <3>1, <4>1
        <3>3. CASE x \notin W
            <4>1. \A y \in W \cup {x} : v[y] \in Int
                OBVIOUS
            <4>2. Sigma(W, v) \in Nat /\ Sigma(T, v) \in Nat /\ v[x] \in Nat /\ Sigma(T, v) <= Sigma(W, v)
                BY <1>2, <2>2, <3>1
            <4>3. IsFiniteSet(W)
                BY <1>1, <3>1
            <4> HIDE DEF W
            <4>4. Sigma(W \cup {x}, v) = Sigma(W, v) + v[x]
                BY <3>3, <4>1, <4>3, SigmaAdds
            <4>5. Sigma(T, v) <= Sigma(W \cup {x}, v)
                BY <4>2, <4>4
            <4> QED
                BY <3>1, <4>5
        <3> QED
            BY <3>2, <3>3
    <2> HIDE DEF family
    <2>3. \A U \in SUBSET S, x \in S : U \in family => U \cup {x} \in family
        BY <2>2
    <2>4. S \in family
        BY <2>1, <2>3, OneByOne
    <2>5. T \cup S = S
        OBVIOUS
    <2> QED
        BY <2>4, <2>5 DEF family
<1> QED
    BY <1>2, <1>3, <1>4

\* The total of sums is the sum of the totals.
LEMMA SigmaOfSums ==
    ASSUME NEW S, IsFiniteSet(S), NEW v, NEW w, NEW u,
           \A x \in S : v[x] \in Int /\ w[x] \in Int /\ u[x] = v[x] + w[x]
    PROVE  Sigma(S, u) = Sigma(S, v) + Sigma(S, w)
<1> DEFINE family == {T \in SUBSET S : IsFiniteSet(T) /\ Sigma(T, u) = Sigma(T, v) + Sigma(T, w)}
<1>1. {} \in family
    <2>1. IsFiniteSet({})
        BY FS_EmptySet
    <2>2. Sigma({}, u) = 0 /\ Sigma({}, v) = 0 /\ Sigma({}, w) = 0
        BY <2>1, SigmaTakes
    <2> QED
        BY <2>1, <2>2
<1>2. ASSUME NEW T \in SUBSET S, NEW x \in S, T \in family PROVE T \cup {x} \in family
    <2>1. CASE x \in T
        <3>1. T \cup {x} = T
            BY <2>1
        <3> QED
            BY <1>2, <3>1
    <2>2. CASE x \notin T
        <3>1. IsFiniteSet(T) /\ IsFiniteSet(T \cup {x}) /\ Sigma(T, u) = Sigma(T, v) + Sigma(T, w)
            BY <1>2, FS_AddElement
        <3>2. \A y \in T \cup {x} : v[y] \in Int /\ w[y] \in Int /\ u[y] \in Int
            OBVIOUS
        <3>3. /\ Sigma(T, v) \in Int /\ Sigma(T \cup {x}, v) = Sigma(T, v) + v[x]
              /\ Sigma(T, w) \in Int /\ Sigma(T \cup {x}, w) = Sigma(T, w) + w[x]
              /\ Sigma(T, u) \in Int /\ Sigma(T \cup {x}, u) = Sigma(T, u) + u[x]
            BY <2>2, <3>1, <3>2, SigmaAdds
        <3>4. u[x] = v[x] + w[x] /\ v[x] \in Int /\ w[x] \in Int
            OBVIOUS
        <3>5. Sigma(T \cup {x}, u) = Sigma(T \cup {x}, v) + Sigma(T \cup {x}, w)
            BY <3>1, <3>3, <3>4
        <3> QED
            BY <3>1, <3>5
    <2> QED
        BY <2>1, <2>2
<1> HIDE DEF family
<1>3. \A T \in SUBSET S, x \in S : T \in family => T \cup {x} \in family
    BY <1>2
<1>4. S \in family
    BY <1>1, <1>3, OneByOne
<1> QED
    BY <1>4 DEF family

\* The total when only one is not zero.
LEMMA SigmaOfOne ==
    ASSUME NEW S, IsFiniteSet(S), NEW i \in S, NEW v, v[i] \in Int, \A x \in S \ {i} : v[x] = 0
    PROVE  Sigma(S, v) = v[i]
<1>1. IsFiniteSet(S \ {i})
    BY FS_Subset
<1>2. \A x \in S : v[x] \in Int
    OBVIOUS
<1>3. Sigma(S \ {i}, v) = 0
    BY <1>1, SigmaOfZeros
<1>4. Sigma(S, v) = Sigma(S \ {i}, v) + v[i]
    BY <1>2, SigmaTakes
<1> QED
    BY <1>3, <1>4

-----------------------------------------------------------------------------
(* Folds along 1 .. n, as the library defines them: the last element of a set is taken first. *)

\* A set of numbers has a least and a greatest one.
LEMMA MinOf ==
    ASSUME NEW n \in Nat, NEW S \in SUBSET (0 .. n), S # {}
    PROVE  Min(S) \in S /\ \A x \in S : Min(S) <= x
<1> DEFINE none == {k \in 0 .. n : \A i \in 0 .. k : i \notin S}
<1>1. \E m \in S : \A x \in S : m <= x
    <2> SUFFICES ASSUME ~\E m \in S : \A x \in S : m <= x PROVE FALSE
        OBVIOUS
    <2>1. 0 \in none
        <3>1. \A x \in S : 0 <= x
            OBVIOUS
        <3> QED
            BY <3>1
    <2>2. ASSUME NEW k \in 0 .. n - 1, k \in none PROVE k + 1 \in none
        <3>1. \A x \in S : k + 1 <= x
            BY <2>2
        <3> QED
            BY <2>2, <3>1
    <2>3. \A k \in 0 .. n - 1 : k \in none => k + 1 \in none
        BY <2>2
    <2> HIDE DEF none
    <2>4. 0 .. n \subseteq none
        BY <2>1, <2>3, UpTo
    <2>5. PICK x \in S : TRUE
        OBVIOUS
    <2>6. x \in none
        BY <2>4
    <2>7. x \in 0 .. x
        OBVIOUS
    <2> QED
        BY <2>6, <2>7 DEF none
<1> QED
    BY <1>1 DEF Min

LEMMA MaxOf ==
    ASSUME NEW n \in Nat, NEW S \in SUBSET (1 .. n), S # {}
    PROVE  Max(S) \in S /\ \A x \in S : x <= Max(S)
<1> DEFINE family == {T \in SUBSET S : T # {} => \E m \in T : \A x \in T : x <= m}
<1>1. {} \in family
    OBVIOUS
<1>2. ASSUME NEW T \in SUBSET S, NEW y \in S, T \in family PROVE T \cup {y} \in family
    <2>1. CASE T = {}
        BY <2>1
    <2>2. CASE T # {}
        <3>1. PICK m \in T : \A x \in T : x <= m
            BY <1>2, <2>2
        <3>2. CASE y <= m
            BY <3>1, <3>2
        <3>3. CASE ~(y <= m)
            <4>1. \A x \in T \cup {y} : x <= y
                BY <3>1, <3>3
            <4> QED
                BY <4>1
        <3> QED
            BY <3>2, <3>3
    <2> QED
        BY <2>1, <2>2
<1>3. \A T \in SUBSET S, x \in S : T \in family => T \cup {x} \in family
    BY <1>2
<1>4. IsFiniteSet(S)
    <2>1. IsFiniteSet(1 .. n)
        BY FS_Interval
    <2> QED
        BY <2>1, FS_Subset
<1> HIDE DEF family
<1>5. S \in family
    BY <1>1, <1>3, <1>4, OneByOne
<1>6. \E m \in S : \A x \in S : x <= m
    BY <1>5 DEF family
<1> QED
    BY <1>6 DEF Max

\* fold starts from base, and takes the elements of a set one after the other, in the order in
\* which they are the last of those that are left.
TakesInTurn(fold, S, base, A, F, last) ==
    /\ fold \in [SUBSET S -> A] /\ fold[{}] = base
    /\ \A T \in SUBSET S : T # {} => fold[T] = F[last[T]][fold[T \ {last[T]}]]

LEMMA TurnsExist ==
    ASSUME NEW S, IsFiniteSet(S), NEW A, NEW base \in A, NEW F \in [S -> [A -> A]],
           NEW last, Chooses(last, S)
    PROVE  \E fold : TakesInTurn(fold, S, base, A, F, last)
<1> USE DEF Chooses
<1> DEFINE Up(fold, k) ==
               /\ fold \in [SUBSET S -> A] /\ fold[{}] = base
               /\ \A T \in SUBSET S :
                     T # {} /\ Cardinality(T) <= k => fold[T] = F[last[T]][fold[T \ {last[T]}]]
           n == Cardinality(S)
           done == {k \in 0 .. n : \E fold : Up(fold, k)}
<1>1. n \in Nat /\ \A T \in SUBSET S : IsFiniteSet(T) /\ Cardinality(T) \in Nat /\ Cardinality(T) <= n
    BY FS_CardinalityType, FS_Subset
<1>2. \A T \in SUBSET S : T # {} => Cardinality(T) # 0 /\ Cardinality(T \ {last[T]}) = Cardinality(T) - 1
    BY <1>1, FS_EmptySet, FS_RemoveElement
<1>3. 0 \in done
    <2> DEFINE f == [T \in SUBSET S |-> base]
    <2>1. ASSUME NEW T \in SUBSET S, T # {} PROVE ~(Cardinality(T) <= 0)
        <3>1. Cardinality(T) \in Nat
            BY <1>1
        <3>2. Cardinality(T) # 0
            BY <1>2, <2>1
        <3> QED
            BY <3>1, <3>2
    <2>2. f \in [SUBSET S -> A] /\ f[{}] = base
        OBVIOUS
    <2> HIDE DEF f
    <2>3. Up(f, 0)
        BY <2>1, <2>2
    <2> HIDE DEF Up
    <2> QED
        BY <1>1, <2>3
<1>4. ASSUME NEW k \in 0 .. n - 1, k \in done PROVE k + 1 \in done
    <2>1. PICK f : Up(f, k)
        BY <1>4
    <2> DEFINE Next(T) == F[last[T]][f[T \ {last[T]}]]
               g == [T \in SUBSET S |-> IF Cardinality(T) = k + 1 THEN Next(T) ELSE f[T]]
    <2>2. \A T \in SUBSET S : T # {} => Next(T) \in A
        <3> SUFFICES ASSUME NEW T \in SUBSET S, T # {} PROVE Next(T) \in A
            OBVIOUS
        <3>1. last[T] \in S /\ T \ {last[T]} \in SUBSET S
            OBVIOUS
        <3>2. f[T \ {last[T]}] \in A /\ F[last[T]] \in [A -> A]
            BY <2>1, <3>1
        <3> QED
            BY <3>2
    <2> HIDE DEF Next
    <2>3. Cardinality({}) = 0
        BY FS_EmptySet
    <2>4. g \in [SUBSET S -> A] /\ g[{}] = base
        <3>1. \A T \in SUBSET S : Cardinality(T) = k + 1 => T # {}
            BY <2>3
        <3> QED
            BY <2>1, <2>2, <2>3, <3>1
    <2>5. ASSUME NEW T \in SUBSET S, T # {}, Cardinality(T) <= k + 1
          PROVE  g[T] = F[last[T]][g[T \ {last[T]}]]
        <3>1. T \ {last[T]} \in SUBSET S /\ Cardinality(T \ {last[T]}) = Cardinality(T) - 1 /\ Cardinality(T) \in Nat
            BY <1>1, <1>2, <2>5
        <3>2. g[T \ {last[T]}] = f[T \ {last[T]}]
            BY <2>5, <3>1
        <3>3. CASE Cardinality(T) = k + 1
            <4>1. g[T] = Next(T)
                BY <3>3
            <4> HIDE DEF g
            <4> QED
                BY <3>2, <4>1 DEF Next
        <3>4. CASE Cardinality(T) # k + 1
            <4>1. g[T] = f[T] /\ Cardinality(T) <= k
                BY <2>5, <3>1, <3>4
            <4>2. f[T] = F[last[T]][f[T \ {last[T]}]]
                BY <2>1, <2>5, <4>1
            <4> HIDE DEF g
            <4> QED
                BY <3>2, <4>1, <4>2
        <3> QED
            BY <3>3, <3>4
    <2> HIDE DEF g
    <2>6. Up(g, k + 1)
        BY <2>4, <2>5
    <2> HIDE DEF Up
    <2>7. k + 1 \in 0 .. n
        BY <1>1
    <2> QED
        BY <2>6, <2>7
<1> HIDE DEF Up
<1>5. \A k \in 0 .. n - 1 : k \in done => k + 1 \in done
    BY <1>4
<1> HIDE DEF done
<1>6. 0 .. n \subseteq done
    BY <1>1, <1>3, <1>5, UpTo
<1>7. n \in done
    BY <1>1, <1>6
<1>8. PICK fold : Up(fold, n)
    BY <1>7 DEF done
<1>9. TakesInTurn(fold, S, base, A, F, last)
    BY <1>1, <1>8 DEF Up, TakesInTurn
<1> QED
    BY <1>9

\* The same for indices, in their order.
Folds(fold, n, base, A, F) ==
    /\ fold \in [SUBSET (1 .. n) -> A] /\ fold[{}] = base
    /\ \A S \in SUBSET (1 .. n) : S # {} => fold[S] = F[Max(S)][fold[S \ {Max(S)}]]

LEMMA FoldExists ==
    ASSUME NEW n \in Nat, NEW A, NEW base \in A, NEW F \in [1 .. n -> [A -> A]]
    PROVE  \E fold : Folds(fold, n, base, A, F)
<1> DEFINE last == [S \in SUBSET (1 .. n) |-> Max(S)]
<1>1. IsFiniteSet(1 .. n)
    BY FS_Interval
<1>2. Chooses(last, 1 .. n)
    BY MaxOf DEF Chooses
<1>3. PICK fold : TakesInTurn(fold, 1 .. n, base, A, F, last)
    <2> HIDE DEF last
    <2> QED
        BY <1>1, <1>2, TurnsExist
<1>4. Folds(fold, n, base, A, F)
    BY <1>3 DEF TakesInTurn, Folds
<1> QED
    BY <1>4

\* What has been folded after each index.
LEMMA FoldIterates ==
    ASSUME NEW n \in Nat, NEW A, NEW base, NEW F, NEW fold, Folds(fold, n, base, A, F)
    PROVE  Iterates([i \in 0 .. n |-> fold[1 .. i]], n, base, A, F)
<1> DEFINE f == [i \in 0 .. n |-> fold[1 .. i]]
<1>1. 1 .. 0 = {} /\ \A i \in 0 .. n : 1 .. i \in SUBSET (1 .. n)
    OBVIOUS
<1>2. f \in [0 .. n -> A] /\ f[0] = base
    BY <1>1 DEF Folds
<1>3. ASSUME NEW i \in 1 .. n PROVE f[i] = F[i][f[i - 1]]
    <2>1. 1 .. i \in SUBSET (1 .. n) /\ i \in 1 .. i
        OBVIOUS
    <2>2. Max(1 .. i) \in 1 .. i /\ \A x \in 1 .. i : x <= Max(1 .. i)
        BY <2>1, MaxOf
    <2>3. Max(1 .. i) = i
        BY <2>1, <2>2
    <2>4. (1 .. i) \ {i} = 1 .. i - 1
        OBVIOUS
    <2>5. fold[1 .. i] = F[i][fold[1 .. i - 1]]
        BY <2>1, <2>3, <2>4 DEF Folds
    <2>6. f[i] = fold[1 .. i] /\ f[i - 1] = fold[1 .. i - 1]
        OBVIOUS
    <2> HIDE DEF f
    <2> QED
        BY <2>5, <2>6
<1> HIDE DEF f
<1>4. Iterates(f, n, base, A, F)
    BY <1>2, <1>3 DEF Iterates
<1> QED
    BY <1>4 DEF f

-----------------------------------------------------------------------------
(* A fold that adds up. *)

Sums(f, n, v) ==
    f = [S \in SUBSET (1 .. n) |-> IF S = {} THEN 0 ELSE f[S \ {Max(S)}] + v[Max(S)]]

LEMMA SumsExist ==
    ASSUME NEW n \in Nat, NEW v, \A i \in 1 .. n : v[i] \in Int
    PROVE  \E f : Sums(f, n, v)
<1> DEFINE F == [i \in 1 .. n |-> [sum \in Int |-> sum + v[i]]]
           Sum(f, S) == f[S \ {Max(S)}] + v[Max(S)]
<1>1. \A S \in SUBSET (1 .. n) : S # {} => Max(S) \in S
    BY MaxOf
<1>2. F \in [1 .. n -> [Int -> Int]]
    OBVIOUS
<1>3. PICK f : Folds(f, n, 0, Int, F)
    <2>1. 0 \in Int
        OBVIOUS
    <2> HIDE DEF F
    <2> QED
        BY <1>2, <2>1, FoldExists
<1>4. \A S \in SUBSET (1 .. n) : f[S] \in Int
    BY <1>3 DEF Folds
<1>5. ASSUME NEW S \in SUBSET (1 .. n), S # {} PROVE f[S] = Sum(f, S)
    <2>1. Max(S) \in 1 .. n /\ f[S \ {Max(S)}] \in Int
        BY <1>1, <1>4, <1>5
    <2>2. f[S] = F[Max(S)][f[S \ {Max(S)}]]
        BY <1>3, <1>5 DEF Folds
    <2> QED
        BY <2>1, <2>2
<1>6. f = [S \in SUBSET (1 .. n) |-> f[S]] /\ f[{}] = 0
    BY <1>3 DEF Folds
<1> HIDE DEF Sum
<1>7. f = [S \in SUBSET (1 .. n) |-> IF S = {} THEN 0 ELSE Sum(f, S)]
    BY <1>5, <1>6
<1> QED
    BY <1>7 DEF Sums, Sum

LEMMA SumsAreSigma ==
    ASSUME NEW n \in Nat, NEW v, \A i \in 1 .. n : v[i] \in Int, NEW f, Sums(f, n, v)
    PROVE  f[1 .. n] = Sigma(1 .. n, v)
<1> DEFINE D == 1 .. n
           last == [S \in SUBSET D |-> Max(S)]
           family == {S \in SUBSET D : f[S] = Sigma(S, v)}
<1>0. IsFiniteSet(D)
    BY FS_Interval
<1>1. \A S \in SUBSET (1 .. n) : IsFiniteSet(S)
    BY <1>0, FS_Subset
<1>2. \A S \in SUBSET (1 .. n) : S # {} => last[S] \in S /\ last[S] = Max(S)
    BY MaxOf
<1> HIDE DEF last
<1>3. \A S \in SUBSET (1 .. n) : f[S] = IF S = {} THEN 0 ELSE f[S \ {Max(S)}] + v[Max(S)]
    BY DEF Sums
<1>4. {} \in family
    BY <1>1, <1>3, SigmaTakes
<1>5. ASSUME NEW S \in SUBSET (1 .. n), S # {}, S \ {last[S]} \in family PROVE S \in family
    <2>1. last[S] \in S /\ last[S] = Max(S)
        BY <1>2, <1>5
    <2>2. f[S] = f[S \ {last[S]}] + v[last[S]]
        BY <1>3, <1>5, <2>1
    <2>3. Sigma(S, v) = Sigma(S \ {last[S]}, v) + v[last[S]]
        <3>1. IsFiniteSet(S) /\ \A i \in S : v[i] \in Int
            BY <1>1
        <3> QED
            BY <2>1, <3>1, SigmaTakes
    <2> QED
        BY <1>5, <2>2, <2>3
<1>6. HasWithRest(family, last, D)
    BY <1>5 DEF HasWithRest
<1>7. Chooses(last, D)
    BY <1>2 DEF Chooses
<1> HIDE DEF family, D
<1>8. SUBSET D \subseteq family
    BY <1>0, <1>4, <1>6, <1>7, TakingOff
<1>9. D \in family
    BY <1>8
<1> QED
    BY <1>9 DEF family, D

\* So the value that a fold chooses is the total.
LEMMA ChosenSum ==
    ASSUME NEW n \in Nat, NEW v, \A i \in 1 .. n : v[i] \in Int, NEW iter,
           (\E f : Sums(f, n, v)) => Sums(iter, n, v)
    PROVE  iter[1 .. n] = Sigma(1 .. n, v) /\ Sigma(1 .. n, v) \in Int
<1>1. Sums(iter, n, v)
    BY SumsExist
<1>2. iter[1 .. n] = Sigma(1 .. n, v)
    BY <1>1, SumsAreSigma
<1>3. Sigma(1 .. n, v) \in Int
    BY AllFinite, SigmaTakes
<1> QED
    BY <1>2, <1>3

-----------------------------------------------------------------------------
(* Totals over sequences. *)

\* What comes at the end adds its own.
LEMMA SigmaOfMore ==
    ASSUME NEW n \in Nat, NEW v, NEW w, \A i \in 1 .. n : v[i] \in Int /\ w[i] = v[i], w[n + 1] \in Int
    PROVE  Sigma(1 .. n + 1, w) = Sigma(1 .. n, v) + w[n + 1]
<1>1. /\ IsFiniteSet(1 .. n)
      /\ n + 1 \notin 1 .. n /\ 1 .. n + 1 = (1 .. n) \cup {n + 1}
    <2>1. IsFiniteSet(1 .. n)
        BY FS_Interval
    <2> QED
        BY <2>1
<1>2. Sigma(1 .. n, w) = Sigma(1 .. n, v)
    BY <1>1, SigmaOfSame
<1>3. \A y \in (1 .. n) \cup {n + 1} : w[y] \in Int
    OBVIOUS
<1>4. Sigma((1 .. n) \cup {n + 1}, w) = Sigma(1 .. n, w) + w[n + 1]
    BY <1>1, <1>3, SigmaAdds
<1> QED
    BY <1>1, <1>2, <1>4

\* A sequence after another.
AllInts(v, n) == \A i \in 1 .. n : v[i] \in Int
Joined(w, n, v, m, u) == (\A i \in 1 .. n : w[i] = v[i]) /\ \A i \in 1 .. m : w[n + i] = u[i]

LEMMA SigmaOfBoth ==
    ASSUME NEW n \in Nat, NEW v, AllInts(v, n), NEW m \in Nat, NEW u, AllInts(u, m),
           NEW w, Joined(w, n, v, m, u)
    PROVE  Sigma(1 .. n + m, w) = Sigma(1 .. n, v) + Sigma(1 .. m, u)
<1> USE DEF AllInts, Joined
<1> DEFINE done == {k \in 0 .. m : Sigma(1 .. n + k, w) = Sigma(1 .. n, v) + Sigma(1 .. k, u)}
<1>1. \A k \in Nat : IsFiniteSet(1 .. k)
    BY FS_Interval
<1>2. Sigma(1 .. n, v) \in Int /\ Sigma(1 .. n, w) = Sigma(1 .. n, v)
    BY <1>1, SigmaTakes, SigmaOfSame
<1>3. 0 \in done
    <2>1. Sigma(1 .. 0, u) = 0
        <3>1. 1 .. 0 = {}
            OBVIOUS
        <3>2. Sigma({}, u) = 0
            BY <1>1, SigmaTakes
        <3> QED
            BY <3>1, <3>2
    <2>2. n + 0 = n
        OBVIOUS
    <2> QED
        BY <1>2, <2>1, <2>2
<1>4. ASSUME NEW k \in 0 .. m - 1, k \in done PROVE k + 1 \in done
    <2>1. Sigma(1 .. k + 1, u) = Sigma(1 .. k, u) + u[k + 1]
        <3>1. \A i \in 1 .. k : u[i] \in Int /\ u[i] = u[i]
            OBVIOUS
        <3>2. k \in Nat /\ u[k + 1] \in Int
            OBVIOUS
        <3> QED
            BY <3>1, <3>2, SigmaOfMore
    <2>2. Sigma(1 .. (n + k) + 1, w) = Sigma(1 .. n + k, w) + w[(n + k) + 1]
        <3>1. \A i \in 1 .. n + k : w[i] \in Int /\ w[i] = w[i]
            <4> SUFFICES ASSUME NEW i \in 1 .. n + k PROVE w[i] \in Int
                OBVIOUS
            <4>1. CASE i <= n
                BY <4>1
            <4>2. CASE i > n
                <5>1. i - n \in 1 .. m /\ n + (i - n) = i
                    BY <4>2
                <5>2. w[n + (i - n)] = u[i - n] /\ u[i - n] \in Int
                    BY <5>1
                <5> QED
                    BY <5>1, <5>2
            <4> QED
                BY <4>1, <4>2
        <3>2. n + k \in Nat /\ w[(n + k) + 1] \in Int
            <4>1. k + 1 \in 1 .. m /\ n + (k + 1) = (n + k) + 1
                OBVIOUS
            <4>2. w[n + (k + 1)] = u[k + 1] /\ u[k + 1] \in Int
                BY <4>1
            <4> QED
                BY <4>1, <4>2
        <3> QED
            BY <3>1, <3>2, SigmaOfMore
    <2>3. w[(n + k) + 1] = u[k + 1] /\ u[k + 1] \in Int /\ (n + k) + 1 = n + (k + 1) /\ k + 1 \in 0 .. m
        <3>1. k + 1 \in 1 .. m /\ n + (k + 1) = (n + k) + 1
            OBVIOUS
        <3>2. w[n + (k + 1)] = u[k + 1] /\ u[k + 1] \in Int
            BY <3>1
        <3> QED
            BY <3>1, <3>2
    <2>4. Sigma(1 .. k, u) \in Int
        BY <1>1, SigmaTakes
    <2> QED
        BY <1>2, <1>4, <2>1, <2>2, <2>3, <2>4
<1>5. \A k \in 0 .. m - 1 : k \in done => k + 1 \in done
    BY <1>4
<1> HIDE DEF done
<1>6. 0 .. m \subseteq done
    BY <1>3, <1>5, UpTo
<1>7. m \in done
    BY <1>6
<1> QED
    BY <1>7 DEF done

-----------------------------------------------------------------------------
(* Sequences, element by element. *)

ElementsOf(s) == {s[i] : i \in DOMAIN s}

\* A sequence, of whatever its elements are.
IsSeq(s) == s \in Seq(ElementsOf(s))

\* A sequence over a set is a sequence.
LEMMA InSeqIsSeq ==
    ASSUME NEW S, NEW s \in Seq(S)
    PROVE  IsSeq(s)
<1>1. /\ Len(s) \in Nat /\ DOMAIN s = 1..Len(s)
      /\ s = [i \in 1..Len(s) |-> s[i]]
    BY LenProperties
<1>2. \A i \in 1..Len(s) : s[i] \in ElementsOf(s)
    BY <1>1 DEF ElementsOf
<1>3. s \in [1..Len(s) -> ElementsOf(s)]
    BY <1>1, <1>2
<1> QED
    BY <1>1, <1>3, SeqDef DEF IsSeq

\* What Append does to a sequence, element by element.
LEMMA AppendIsSeq ==
    ASSUME NEW s, NEW e, IsSeq(s)
    PROVE  /\ IsSeq(Append(s, e))
           /\ Append(s, e) # <<>>
           /\ Len(Append(s, e)) = Len(s) + 1
           /\ Append(s, e)[Len(s) + 1] = e
           /\ \A i \in 1..Len(s) : Append(s, e)[i] = s[i]
           /\ DOMAIN Append(s, e) = 1..(Len(s) + 1)
<1> DEFINE S == ElementsOf(s) \cup {e}
<1>0. s \in Seq(ElementsOf(s))
    BY DEF IsSeq
<1>1. s \in Seq(S) /\ e \in S
  <2>1. s \in Seq(S)
    BY <1>0, SeqDef, \A n \in Nat : [1..n -> ElementsOf(s)] \subseteq [1..n -> S]
  <2> QED
    BY <2>1
<1>2. Append(s, e) \in Seq(S)
    BY <1>1
<1>3. /\ Append(s, e) # <<>>
      /\ Len(Append(s, e)) = Len(s) + 1
      /\ Append(s, e)[Len(s) + 1] = e
      /\ \A i \in 1..Len(s) : Append(s, e)[i] = s[i]
    BY <1>1, AppendProperties
<1>4. DOMAIN Append(s, e) = 1..(Len(s) + 1)
    BY <1>2, <1>3
<1>5. IsSeq(Append(s, e))
    BY <1>2, InSeqIsSeq
<1> QED
    BY <1>3, <1>4, <1>5

\* What concatenation does to two sequences, element by element.
LEMMA ConcatIsSeq ==
    ASSUME NEW s, NEW t, IsSeq(s), IsSeq(t)
    PROVE  /\ IsSeq(s \o t)
           /\ Len(s \o t) = Len(s) + Len(t)
           /\ DOMAIN (s \o t) = 1..(Len(s) + Len(t))
           /\ \A i \in 1..Len(s) : (s \o t)[i] = s[i]
           /\ \A i \in 1..Len(t) : (s \o t)[Len(s) + i] = t[i]
<1> DEFINE S == ElementsOf(s) \cup ElementsOf(t)
<1>0. s \in Seq(ElementsOf(s)) /\ t \in Seq(ElementsOf(t))
    BY DEF IsSeq
<1>1. s \in Seq(S) /\ t \in Seq(S)
  <2>1. s \in Seq(S)
    BY <1>0, SeqDef, \A n \in Nat : [1..n -> ElementsOf(s)] \subseteq [1..n -> S]
  <2>2. t \in Seq(S)
    BY <1>0, SeqDef, \A n \in Nat : [1..n -> ElementsOf(t)] \subseteq [1..n -> S]
  <2> QED
    BY <2>1, <2>2
<1>2. s \o t \in Seq(S)
    BY <1>1
<1>3. IsSeq(s \o t)
    BY <1>2, InSeqIsSeq
<1>4. Len(s) \in Nat /\ Len(t) \in Nat /\ Len(s \o t) = Len(s) + Len(t)
    BY <1>1
<1>5. DOMAIN (s \o t) = 1..(Len(s) + Len(t))
    BY <1>2, <1>4, LenProperties
<1>6. \A i \in 1..(Len(s) + Len(t)) :
          (s \o t)[i] = IF i <= Len(s) THEN s[i] ELSE t[i - Len(s)]
    BY <1>1
<1>7. \A i \in 1..Len(t) : (s \o t)[Len(s) + i] = t[i]
    BY <1>4, <1>6
<1> QED
    BY <1>3, <1>4, <1>5, <1>6, <1>7

\* The elements of two sequences, one after the other.
LEMMA ElementsOfBoth ==
    ASSUME NEW s, NEW t, IsSeq(s), IsSeq(t)
    PROVE  /\ \A k \in DOMAIN s : k \in DOMAIN (s \o t) /\ (s \o t)[k] = s[k]
           /\ \A k \in DOMAIN (s \o t) :
                 \/ k \in DOMAIN s /\ (s \o t)[k] = s[k]
                 \/ /\ k \notin DOMAIN s /\ k - Len(s) \in DOMAIN t /\ (s \o t)[k] = t[k - Len(s)]
                    /\ k = Len(s) + (k - Len(s))
<1> DEFINE w == s \o t
           n == Len(s)
           m == Len(t)
<1>1. /\ DOMAIN w = 1 .. (n + m)
      /\ \A i \in 1 .. n : w[i] = s[i]
      /\ \A i \in 1 .. m : w[n + i] = t[i]
    BY ConcatIsSeq
<1>2. n \in Nat /\ DOMAIN s = 1 .. n /\ m \in Nat /\ DOMAIN t = 1 .. m
    BY LenProperties DEF IsSeq
<1> HIDE DEF w, n, m
<1>3. \A k \in DOMAIN s : k \in DOMAIN w /\ w[k] = s[k]
    BY <1>1, <1>2
<1>4. ASSUME NEW k \in DOMAIN w, k \notin DOMAIN s
      PROVE  k - n \in DOMAIN t /\ w[k] = t[k - n] /\ k = n + (k - n)
    <2>1. k - n \in 1 .. m /\ k = n + (k - n)
        BY <1>1, <1>2, <1>4
    <2>2. w[n + (k - n)] = t[k - n]
        BY <1>1, <2>1
    <2> QED
        BY <1>2, <2>1, <2>2
<1> QED
    BY <1>3, <1>4 DEF w, n

\* The elements of a sequence with one more.
LEMMA ElementsOfMore ==
    ASSUME NEW s, NEW e, IsSeq(s)
    PROVE  \A k \in DOMAIN Append(s, e) :
               \/ k \in DOMAIN s /\ Append(s, e)[k] = s[k]
               \/ k = Len(s) + 1 /\ Append(s, e)[k] = e
<1>1. Len(s) \in Nat /\ DOMAIN s = 1 .. Len(s)
    BY LenProperties DEF IsSeq
<1>2. /\ Append(s, e)[Len(s) + 1] = e /\ DOMAIN Append(s, e) = 1 .. (Len(s) + 1)
      /\ \A i \in 1 .. Len(s) : Append(s, e)[i] = s[i]
    BY AppendIsSeq
<1>3. \A k \in DOMAIN Append(s, e) : k \in DOMAIN s \/ k = Len(s) + 1
    BY <1>1, <1>2
<1> QED
    BY <1>1, <1>2, <1>3

\* An element appended to the second of two sequences is appended to both.
LEMMA AppendToBoth ==
    ASSUME NEW s, NEW t, NEW e, IsSeq(s), IsSeq(t)
    PROVE  s \o Append(t, e) = Append(s \o t, e)
<1> DEFINE S == ElementsOf(s) \cup ElementsOf(t) \cup {e}
<1>1. s \in Seq(ElementsOf(s)) /\ t \in Seq(ElementsOf(t)) /\ e \in S
    BY DEF IsSeq
<1>2. s \in Seq(S)
    BY <1>1, SeqDef, \A n \in Nat : [1..n -> ElementsOf(s)] \subseteq [1..n -> S]
<1>3. t \in Seq(S)
    BY <1>1, SeqDef, \A n \in Nat : [1..n -> ElementsOf(t)] \subseteq [1..n -> S]
<1> HIDE DEF S
<1>4. <<e>> \in Seq(S) /\ s \o t \in Seq(S)
    BY <1>1, <1>2, <1>3
<1>5. Append(t, e) = t \o <<e>> /\ Append(s \o t, e) = (s \o t) \o <<e>>
    BY <1>1, <1>3, <1>4, AppendIsConcat
<1>6. s \o (t \o <<e>>) = (s \o t) \o <<e>>
    BY <1>2, <1>3, <1>4, ConcatAssociative
<1> QED
    BY <1>5, <1>6

-----------------------------------------------------------------------------
(* The last of a set, in an order. *)

\* R puts the elements of S in a line.
InLine(R, S) ==
    /\ \A i, j \in S : i = j \/ <<i, j>> \in R \/ <<j, i>> \in R
    /\ \A i, j, k \in S : <<i, j>> \in R /\ <<j, k>> \in R => <<i, k>> \in R

\* Of the elements of a line, one is the last of any set of them.
LEMMA LastExists ==
    ASSUME NEW S, IsFiniteSet(S), NEW R, InLine(R, S)
    PROVE  \A T \in SUBSET S : T # {} => \E i \in T : \A j \in T : i = j \/ <<j, i>> \in R
<1> DEFINE family == {T \in SUBSET S : T # {} => \E i \in T : \A j \in T : i = j \/ <<j, i>> \in R}
<1>1. ASSUME NEW T \in SUBSET S, NEW y \in S, T \in family PROVE T \cup {y} \in family
    <2>1. CASE T = {}
        BY <2>1
    <2>2. CASE y \in T
        <3>1. T \cup {y} = T
            BY <2>2
        <3> QED
            BY <1>1, <3>1
    <2>3. CASE T # {} /\ y \notin T
        <3>1. PICK m \in T : \A j \in T : m = j \/ <<j, m>> \in R
            BY <1>1, <2>3
        <3>2. CASE <<y, m>> \in R
            BY <3>1, <3>2
        <3>3. CASE <<m, y>> \in R
            <4>1. \A j \in T : <<j, y>> \in R
                BY <3>1, <3>3 DEF InLine
            <4> QED
                BY <4>1
        <3>4. m # y
            BY <2>3
        <3> QED
            BY <3>2, <3>3, <3>4 DEF InLine
    <2> QED
        BY <2>1, <2>2, <2>3
<1>2. \A T \in SUBSET S, x \in S : T \in family => T \cup {x} \in family
    BY <1>1
<1>3. {} \in family
    OBVIOUS
<1> HIDE DEF family
<1>4. ASSUME NEW T \in SUBSET S PROVE T \in family
    <2>1. IsFiniteSet(T)
        BY FS_Subset
    <2> QED
        BY <1>2, <1>3, <2>1, OneByOne
<1> QED
    BY <1>4 DEF family

-----------------------------------------------------------------------------
(* Totals over records in the order of their times (at). *)

\* A set of records with all earlier ones.
UpToTime(rs, T) == \A i \in T, j \in DOMAIN rs : rs[j].at < rs[i].at => j \in T

\* What was never negative, however far the rows are read.
NeverNegative(rs, v) == \A T \in SUBSET DOMAIN rs : UpToTime(rs, T) => Sigma(T, v) >= 0

(***************************************************************************)
(* One row more, no earlier than the others.  What is never negative stays *)
(* so when the row adds something; or when all rows and the new one come   *)
(* to no less than nothing, and no row of the same time adds anything, so  *)
(* that the order among them does not matter.                              *)
(***************************************************************************)
MayAdd(V, e, n, v, w) ==
    /\ \A i \in 1 .. n : v[i] \in Int /\ w[i] = v[i]
    /\ w[n + 1] \in Int
    /\ \/ w[n + 1] >= 0
       \/ /\ Sigma(1 .. n, v) + w[n + 1] >= 0
          /\ \A i \in 1 .. n : V[i].at = e.at => v[i] <= 0

LEMMA NeverNegativeMore ==
    ASSUME NEW V, IsSeq(V), NEW e, e.at \in Nat,
           \A i \in DOMAIN V : V[i].at \in Nat /\ V[i].at <= e.at,
           NEW v, NEW w, MayAdd(V, e, Len(V), v, w), NeverNegative(V, v)
    PROVE  NeverNegative(Append(V, e), w)
<1> DEFINE n == Len(V)
           D == 1 .. n
           t == Append(V, e)
<1>1. /\ DOMAIN t = 1 .. (n + 1) /\ t[n + 1] = e /\ \A i \in D : t[i] = V[i]
    BY AppendIsSeq
<1>2. n \in Nat /\ DOMAIN V = D /\ n + 1 \in 1 .. n + 1 /\ n + 1 \notin D /\ \A i \in D : i \in 1 .. n + 1
    BY LenProperties DEF IsSeq
<1>3. /\ \A i \in D : v[i] \in Int /\ w[i] = v[i]
      /\ w[n + 1] \in Int
      /\ \/ w[n + 1] >= 0
         \/ Sigma(D, v) + w[n + 1] >= 0 /\ \A i \in D : V[i].at = e.at => v[i] <= 0
    BY DEF MayAdd
<1>4. e.at \in Nat /\ \A i \in D : V[i].at \in Nat /\ V[i].at <= e.at
    BY <1>2
<1>5. IsFiniteSet(D)
    BY <1>2, AllFinite
<1> SUFFICES ASSUME NEW T \in SUBSET DOMAIN t, UpToTime(t, T) PROVE Sigma(T, w) >= 0
    BY DEF NeverNegative
<1> DEFINE U == T \ {n + 1}
<1>6. U \in SUBSET D /\ \A i \in T : i = n + 1 \/ i \in D
    BY <1>1, <1>2
<1>7. UpToTime(V, U)
    <2> SUFFICES ASSUME NEW i \in U, NEW j \in D, V[j].at < V[i].at PROVE j \in U
        BY <1>2 DEF UpToTime
    <2>1. i \in T /\ j \in DOMAIN t /\ t[j].at < t[i].at
        BY <1>1, <1>2, <1>6
    <2>2. j \in T /\ j # n + 1
        BY <1>2, <2>1 DEF UpToTime
    <2> QED
        BY <2>2
<1> HIDE DEF n, D, t, U
<1>8. Sigma(U, v) >= 0 /\ Sigma(U, v) \in Int /\ Sigma(U, w) = Sigma(U, v) /\ IsFiniteSet(U)
    <2>1. IsFiniteSet(U) /\ \A i \in U : v[i] \in Int /\ w[i] = v[i]
        BY <1>3, <1>5, <1>6, FS_Subset
    <2>2. Sigma(U, v) \in Int /\ Sigma(U, w) = Sigma(U, v)
        BY <2>1, SigmaTakes, SigmaOfSame
    <2>3. Sigma(U, v) >= 0
        BY <1>2, <1>6, <1>7 DEF NeverNegative
    <2> QED
        BY <2>1, <2>2, <2>3
<1>9. CASE n + 1 \notin T
    <2>1. U = T
        BY <1>9 DEF U
    <2> QED
        BY <1>8, <2>1
<1>10. CASE n + 1 \in T
    <2>1. Sigma(T, w) = Sigma(U, w) + w[n + 1]
        <3>1. T = U \cup {n + 1} /\ n + 1 \notin U
            BY <1>10 DEF U
        <3>2. \A i \in U \cup {n + 1} : w[i] \in Int
            BY <1>3, <1>6
        <3> QED
            BY <1>8, <3>1, <3>2, SigmaAdds
    <2>2. CASE w[n + 1] >= 0
        BY <1>3, <1>8, <2>1, <2>2
    <2>3. CASE Sigma(D, v) + w[n + 1] >= 0 /\ \A i \in D : V[i].at = e.at => v[i] <= 0
        <3>1. \A j \in D \ U : v[j] <= 0
            <4> SUFFICES ASSUME NEW j \in D \ U PROVE V[j].at = e.at
                BY <2>3
            <4>1. j \notin T
                BY <1>2 DEF U
            <4>2. ~(t[j].at < t[n + 1].at)
                BY <1>1, <1>2, <1>10, <4>1 DEF UpToTime
            <4> QED
                BY <1>1, <1>4, <4>2
        <3>2. Sigma(D, v) <= Sigma(U, v) /\ Sigma(D, v) \in Int
            BY <1>3, <1>5, <1>6, <3>1, SigmaOfPart, SigmaTakes
        <3> QED
            BY <1>3, <1>8, <2>1, <2>3, <3>2
    <2> QED
        BY <1>3, <2>2, <2>3
<1> QED
    BY <1>9, <1>10
=============================================================================
