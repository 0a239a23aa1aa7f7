---------------------------- MODULE EgressProofs ----------------------------
(***************************************************************************)
(* What EgressRules promises, for any hosts, blocks and answers, any       *)
(* MaxSleep and any number of failures and disturbances: the policies of a *)
(* deployer at rest let pass exactly what the secrets and the ConfigMap    *)
(* name, and the gatherer's waits double from one failure to the next.     *)
(* Both depend on what a recursive definition computes; the induction they *)
(* need is that of WellFoundedInduction in terms of sets.                  *)
(***************************************************************************)
EXTENDS EgressRules, SequenceTheorems, WellFoundedInduction, TLAPS

-----------------------------------------------------------------------------
(***************************************************************************)
(* Induction and recursion over the naturals.                              *)
(***************************************************************************)
LEMMA LeastNumber ==
    ASSUME NEW T \in SUBSET Nat, T # {}
    PROVE  \E x \in T : \A y \in T : x <= y
<1> DEFINE R == OpToRel(<, Nat)
<1>1. R = {ss \in Nat \X Nat : ss[1] < ss[2]}
  BY DEF OpToRel
<1>2. IsWellFoundedOn(R, Nat)
  BY NatLessThanWellFounded
<1> HIDE DEF R
<1>3. PICK x \in T : \A y \in T : ~ (<<y, x>> \in R)
  BY <1>2, WFMin
<1>4. ASSUME NEW y \in T, y < x PROVE FALSE
  <2>1. <<y, x>> \in Nat \X Nat /\ <<y, x>>[1] < <<y, x>>[2]
    BY <1>4
  <2>2. <<y, x>> \in R
    BY <1>1, <2>1
  <2>3. QED
    BY <1>3, <2>2
<1>5. ASSUME NEW y \in T PROVE x <= y
  BY <1>4
<1>6. QED
  BY <1>5

\* Induction, for a set T in the place of a predicate.
LEMMA Induction ==
    ASSUME NEW T, 0 \in T, \A n \in Nat : n \in T => n + 1 \in T
    PROVE  Nat \subseteq T
<1> SUFFICES ASSUME NEW k \in Nat, k \notin T PROVE FALSE
  OBVIOUS
<1> DEFINE missing == {n \in Nat : n \notin T}
<1>1. PICK n \in missing : \A y \in missing : n <= y
  BY LeastNumber
<1>2. n # 0 /\ n - 1 \in Nat
  OBVIOUS
<1>3. n - 1 \in T
  BY <1>1, <1>2
<1>4. QED
  BY <1>1, <1>2, <1>3

\* Up to k, g goes by the given steps.
Follows(g, step, k) == \A n \in 0 .. k - 1 : g[n + 1] = step[n][g[n]]

\* Its first value and its steps determine a function.
LEMMA RecursionIsUnique ==
    ASSUME NEW step, NEW k \in Nat, NEW g, NEW h, g[0] = h[0],
           Follows(g, step, k), Follows(h, step, k)
    PROVE  \A n \in 0 .. k : g[n] = h[n]
<1> DEFINE T == {n \in Nat : n <= k => g[n] = h[n]}
<1>1. 0 \in T
  OBVIOUS
<1>2. ASSUME NEW n \in Nat, n \in T PROVE n + 1 \in T
  <2>1. CASE n + 1 <= k
    <3>1. n \in 0 .. k - 1 /\ n <= k
      BY <2>1
    <3>2. g[n] = h[n] /\ g[n + 1] = step[n][g[n]] /\ h[n + 1] = step[n][h[n]]
      BY <1>2, <3>1 DEF Follows
    <3>3. QED
      BY <3>2
  <2>2. CASE ~(n + 1 <= k)
    BY <2>2
  <2>3. QED
    BY <2>1, <2>2
<1> HIDE DEF T
<1>3. Nat \subseteq T
  BY <1>1, <1>2, Induction
<1>4. QED
  BY <1>3 DEF T

\* There is a function with a given first value and given steps.
Recursive(f, c, step) == f[0] = c /\ \A n \in Nat : f[n + 1] = step[n][f[n]]

\* There is a function with the given first value and the given steps.
LEMMA RecursionExists ==
    ASSUME NEW S, NEW c \in S, NEW step \in [Nat -> [S -> S]]
    PROVE  \E f \in [Nat -> S] : Recursive(f, c, step)
<1> DEFINE Upto(k) == {g \in [0 .. k -> S] :
                         g[0] = c /\ \A n \in 0 .. k - 1 : g[n + 1] = step[n][g[n]]}
           T == {k \in Nat : Upto(k) # {}}
<1>1. 0 \in T
  <2>1. [n \in 0 .. 0 |-> c] \in Upto(0)
    OBVIOUS
  <2>2. QED
    BY <2>1
<1>2. ASSUME NEW k \in Nat, k \in T PROVE k + 1 \in T
  <2>1. PICK g \in Upto(k) : TRUE
    BY <1>2
  <2> DEFINE h == [n \in 0 .. k + 1 |-> IF n = k + 1 THEN step[k][g[k]] ELSE g[n]]
  <2>2. g[k] \in S /\ step[k][g[k]] \in S
    OBVIOUS
  <2>3. h \in [0 .. k + 1 -> S]
    BY <2>2
  <2>4. h[0] = c
    OBVIOUS
  <2>5. ASSUME NEW n \in 0 .. (k + 1) - 1 PROVE h[n + 1] = step[n][h[n]]
    <3>1. CASE n = k
      BY <3>1
    <3>2. CASE n # k
      <4>1. n \in 0 .. k - 1 /\ n + 1 \in 0 .. k /\ n \in 0 .. k
        BY <3>2
      <4>2. h[n + 1] = g[n + 1] /\ h[n] = g[n]
        BY <4>1
      <4>3. QED
        BY <4>1, <4>2
    <3>3. QED
      BY <3>1, <3>2
  <2>6. h \in Upto(k + 1)
    BY <2>3, <2>4, <2>5
  <2> HIDE DEF Upto
  <2>7. QED
    BY <2>6
<1> HIDE DEF T
<1>3. Nat \subseteq T
  BY <1>1, <1>2, Induction
<1>4. \A k \in Nat : Upto(k) # {}
  BY <1>3 DEF T
<1> DEFINE G == [k \in Nat |-> CHOOSE g \in Upto(k) : TRUE]
           f == [k \in Nat |-> G[k][k]]
<1>5. \A k \in Nat : G[k] \in Upto(k)
  BY <1>4, Zenon
<1> HIDE DEF G
<1>6. \A k \in Nat : /\ G[k] \in [0 .. k -> S] /\ G[k][0] = c
                     /\ \A n \in 0 .. k - 1 : G[k][n + 1] = step[n][G[k][n]]
  BY <1>5
<1>7. f \in [Nat -> S]
  BY <1>6
<1>8. f[0] = c
  BY <1>6
<1>9. ASSUME NEW n \in Nat PROVE f[n + 1] = step[n][f[n]]
  <2>1. n + 1 \in Nat /\ n \in 0 .. (n + 1) - 1 /\ n \in 0 .. n
    OBVIOUS
  <2>2. f[n + 1] = step[n][G[n + 1][n]]
    BY <1>6, <2>1
  <2> DEFINE g == G[n + 1]
             h == G[n]
  <2>3. g[0] = h[0] /\ Follows(g, step, n) /\ Follows(h, step, n)
    BY <1>6, <2>1 DEF Follows
  <2> HIDE DEF g, h
  <2>4. \A m \in 0 .. n : g[m] = h[m]
    BY <2>3, RecursionIsUnique
  <2>5. QED
    BY <2>1, <2>2, <2>4 DEF g, h
<1>10. QED
  BY <1>7, <1>8, <1>9 DEF Recursive

-----------------------------------------------------------------------------
(***************************************************************************)
(* What the recursive definitions of EgressRules compute.                  *)
(***************************************************************************)
LEMMA DoubledRecursion ==
    /\ Doubled[0] = 1
    /\ \A n \in Nat : Doubled[n] \in Nat /\ Doubled[n + 1] = 2 * Doubled[n]
<1> DEFINE next(g) == [n \in Nat |-> IF n = 0 THEN 1 ELSE 2 * g[n - 1]]
           step == [n \in Nat |-> [x \in Nat |-> 2 * x]]
<1>1. step \in [Nat -> [Nat -> Nat]] /\ 1 \in Nat
  OBVIOUS
<1>2. PICK g \in [Nat -> Nat] : Recursive(g, 1, step)
  <2> HIDE DEF step
  <2>1. QED
    BY <1>1, RecursionExists
<1>3. g = next(g)
  <2>1. ASSUME NEW n \in Nat PROVE g[n] = next(g)[n]
    <3>1. CASE n = 0
      BY <1>2, <3>1 DEF Recursive
    <3>2. CASE n # 0
      <4>1. n - 1 \in Nat /\ (n - 1) + 1 = n
        BY <3>2
      <4>2. g[n] = step[n - 1][g[n - 1]] /\ g[n - 1] \in Nat
        BY <1>2, <4>1 DEF Recursive
      <4>3. QED
        BY <3>2, <4>1, <4>2
    <3>3. QED
      BY <3>1, <3>2
  <2>2. QED
    BY <2>1
<1>4. Doubled = CHOOSE f : f = next(f)
  BY DEF Doubled
<1>5. Doubled = next(Doubled)
  <2> HIDE DEF next
  <2>1. QED
    BY <1>3, <1>4, Zenon
<1>6. Doubled[0] = 1 /\ \A n \in Nat : Doubled[n + 1] = 2 * Doubled[n]
  <2>1. \A n \in Nat : Doubled[n] = IF n = 0 THEN 1 ELSE 2 * Doubled[n - 1]
    BY <1>5
  <2>2. \A n \in Nat : n + 1 \in Nat /\ n + 1 # 0 /\ (n + 1) - 1 = n
    OBVIOUS
  <2>3. QED
    BY <2>1, <2>2
<1>7. Nat \subseteq {n \in Nat : Doubled[n] \in Nat}
  <2> DEFINE T == {n \in Nat : Doubled[n] \in Nat}
  <2>1. 0 \in T /\ \A n \in Nat : n \in T => n + 1 \in T
    BY <1>6
  <2> HIDE DEF T
  <2>2. QED
    BY <2>1, Induction DEF T
<1>8. QED
  BY <1>6, <1>7

\* The members of a sequence.
Elements(s) == {s[i] : i \in 1 .. Len(s)}

\* The next index.
LEMMA IntervalGrows == \A n \in Nat : 1 .. n + 1 = (1 .. n) \cup {n + 1}
  OBVIOUS

\* Append adds one element.
LEMMA AppendElements ==
    ASSUME NEW S, NEW s \in Seq(S), NEW e \in S
    PROVE  Append(s, e) \in Seq(S) /\ Elements(Append(s, e)) = Elements(s) \cup {e}
<1>1. /\ Append(s, e) \in Seq(S) /\ Len(Append(s, e)) = Len(s) + 1 /\ Len(s) \in Nat
      /\ \A i \in 1 .. Len(s) : Append(s, e)[i] = s[i]
      /\ Append(s, e)[Len(s) + 1] = e
  BY AppendProperties, LenProperties
<1>2. \A i \in 1 .. Len(s) + 1 : i \in 1 .. Len(s) \/ i = Len(s) + 1
  BY <1>1
<1>3. 1 .. Len(s) \subseteq 1 .. Len(s) + 1 /\ Len(s) + 1 \in 1 .. Len(s) + 1
  BY <1>1
<1>4. QED
  BY <1>1, <1>2, <1>3 DEF Elements

\* The lines of an answer that are not empty, and only they, become address blocks.
LEMMA CIDRListKeepsBlocks ==
    ASSUME NEW lines \in Seq(Lines)
    PROVE  /\ CIDRList(lines) \in Seq(Lines \ {"emptyLine"})
           /\ Elements(CIDRList(lines)) = Elements(lines) \ {"emptyLine"}
<1> DEFINE N == Len(lines)
           B == Lines \ {"emptyLine"}
           S == Seq(B)
           next(g) == [n \in 0 .. N |->
                         IF n = 0 THEN <<>>
                         ELSE IF lines[n] = "emptyLine"
                                THEN g[n - 1] ELSE Append(g[n - 1], lines[n])]
           step == [n \in Nat |-> [x \in S |->
                      IF n + 1 \in 1 .. N /\ lines[n + 1] # "emptyLine"
                        THEN Append(x, lines[n + 1]) ELSE x]]
<1>0. N \in Nat /\ <<>> \in S /\ \A n \in 1 .. N : lines[n] \in Lines
  BY LenProperties, EmptySeq, ElementOfSeq
<1>1. step \in [Nat -> [S -> S]]
  <2>1. ASSUME NEW n \in Nat, NEW x \in S PROVE step[n][x] \in S
    <3>1. CASE n + 1 \in 1 .. N /\ lines[n + 1] # "emptyLine"
      <4>1. lines[n + 1] \in Lines \ {"emptyLine"}
        BY <1>0, <3>1
      <4>2. Append(x, lines[n + 1]) \in S
        BY <4>1, AppendElements
      <4>3. QED
        BY <3>1, <4>2
    <3>2. CASE ~(n + 1 \in 1 .. N /\ lines[n + 1] # "emptyLine")
      BY <3>2
    <3>3. QED
      BY <3>1, <3>2
  <2>2. QED
    BY <2>1
<1>2. PICK f \in [Nat -> S] : Recursive(f, <<>>, step)
  <2> HIDE DEF step, S
  <2>1. QED
    BY <1>0, <1>1, RecursionExists
<1> DEFINE g == [n \in 0 .. N |-> f[n]]
<1>3. g = next(g)
  <2>1. ASSUME NEW n \in 0 .. N PROVE g[n] = next(g)[n]
    <3>1. CASE n = 0
      BY <1>2, <3>1 DEF Recursive
    <3>2. CASE n # 0
      <4>1. n - 1 \in Nat /\ (n - 1) + 1 = n /\ n \in 1 .. N /\ n - 1 \in 0 .. N
        BY <1>0, <3>2
      <4>2. f[(n - 1) + 1] = step[n - 1][f[n - 1]] /\ f[n - 1] \in S
        BY <1>2, <4>1 DEF Recursive
      <4>3. f[n] = IF lines[n] # "emptyLine" THEN Append(f[n - 1], lines[n]) ELSE f[n - 1]
        BY <4>1, <4>2
      <4>4. QED
        BY <3>2, <4>1, <4>3
    <3>3. QED
      BY <3>1, <3>2
  <2>2. QED
    BY <2>1
<1> DEFINE first == CHOOSE h : h = next(h)
<1>4. CIDRList(lines) = first[N]
  BY DEF CIDRList
<1>5. first = next(first)
  <2> HIDE DEF next
  <2>1. QED
    BY <1>3, Zenon
<1> HIDE DEF first
<1>6. \A n \in 0 .. N : first[n] = next(first)[n]
  BY <1>5
<1> DEFINE T == {n \in Nat : n <= N =>
                   /\ first[n] \in S
                   /\ Elements(first[n]) = {lines[i] : i \in 1 .. n} \ {"emptyLine"}}
<1>7. 0 \in T
  <2>1. first[0] = <<>> /\ Elements(<<>>) = {} /\ 1 .. 0 = {}
    BY <1>0, <1>6, EmptySeq DEF Elements
  <2>2. QED
    BY <1>0, <2>1
<1>8. ASSUME NEW n \in Nat, n \in T PROVE n + 1 \in T
  <2> SUFFICES ASSUME n + 1 <= N
               PROVE  /\ first[n + 1] \in S
                      /\ Elements(first[n + 1]) = {lines[i] : i \in 1 .. n + 1} \ {"emptyLine"}
    OBVIOUS
  <2>1. n + 1 \in 0 .. N /\ n + 1 \in 1 .. N /\ n + 1 # 0 /\ (n + 1) - 1 = n /\ n <= N
    BY <1>0
  <2>2. first[n] \in S /\ Elements(first[n]) = {lines[i] : i \in 1 .. n} \ {"emptyLine"}
    BY <1>8, <2>1
  <2>3. first[n + 1] = IF lines[n + 1] = "emptyLine"
                         THEN first[n] ELSE Append(first[n], lines[n + 1])
    BY <1>6, <2>1
  <2>4. {lines[i] : i \in 1 .. n + 1} = {lines[i] : i \in 1 .. n} \cup {lines[n + 1]}
    <3>1. 1 .. n + 1 = (1 .. n) \cup {n + 1}
      BY IntervalGrows
    <3>2. QED
      BY <3>1
  <2>5. CASE lines[n + 1] = "emptyLine"
    BY <2>2, <2>3, <2>4, <2>5
  <2>6. CASE lines[n + 1] # "emptyLine"
    <3>1. lines[n + 1] \in Lines \ {"emptyLine"}
      BY <1>0, <2>1, <2>6
    <3>2. first[n + 1] = Append(first[n], lines[n + 1])
      BY <2>3, <2>6
    <3>3. /\ first[n + 1] \in S
          /\ Elements(first[n + 1]) = Elements(first[n]) \cup {lines[n + 1]}
      <4> DEFINE kept == first[n]
                 line == lines[n + 1]
      <4>1. kept \in S /\ line \in B
        BY <2>2, <3>1
      <4> HIDE DEF kept, line, B
      <4>2. /\ Append(kept, line) \in S
            /\ Elements(Append(kept, line)) = Elements(kept) \cup {line}
        BY <4>1, AppendElements
      <4>3. QED
        BY <3>2, <4>2 DEF kept, line
    <3>4. QED
      BY <2>2, <2>4, <2>6, <3>3
  <2>7. QED
    BY <2>5, <2>6
<1>9. Nat \subseteq T
  <2> HIDE DEF T
  <2>1. QED
    BY <1>7, <1>8, Induction
<1>10. first[N] \in S /\ Elements(first[N]) = {lines[i] : i \in 1 .. N} \ {"emptyLine"}
  <2>1. N \in T
    <3> HIDE DEF T
    <3>1. QED
      BY <1>0, <1>9
  <2>2. N <= N
    BY <1>0
  <2>3. QED
    BY <2>1, <2>2
<1>11. QED
  BY <1>4, <1>10 DEF Elements

-----------------------------------------------------------------------------
(***************************************************************************)
(* What a list of rules lets pass.                                         *)
(***************************************************************************)
LEMMA ConcatElements ==
    ASSUME NEW S, NEW s \in Seq(S), NEW t \in Seq(S)
    PROVE  s \o t \in Seq(S) /\ Elements(s \o t) = Elements(s) \cup Elements(t)
<1> DEFINE m == Len(s)
           n == Len(t)
           u == s \o t
<1>1. /\ u \in Seq(S) /\ Len(u) = m + n /\ m \in Nat /\ n \in Nat
      /\ \A i \in 1 .. m + n : u[i] = IF i <= m THEN s[i] ELSE t[i - m]
  BY ConcatProperties, LenProperties
<1> HIDE DEF m, n, u
<1>2. ASSUME NEW x \in Elements(u) PROVE x \in Elements(s) \cup Elements(t)
  <2>1. PICK i \in 1 .. m + n : x = u[i]
    BY <1>1, <1>2 DEF Elements
  <2>2. CASE i <= m
    <3>1. i \in 1 .. m /\ x = s[i]
      BY <1>1, <2>1, <2>2
    <3>2. QED
      BY <3>1 DEF Elements, m
  <2>3. CASE ~(i <= m)
    <3>1. i - m \in 1 .. n /\ x = t[i - m]
      BY <1>1, <2>1, <2>3
    <3>2. QED
      BY <3>1 DEF Elements, n
  <2>4. QED
    BY <2>2, <2>3
<1>3. ASSUME NEW x \in Elements(s) PROVE x \in Elements(u)
  <2>1. PICK i \in 1 .. m : x = s[i]
    BY <1>3 DEF Elements, m
  <2>2. i \in 1 .. m + n /\ x = u[i]
    BY <1>1, <2>1
  <2>3. QED
    BY <1>1, <2>2 DEF Elements
<1>4. ASSUME NEW x \in Elements(t) PROVE x \in Elements(u)
  <2>1. PICK i \in 1 .. n : x = t[i]
    BY <1>4 DEF Elements, n
  <2>2. i + m \in 1 .. m + n /\ ~(i + m <= m) /\ (i + m) - m = i
    BY <1>1, <2>1
  <2>3. x = u[i + m]
    BY <1>1, <2>1, <2>2
  <2>4. QED
    BY <1>1, <2>2, <2>3 DEF Elements
<1>5. QED
  BY <1>1, <1>2, <1>3, <1>4 DEF u

\* AllowAll makes one allow rule of each destination.
LEMMA AllowAllElements ==
    ASSUME NEW tos \in Seq(Destinations)
    PROVE  /\ AllowAll(tos) \in Seq(Rules)
           /\ Elements(AllowAll(tos)) = {Allow(to) : to \in Elements(tos)}
<1> DEFINE n == Len(tos)
<1>1. n \in Nat /\ \A i \in 1 .. n : tos[i] \in Destinations
  BY LenProperties, ElementOfSeq
<1>2. \A i \in 1 .. n : Allow(tos[i]) \in Rules
  BY <1>1 DEF Allow, Rules
<1>3. AllowAll(tos) = [i \in 1 .. n |-> Allow(tos[i])]
  BY DEF AllowAll
<1> HIDE DEF n
<1>4. AllowAll(tos) \in [1 .. n -> Rules]
  BY <1>2, <1>3
<1>5. AllowAll(tos) \in Seq(Rules)
  BY <1>1, <1>4, SeqDef
<1>6. Len(AllowAll(tos)) = n
  BY <1>1, <1>4, <1>5, LenProperties
<1>7. Elements(AllowAll(tos)) = {Allow(tos[i]) : i \in 1 .. n}
  BY <1>3, <1>6 DEF Elements
<1>8. QED
  BY <1>5, <1>7 DEF Elements, n

\* Rules that all let pass, before the one that denies everything, let pass each of
\* their destinations: the first rule for it decides.
LEMMA PermittedIsAllowed ==
    ASSUME NEW allowed \in Seq(Rules),
           \A rule \in Elements(allowed) : rule.allow /\ rule.to # "0.0.0.0/0",
           NEW deny \in Rules, deny = [to |-> "0.0.0.0/0", allow |-> FALSE]
    PROVE  Permitted(allowed \o <<deny>>) = {rule.to : rule \in Elements(allowed)}
<1> DEFINE n == Len(allowed)
           rules == allowed \o <<deny>>
<1>1. n \in Nat /\ \A i \in 1 .. n : allowed[i].allow /\ allowed[i].to # "0.0.0.0/0"
  BY LenProperties DEF Elements
<1>2. /\ Len(rules) = n + 1 /\ rules[n + 1] = deny
      /\ \A i \in 1 .. n : rules[i] = allowed[i]
  <2>1. <<deny>> \in Seq(Rules) /\ Len(<<deny>>) = 1 /\ <<deny>>[1] = deny
    OBVIOUS
  <2> DEFINE last == <<deny>>
  <2> HIDE DEF last
  <2>2. /\ Len(allowed \o last) = n + Len(last)
        /\ \A i \in 1 .. n + Len(last) :
             (allowed \o last)[i] = IF i <= n THEN allowed[i] ELSE last[i - n]
    BY <2>1, ConcatProperties DEF last
  <2>3. QED
    BY <1>1, <2>1, <2>2 DEF last
<1> HIDE DEF n, rules
<1> DEFINE passes(i) == /\ rules[i].allow
                        /\ \A m \in 1 .. i - 1 : rules[m].to \notin {rules[i].to, "0.0.0.0/0"}
<1>3. Permitted(rules) = {rules[i].to : i \in {j \in 1 .. n + 1 : passes(j)}}
  BY <1>2 DEF Permitted
<1>4. ASSUME NEW i \in 1 .. n + 1, passes(i)
      PROVE  \E j \in 1 .. n : rules[i].to = allowed[j].to
  <2>1. i # n + 1
    BY <1>2, <1>4
  <2>2. i \in 1 .. n
    BY <1>1, <2>1
  <2>3. QED
    BY <1>2, <2>2
<1>5. ASSUME NEW j \in 1 .. n
      PROVE  \E i \in 1 .. n + 1 : passes(i) /\ rules[i].to = allowed[j].to
  <2> DEFINE same == {i \in 1 .. n : allowed[i].to = allowed[j].to}
  <2>1. same \in SUBSET Nat /\ same # {}
    BY <1>1
  <2>2. PICK i \in same : \A y \in same : i <= y
    <3> HIDE DEF same
    <3>1. QED
      BY <2>1, LeastNumber
  <2>3. i \in 1 .. n /\ i \in 1 .. n + 1 /\ allowed[i].to = allowed[j].to
    BY <1>1
  <2>4. ASSUME NEW m \in 1 .. i - 1 PROVE rules[m].to \notin {rules[i].to, "0.0.0.0/0"}
    <3>1. m \in 1 .. n /\ ~(i <= m)
      BY <1>1, <2>3
    <3>2. m \notin same
      BY <2>2, <3>1
    <3>3. allowed[m].to # allowed[j].to
      BY <3>1, <3>2
    <3>4. QED
      BY <1>1, <1>2, <2>3, <3>1, <3>3
  <2>5. rules[i].allow
    BY <1>1, <1>2, <2>3
  <2>6. QED
    BY <1>2, <2>3, <2>4, <2>5
<1> HIDE DEF passes
<1>6. Permitted(rules) = {allowed[j].to : j \in 1 .. n}
  <2>1. ASSUME NEW x \in Permitted(rules) PROVE \E j \in 1 .. n : x = allowed[j].to
    <3>1. PICK i \in 1 .. n + 1 : passes(i) /\ x = rules[i].to
      BY <1>3, <2>1
    <3>2. QED
      BY <1>4, <3>1
  <2>2. ASSUME NEW j \in 1 .. n PROVE allowed[j].to \in Permitted(rules)
    <3>1. PICK i \in 1 .. n + 1 : passes(i) /\ rules[i].to = allowed[j].to
      BY <1>5
    <3>2. rules[i].to \in Permitted(rules)
      BY <1>3, <3>1
    <3>3. QED
      BY <3>1, <3>2
  <2>3. QED
    BY <2>1, <2>2
<1>7. QED
  BY <1>6 DEF Elements, n, rules

\* No line of an answer reads as the rule that denies everything.
LEMMA LinesAreBlocks ==
    ASSUME NEW lines \in Seq(Lines)
    PROVE  Elements(lines) \subseteq Lines /\ "0.0.0.0/0" \notin Elements(lines)
<1>1. \A i \in 1 .. Len(lines) : lines[i] \in Lines
  BY ElementOfSeq
<1>2. "0.0.0.0/0" \notin Lines
  BY ABlocks DEF Lines
<1>3. QED
  BY <1>1, <1>2 DEF Elements

\* The rules that follow from hosts and blocks let exactly these pass, and what is fixed.
LEMMA DesiredRulesPermit ==
    ASSUME NEW dmsHost \in DMSHosts, NEW smtpHost \in SMTPHosts, NEW lines \in Seq(Lines)
    PROVE  /\ DesiredRules(dmsHost, smtpHost, lines) \in Seq(Rules)
           /\ Permitted(DesiredRules(dmsHost, smtpHost, lines))
                = Fixed \cup {dmsHost, smtpHost} \cup (Elements(lines) \ {"emptyLine"})
<1> DEFINE hosts == <<dmsHost, smtpHost, "rhobs", "sso">>
           blocks == CIDRList(lines)
           fixed == <<"events.pagerduty.com", "100.64.0.0/16">>
           deny == [to |-> "0.0.0.0/0", allow |-> FALSE]
           first == AllowAll(hosts) \o AllowAll(blocks)
           allowed == first \o AllowAll(fixed)
<1>1. /\ hosts \in Seq(Destinations) /\ fixed \in Seq(Destinations)
      /\ Elements(hosts) = {dmsHost, smtpHost, "rhobs", "sso"}
      /\ Elements(fixed) = {"events.pagerduty.com", "100.64.0.0/16"}
  <2>1. hosts \in Seq(Destinations) /\ fixed \in Seq(Destinations)
    BY DEF Destinations, Fixed
  <2>2. Elements(hosts) = {dmsHost, smtpHost, "rhobs", "sso"}
    <3>1. Len(hosts) = 4 /\ 1 .. 4 = {1, 2, 3, 4}
      OBVIOUS
    <3>2. Elements(hosts) = {hosts[1], hosts[2], hosts[3], hosts[4]}
      BY <3>1 DEF Elements
    <3>3. QED
      BY <3>2
  <2>3. Elements(fixed) = {"events.pagerduty.com", "100.64.0.0/16"}
    <3>1. Len(fixed) = 2 /\ 1 .. 2 = {1, 2}
      OBVIOUS
    <3>2. Elements(fixed) = {fixed[1], fixed[2]}
      BY <3>1 DEF Elements
    <3>3. QED
      BY <3>2
  <2>4. QED
    BY <2>1, <2>2, <2>3
<1>2. blocks \in Seq(Destinations) /\ Elements(blocks) = Elements(lines) \ {"emptyLine"}
  <2>1. /\ blocks \in Seq(Lines \ {"emptyLine"})
        /\ Elements(blocks) = Elements(lines) \ {"emptyLine"}
    BY CIDRListKeepsBlocks
  <2>2. Lines \ {"emptyLine"} \subseteq Destinations
    BY DEF Lines, Destinations
  <2> HIDE DEF blocks
  <2>3. blocks \in Seq(Destinations)
    BY <2>1, <2>2, SeqMonotonic
  <2>4. QED
    BY <2>1, <2>3
<1>3. deny \in Rules
  BY DEF Rules, Destinations
<1>4. /\ first \in Seq(Rules) /\ AllowAll(fixed) \in Seq(Rules)
      /\ Elements(AllowAll(fixed)) = {Allow(to) : to \in Elements(fixed)}
      /\ Elements(first) = {Allow(to) : to \in Elements(hosts)}
                             \cup {Allow(to) : to \in Elements(blocks)}
  <2> HIDE DEF hosts, blocks, fixed
  <2>1. /\ AllowAll(hosts) \in Seq(Rules) /\ AllowAll(blocks) \in Seq(Rules)
        /\ AllowAll(fixed) \in Seq(Rules)
        /\ Elements(AllowAll(hosts)) = {Allow(to) : to \in Elements(hosts)}
        /\ Elements(AllowAll(blocks)) = {Allow(to) : to \in Elements(blocks)}
        /\ Elements(AllowAll(fixed)) = {Allow(to) : to \in Elements(fixed)}
    BY <1>1, <1>2, AllowAllElements
  <2>2. first \in Seq(Rules)
        /\ Elements(first) = Elements(AllowAll(hosts)) \cup Elements(AllowAll(blocks))
    BY <2>1, ConcatElements
  <2>3. QED
    BY <2>1, <2>2
<1>5. DesiredRules(dmsHost, smtpHost, lines) = first \o (AllowAll(fixed) \o <<deny>>)
  BY DEF DesiredRules, Template
<1> HIDE DEF hosts, blocks, fixed, first, deny
<1>6. DesiredRules(dmsHost, smtpHost, lines) = allowed \o <<deny>>
  <2>1. <<deny>> \in Seq(Rules)
    BY <1>3
  <2> DEFINE last == <<deny>>
             middle == AllowAll(fixed)
  <2> HIDE DEF last, middle
  <2>2. (first \o middle) \o last = first \o (middle \o last)
    BY <1>4, <2>1, ConcatAssociative DEF last, middle
  <2>3. QED
    BY <1>5, <2>2 DEF last, middle
<1>7. allowed \in Seq(Rules)
      /\ Elements(allowed) = {Allow(to) : to \in Elements(hosts) \cup Elements(blocks)
                                                  \cup Elements(fixed)}
  <2>1. allowed \in Seq(Rules)
        /\ Elements(allowed) = Elements(first) \cup Elements(AllowAll(fixed))
    BY <1>4, ConcatElements
  <2>2. QED
    BY <1>4, <2>1
<1> HIDE DEF allowed
<1>8. \A to \in Elements(hosts) \cup Elements(blocks) \cup Elements(fixed) : to # "0.0.0.0/0"
  BY <1>1, <1>2, AHosts, ABlocks, LinesAreBlocks
<1>9. \A rule \in Elements(allowed) : rule.allow /\ rule.to # "0.0.0.0/0"
  BY <1>7, <1>8 DEF Allow
<1>10. Permitted(allowed \o <<deny>>) = {rule.to : rule \in Elements(allowed)}
  BY <1>3, <1>7, <1>9, PermittedIsAllowed DEF deny
<1>11. {rule.to : rule \in Elements(allowed)}
         = Elements(hosts) \cup Elements(blocks) \cup Elements(fixed)
  <2> DEFINE all == Elements(hosts) \cup Elements(blocks) \cup Elements(fixed)
  <2>1. Elements(allowed) = {Allow(to) : to \in all} /\ \A to : Allow(to).to = to
    BY <1>7 DEF Allow
  <2> HIDE DEF all
  <2>2. \A to \in all : Allow(to) \in Elements(allowed) /\ Allow(to).to = to
    BY <2>1
  <2>3. \A rule \in Elements(allowed) : rule.to \in all
    BY <2>1
  <2>4. {rule.to : rule \in Elements(allowed)} = all
    BY <2>2, <2>3
  <2>5. QED
    BY <2>4 DEF all
<1>12. allowed \o <<deny>> \in Seq(Rules)
  <2>1. <<deny>> \in Seq(Rules)
    BY <1>3
  <2> DEFINE last == <<deny>>
  <2> HIDE DEF last
  <2>2. allowed \o last \in Seq(Rules)
    BY <1>7, <2>1, ConcatProperties DEF last
  <2>3. QED
    BY <2>2 DEF last
<1>13. QED
  BY <1>1, <1>2, <1>6, <1>10, <1>11, <1>12 DEF Fixed

-----------------------------------------------------------------------------
(***************************************************************************)
(* The inductive invariant.                                                *)
(***************************************************************************)
\* The wait to come has doubled with each failure since the last success.
BackoffDoubles == backoff = Smaller(Doubled[failures], MaxSleep)

\* A reconcile has either both secrets, each with an entry, or none; rules are made
\* from the hosts that they name.
SecretsLoaded ==
    /\ pc \in {"idle", "loadSecrets"} => dmsSecret = "absent" /\ smtpSecret = "absent"
    /\ pc \notin {"idle", "loadSecrets"} => dmsSecret # "absent" /\ smtpSecret # "absent"
    /\ \A kind \in Kinds : pc = Writing[kind] => dmsSecret \in DMSHosts

\* A cached policy that is current is the server's.
CachesAccurate == \A kind \in Kinds : policyFresh[kind] => policySeen[kind] = policy[kind]

\* The worker has still to write the policy of a kind, in the reconcile at hand.
PolicyPending(kind) ==
    pc \in IF kind = "EgressFirewall"
             THEN {"loadSecrets", "EgressFirewall", "writeEgressFirewall"}
             ELSE {"loadSecrets", "EgressFirewall", "writeEgressFirewall",
                   "EgressNetworkPolicy", "writeEgressNetworkPolicy"}

\* The rules that follow from what the caches hold.
RulesSeen == DesiredRules(dmsSeen, smtpSeen, IF Converged THEN <<>> ELSE awsSeen.lines)
AsDesired(kind) ==
    /\ dmsSeen \in DMSHosts /\ smtpSeen \in SMTPHosts
    /\ policySeen[kind] = [exists |-> TRUE, rules |-> RulesSeen]

\* Unless a request is queued, the worker has what the caches have, and each policy is
\* as they want it, or the worker comes to it, or an event of it is to come.
PoliciesAttended ==
    ~queued =>
      /\ pc \notin {"idle", "loadSecrets"} => dmsSecret = dmsSeen /\ smtpSecret = smtpSeen
      /\ \A kind \in Kinds :
           pc = Writing[kind] => copy = policySeen[kind] /\ desired = RulesSeen
      /\ \A kind \in Available :
           PolicyPending(kind) \/ ~policyFresh[kind] \/ AsDesired(kind)

GathererInv ==
    /\ vpc \in Answers /\ fetched \in Answers \cup {<<>>, ErrorPage}
    /\ gpc \in {"start", "get", "save", "sleep"}
    /\ aws \in AWSData /\ awsCopy \in AWSData /\ awsCopyFresh \in BOOLEAN
    /\ backoff \in 1 .. MaxSleep /\ sleep \in 0 .. MaxSleep /\ failures \in Nat
    /\ BackoffDoubles /\ SleepFollowsFailures

DeployerInv ==
    /\ awsSeen \in AWSData /\ queued \in BOOLEAN /\ copyFresh \in BOOLEAN
    /\ dms \in DMSValues /\ dmsSeen \in DMSValues /\ dmsSecret \in DMSValues
    /\ smtp \in SMTPValues /\ smtpSeen \in SMTPValues /\ smtpSecret \in SMTPValues
    /\ policy \in [Kinds -> Policies] /\ policySeen \in [Kinds -> Policies]
    /\ policyFresh \in [Kinds -> BOOLEAN]
    /\ copy \in Policies /\ desired \in Seq(Rules)
    /\ pc \in {"idle", "loadSecrets", "EgressFirewall", "writeEgressFirewall",
               "EgressNetworkPolicy", "writeEgressNetworkPolicy"}
    /\ SecretsLoaded /\ CachesAccurate /\ PoliciesAttended

EgressInv == GathererInv /\ DeployerInv /\ disturbances \in 0 .. MaxDisturbances

\* The invariant contains the type.
LEMMA InvIsTyped == EgressInv => EgressTypeOK
  BY DEF EgressInv, GathererInv, DeployerInv, EgressTypeOK

-----------------------------------------------------------------------------
\* The gatherer.
LEMMA CappedDoubling ==
    ASSUME NEW n \in Nat
    PROVE  Smaller(2 * Smaller(Doubled[n], MaxSleep), MaxSleep) = Smaller(Doubled[n + 1], MaxSleep)
<1>1. Doubled[n] \in Nat /\ Doubled[n + 1] = 2 * Doubled[n] /\ MaxSleep \in Nat /\ MaxSleep # 0
  BY DoubledRecursion, AMaxSleep
<1>2. QED
  BY <1>1 DEF Smaller

\* The end of an attempt: after a success the backoff is 1 again, after a failure doubled.
LEMMA AttemptedKeepsInv ==
    ASSUME GathererInv, NEW success \in BOOLEAN, Attempted(success),
           vpc' \in Answers, aws' \in AWSData
    PROVE  GathererInv'
<1>1. gpc' = "sleep" /\ fetched' = <<>> /\ awsCopy' = NoAWSData /\ awsCopyFresh' = FALSE
  BY DEF Attempted
<1>2. NoAWSData \in AWSData
  BY DEF NoAWSData, AWSData
<1>3. MaxSleep \in Nat /\ MaxSleep # 0
  BY AMaxSleep
<1>4. CASE success
  <2>1. sleep' = MaxSleep /\ backoff' = 1 /\ failures' = 0
    BY <1>4 DEF Attempted
  <2>2. BackoffDoubles' /\ SleepFollowsFailures'
    BY <1>3, <2>1, DoubledRecursion DEF BackoffDoubles, SleepFollowsFailures, Smaller
  <2>3. backoff' \in 1 .. MaxSleep /\ sleep' \in 0 .. MaxSleep /\ failures' \in Nat
    BY <1>3, <2>1
  <2>4. QED
    BY <1>1, <1>2, <2>2, <2>3 DEF GathererInv
<1>5. CASE ~success
  <2>1. sleep' = backoff /\ backoff' = Smaller(2 * backoff, MaxSleep) /\ failures' = failures + 1
    BY <1>5 DEF Attempted
  <2>2. backoff \in 1 .. MaxSleep /\ failures \in Nat /\ backoff = Smaller(Doubled[failures], MaxSleep)
    BY DEF GathererInv, BackoffDoubles
  <2>3. backoff' \in 1 .. MaxSleep /\ sleep' \in 0 .. MaxSleep /\ failures' \in Nat
        /\ failures' # 0 /\ failures' - 1 = failures
    BY <1>3, <2>1, <2>2 DEF Smaller
  <2>4. BackoffDoubles'
    BY <2>1, <2>2, CappedDoubling DEF BackoffDoubles
  <2>5. SleepFollowsFailures'
    BY <2>1, <2>2, <2>3 DEF SleepFollowsFailures
  <2>6. QED
    BY <1>1, <1>2, <2>3, <2>4, <2>5 DEF GathererInv
<1>6. QED
  BY <1>4, <1>5

\* Steps of the gatherer, of IMDS and of those who edit the ConfigMap.
LEMMA GathererKeepsInv ==
    ASSUME GathererInv,
           Gatherer \/ ChangeVPC \/ FetchErrorPage \/ GatherFails \/ RestartGatherer \/ EditAWSData
    PROVE  GathererInv'
<1>1. ASSUME gpc' = "get", fetched' \in Answers \cup {ErrorPage},
             UNCHANGED <<vpc, awsCopy, awsCopyFresh, backoff, sleep, failures, aws>>
      PROVE  GathererInv'
  BY <1>1 DEF GathererInv, BackoffDoubles, SleepFollowsFailures
<1>2. CASE Fetch \/ FetchErrorPage
  BY <1>1, <1>2 DEF Fetch, FetchErrorPage, Gathered, GathererInv
<1>3. CASE GetAWSData
  BY <1>3 DEF GetAWSData, Gathered, GathererInv, BackoffDoubles, SleepFollowsFailures
<1>4. CASE SaveAWSData
  <2>1. [state |-> "data", lines |-> fetched] \in AWSData
    BY DEF AWSData, GathererInv
  <2>2. vpc' \in Answers /\ aws' \in AWSData
    BY <1>4, <2>1 DEF SaveAWSData, Gathered, GathererInv
  <2>3. \E success \in BOOLEAN : Attempted(success)
    BY <1>4 DEF SaveAWSData
  <2>4. QED
    BY <2>2, <2>3, AttemptedKeepsInv
<1>5. CASE GatherFails
  BY <1>5, AttemptedKeepsInv DEF GatherFails, Gathered, GathererInv
<1>6. CASE RestartGatherer
  <2>1. NoAWSData \in AWSData /\ MaxSleep \in Nat /\ MaxSleep # 0
    BY AMaxSleep DEF NoAWSData, AWSData
  <2>2. BackoffDoubles'
    BY <1>6, <2>1, DoubledRecursion DEF RestartGatherer, BackoffDoubles, Smaller
  <2>3. backoff' \in 1 .. MaxSleep /\ sleep' \in 0 .. MaxSleep /\ failures' \in Nat
    BY <1>6, <2>1 DEF RestartGatherer
  <2>4. /\ gpc' = "start" /\ fetched' = <<>> /\ awsCopy' = NoAWSData /\ awsCopyFresh' = FALSE
        /\ UNCHANGED <<vpc, aws>>
    BY <1>6 DEF RestartGatherer, Gathered
  <2>5. QED
    BY <2>1, <2>2, <2>3, <2>4 DEF GathererInv, SleepFollowsFailures
<1>7. CASE ChangeVPC
  BY <1>7 DEF ChangeVPC, gathererVars, sourceVars, GathererInv, BackoffDoubles, SleepFollowsFailures
<1>8. CASE EditAWSData
  <2>1. aws' \in AWSData
    BY <1>8 DEF EditAWSData, NoAWSData, AWSData
  <2>2. QED
    BY <1>8, <2>1 DEF EditAWSData, GathererInv, BackoffDoubles, SleepFollowsFailures
<1>9. QED
  BY <1>2, <1>3, <1>4, <1>5, <1>6, <1>7, <1>8 DEF Gatherer

-----------------------------------------------------------------------------
\* The deployer, its informers and those who change what it reads and writes.
deployerVars == <<dms, smtp, sourceSeen, policyVars, pc, queued, localVars>>

\* The deployer's invariant is about the deployer's variables.
LEMMA DeployerUntouched == ASSUME DeployerInv, UNCHANGED deployerVars PROVE DeployerInv'
  BY DEF deployerVars, sourceSeen, policyVars, localVars, DeployerInv, SecretsLoaded,
         CachesAccurate, PoliciesAttended, PolicyPending, AsDesired, RulesSeen

\* The kinds of policies, and where the worker is when it writes each.
LEMMA KindsOfPolicies ==
    /\ Available \subseteq Kinds /\ NoPolicy \in Policies /\ <<>> \in Seq(Rules)
    /\ Writing["EgressFirewall"] = "writeEgressFirewall"
    /\ Writing["EgressNetworkPolicy"] = "writeEgressNetworkPolicy"
  BY AAvailable, EmptySeq DEF NoPolicy, Policies, Writing

\* The end of a reconcile, with a request or with every policy as desired.
LEMMA EndEgressKeepsInv ==
    ASSUME DeployerInv, NEW error \in BOOLEAN, EndEgress(error),
           dms' \in DMSValues, smtp' \in SMTPValues, awsSeen' \in AWSData,
           dmsSeen' \in DMSValues, smtpSeen' \in SMTPValues,
           policy' \in [Kinds -> Policies], policySeen' \in [Kinds -> Policies],
           policyFresh' \in [Kinds -> BOOLEAN], CachesAccurate',
           ~queued' => \A kind \in Available : ~policyFresh'[kind] \/ AsDesired(kind)'
    PROVE  DeployerInv'
<1>1. /\ pc' = "idle" /\ queued' \in BOOLEAN /\ dmsSecret' = "absent" /\ smtpSecret' = "absent"
      /\ copy' = NoPolicy /\ copyFresh' = FALSE /\ desired' = <<>>
  BY DEF EndEgress, DeployerInv
<1>2. "absent" \in DMSValues /\ "absent" \in SMTPValues
  BY DEF DMSValues, SMTPValues
<1>3. \A kind \in Kinds : pc' # Writing[kind]
  BY <1>1, KindsOfPolicies DEF Kinds
<1>4. SecretsLoaded' /\ PoliciesAttended'
  BY <1>1, <1>3 DEF SecretsLoaded, PoliciesAttended
<1>5. QED
  BY <1>1, <1>2, <1>4, KindsOfPolicies DEF DeployerInv

\* On from the policy of a kind, which is as desired or has an event to come.
LEMMA GoOnKeepsInv ==
    ASSUME DeployerInv, NEW kind \in Kinds, pc \in {kind, Writing[kind]}, GoOn(kind),
           UNCHANGED <<dms, smtp, sourceSeen, policySeen>>,
           policy' \in [Kinds -> Policies], policyFresh' \in [Kinds -> BOOLEAN],
           CachesAccurate', \A k \in Kinds : policyFresh'[k] => policyFresh[k],
           ~queued /\ kind \in Available => ~policyFresh'[kind] \/ AsDesired(kind)
    PROVE  DeployerInv'
<1>1. \A k \in Kinds : AsDesired(k)' <=> AsDesired(k)
  BY DEF AsDesired, RulesSeen, sourceSeen
<1>2. CASE kind = "EgressFirewall"
  <2>1. /\ pc' = "EgressNetworkPolicy" /\ copy' = NoPolicy /\ copyFresh' = FALSE /\ desired' = <<>>
        /\ UNCHANGED <<queued, dmsSecret, smtpSecret>>
    BY <1>2 DEF GoOn
  <2>2. pc \in {"EgressFirewall", "writeEgressFirewall"}
    BY <1>2, KindsOfPolicies
  <2>3. SecretsLoaded'
    BY <2>1, <2>2, KindsOfPolicies DEF SecretsLoaded, DeployerInv, Kinds
  <2>4. PoliciesAttended'
    <3> SUFFICES ASSUME ~queued' PROVE PoliciesAttended'
      BY DEF PoliciesAttended
    <3>1. dmsSecret = dmsSeen /\ smtpSecret = smtpSeen
      BY <2>1, <2>2 DEF DeployerInv, PoliciesAttended
    <3>2. \A k \in Kinds : pc' # Writing[k]
      BY <2>1, KindsOfPolicies DEF Kinds
    <3>3. ASSUME NEW k \in Available
          PROVE  PolicyPending(k)' \/ ~policyFresh'[k] \/ AsDesired(k)'
      <4>1. CASE k = "EgressFirewall"
        BY <1>1, <1>2, <2>1, <4>1
      <4>2. CASE k # "EgressFirewall"
        BY <2>1, <4>2 DEF PolicyPending
      <4>3. QED
        BY <4>1, <4>2
    <3>4. QED
      BY <2>1, <3>1, <3>2, <3>3 DEF PoliciesAttended, sourceSeen
  <2>5. QED
    BY <2>1, <2>3, <2>4, KindsOfPolicies DEF DeployerInv, sourceSeen
<1>3. CASE kind # "EgressFirewall"
  <2>1. EndEgress(FALSE) /\ kind = "EgressNetworkPolicy"
        /\ pc \in {"EgressNetworkPolicy", "writeEgressNetworkPolicy"}
    BY <1>3, KindsOfPolicies DEF GoOn, Kinds
  <2>2. ASSUME ~queued', NEW k \in Available PROVE ~policyFresh'[k] \/ AsDesired(k)'
    <3>1. ~queued
      BY <2>1, <2>2 DEF EndEgress
    <3>2. k \in Kinds
      BY KindsOfPolicies
    <3>3. CASE k = kind
      BY <1>1, <3>1, <3>3
    <3>4. CASE k # kind
      <4>1. PolicyPending(k) \/ ~policyFresh[k] \/ AsDesired(k)
        BY <3>1 DEF DeployerInv, PoliciesAttended
      <4>2. ~PolicyPending(k)
        BY <2>1, <3>2, <3>4 DEF PolicyPending, Kinds
      <4>3. QED
        BY <1>1, <3>2, <4>1, <4>2
    <3>5. QED
      BY <3>3, <3>4
  <2>3. QED
    BY <2>1, <2>2, EndEgressKeepsInv DEF DeployerInv, sourceSeen
<1>4. QED
  BY <1>2, <1>3

\* Rules are made of hosts that the secrets name and of what the ConfigMap holds.
LEMMA RulesAreRules ==
    ASSUME NEW dmsHost \in DMSHosts, NEW smtpHost \in SMTPHosts, NEW data \in AWSData
    PROVE  /\ DesiredRules(dmsHost, smtpHost, IF Converged THEN <<>> ELSE data.lines) \in Seq(Rules)
           /\ data.lines \in Seq(Lines)
<1>1. data.lines \in Answers \cup {<<>>, ErrorPage}
  BY DEF AWSData
<1>2. <<>> \in Seq(Lines) /\ ErrorPage \in Seq(Lines) /\ Answers \subseteq Seq(Lines)
  BY EmptySeq, AAnswers DEF ErrorPage, Lines
<1>3. data.lines \in Seq(Lines) /\ (IF Converged THEN <<>> ELSE data.lines) \in Seq(Lines)
  BY <1>1, <1>2
<1>4. QED
  BY <1>3, DesiredRulesPermit

\* Steps of the worker.
LEMMA EgressWorkerKeepsInv == ASSUME DeployerInv, EgressWorker PROVE DeployerInv'
<1>1. CASE BeginEgress
  <2>1. /\ pc = "idle" /\ pc' = "loadSecrets" /\ queued' = FALSE
        /\ UNCHANGED <<dms, smtp, sourceSeen, policyVars, localVars>>
    BY <1>1 DEF BeginEgress, Reconciled, sourceVars
  <2>2. \A kind \in Kinds : pc' # Writing[kind] /\ PolicyPending(kind)'
    BY <2>1, KindsOfPolicies DEF Kinds, PolicyPending
  <2>3. SecretsLoaded' /\ CachesAccurate' /\ PoliciesAttended'
    BY <2>1, <2>2, KindsOfPolicies DEF DeployerInv, SecretsLoaded, CachesAccurate,
                                       PoliciesAttended, policyVars, localVars
  <2>4. QED
    BY <2>1, <2>3 DEF DeployerInv, sourceSeen, policyVars, localVars
<1>2. CASE LoadSecrets
  <2>1. /\ pc = "loadSecrets" /\ dmsSecret = "absent" /\ smtpSecret = "absent"
        /\ UNCHANGED <<dms, smtp, sourceSeen, policyVars>>
    BY <1>2 DEF LoadSecrets, Reconciled, sourceVars, DeployerInv, SecretsLoaded
  <2>2. CASE EndEgress(TRUE)
    BY <2>1, <2>2, EndEgressKeepsInv
       DEF EndEgress, DeployerInv, CachesAccurate, sourceSeen, policyVars
  <2>3. CASE "absent" \notin {dmsSeen, smtpSeen}
    <3>1. /\ dmsSecret' = dmsSeen /\ smtpSecret' = smtpSeen /\ pc' = "EgressFirewall"
          /\ UNCHANGED <<queued, copy, copyFresh, desired>>
      BY <1>2, <2>1, <2>3 DEF LoadSecrets
    <3>2. \A kind \in Kinds : pc' # Writing[kind] /\ PolicyPending(kind)'
      BY <3>1, KindsOfPolicies DEF Kinds, PolicyPending
    <3>3. SecretsLoaded' /\ CachesAccurate' /\ PoliciesAttended'
      BY <2>1, <2>3, <3>1, <3>2, KindsOfPolicies
         DEF DeployerInv, SecretsLoaded, CachesAccurate, PoliciesAttended, policyVars, sourceSeen
    <3>4. QED
      BY <2>1, <3>1, <3>3 DEF DeployerInv, sourceSeen, policyVars
  <2>4. QED
    BY <1>2, <2>1, <2>2, <2>3 DEF LoadSecrets
<1>3. CASE SkipPolicy
  <2>1. PICK kind \in Kinds \ Available : pc = kind /\ GoOn(kind) /\ UNCHANGED policyVars
    BY <1>3 DEF SkipPolicy
  <2>2. UNCHANGED <<dms, smtp, sourceSeen>>
    BY <1>3 DEF SkipPolicy, Reconciled, sourceVars
  <2>3. QED
    BY <2>1, <2>2, GoOnKeepsInv DEF DeployerInv, CachesAccurate, policyVars
<1>4. CASE PreparePolicy
  <2>1. PICK kind \in Available :
          /\ pc = kind
          /\ IF (~Converged /\ awsSeen.state # "data") \/ dmsSecret = "malformed"
               THEN EndEgress(TRUE)
               ELSE /\ pc' = Writing[kind]
                    /\ copy' = policySeen[kind] /\ copyFresh' = policyFresh[kind]
                    /\ desired' = DesiredRules(dmsSecret, smtpSecret,
                                               IF Converged THEN <<>> ELSE awsSeen.lines)
                    /\ UNCHANGED <<queued, dmsSecret, smtpSecret>>
    BY <1>4 DEF PreparePolicy
  <2>2. UNCHANGED <<dms, smtp, sourceSeen, policyVars>>
    BY <1>4 DEF PreparePolicy, Reconciled, sourceVars
  <2>3. CASE EndEgress(TRUE)
    BY <2>2, <2>3, EndEgressKeepsInv
       DEF EndEgress, DeployerInv, CachesAccurate, sourceSeen, policyVars
  <2>4. CASE ~EndEgress(TRUE)
    <3>1. /\ pc' = Writing[kind] /\ copy' = policySeen[kind] /\ copyFresh' = policyFresh[kind]
          /\ desired' = DesiredRules(dmsSecret, smtpSecret,
                                     IF Converged THEN <<>> ELSE awsSeen.lines)
          /\ dmsSecret # "malformed" /\ UNCHANGED <<queued, dmsSecret, smtpSecret>>
      BY <2>1, <2>4
    <3>2. kind \in {"EgressFirewall", "EgressNetworkPolicy"}
      BY KindsOfPolicies DEF Kinds
    <3>3. dmsSecret \in DMSHosts /\ smtpSecret \in SMTPHosts
      BY <2>1, <3>1, <3>2 DEF DeployerInv, SecretsLoaded, DMSValues, SMTPValues
    <3>4. desired' \in Seq(Rules)
      BY <3>1, <3>3, RulesAreRules DEF DeployerInv
    <3>5. /\ pc' \in {"writeEgressFirewall", "writeEgressNetworkPolicy"}
          /\ \A k \in Kinds : /\ pc' = Writing[k] => k = kind
                              /\ PolicyPending(k) => PolicyPending(k)'
      BY <2>1, <3>1, <3>2, KindsOfPolicies DEF Kinds, PolicyPending
    <3>6. SecretsLoaded'
      BY <2>1, <3>1, <3>2, <3>3, <3>5 DEF DeployerInv, SecretsLoaded
    <3>7. PoliciesAttended'
      <4> SUFFICES ASSUME ~queued' PROVE PoliciesAttended'
        BY DEF PoliciesAttended
      <4>1. dmsSecret = dmsSeen /\ smtpSecret = smtpSeen /\ smtpSeen \in SMTPHosts
        BY <2>1, <3>1, <3>2, <3>3 DEF DeployerInv, PoliciesAttended
      <4>2. desired' = RulesSeen' /\ \A k \in Kinds : AsDesired(k)' <=> AsDesired(k)
        BY <2>2, <3>1, <4>1 DEF RulesSeen, AsDesired, sourceSeen, policyVars
      <4>3. \A k \in Available : PolicyPending(k)' \/ ~policyFresh'[k] \/ AsDesired(k)'
        BY <2>2, <3>1, <3>5, <4>2, KindsOfPolicies DEF DeployerInv, PoliciesAttended, policyVars
      <4>4. QED
        BY <2>2, <3>1, <3>5, <4>1, <4>2, <4>3 DEF PoliciesAttended, sourceSeen, policyVars
    <3>8. CachesAccurate'
      BY <2>2 DEF DeployerInv, CachesAccurate, policyVars
    <3>9. copy' \in Policies /\ copyFresh' \in BOOLEAN
      BY <3>1, <3>2 DEF DeployerInv, Kinds
    <3>10. QED
      BY <2>2, <3>1, <3>4, <3>5, <3>6, <3>7, <3>8, <3>9 DEF DeployerInv, sourceSeen, policyVars
  <2>5. QED
    BY <2>3, <2>4
<1>5. CASE WritePolicy
  <2>1. PICK kind \in Available :
          /\ pc = Writing[kind]
          /\ \/ copy.exists /\ copy.rules = desired /\ GoOn(kind) /\ UNCHANGED <<policy, policyFresh>>
             \/ /\ policy' = [policy EXCEPT ![kind] = [exists |-> TRUE, rules |-> desired]]
                /\ policyFresh' = [policyFresh EXCEPT ![kind] = FALSE]
                /\ GoOn(kind)
             \/ EndEgress(TRUE) /\ UNCHANGED <<policy, policyFresh>>
    BY <1>5 DEF WritePolicy
  <2>2. UNCHANGED <<dms, smtp, sourceSeen, policySeen>> /\ kind \in Kinds
    BY <1>5, KindsOfPolicies DEF WritePolicy, Reconciled, sourceVars
  <2>3. CASE EndEgress(TRUE) /\ UNCHANGED <<policy, policyFresh>>
    BY <2>2, <2>3, EndEgressKeepsInv DEF EndEgress, DeployerInv, CachesAccurate, sourceSeen
  <2>4. CASE copy.exists /\ copy.rules = desired /\ GoOn(kind) /\ UNCHANGED <<policy, policyFresh>>
    <3>1. ASSUME ~queued PROVE AsDesired(kind)
      <4>1. copy = policySeen[kind] /\ desired = RulesSeen
        BY <2>1, <2>2, <3>1 DEF DeployerInv, PoliciesAttended
      <4>2. pc \in {"writeEgressFirewall", "writeEgressNetworkPolicy"}
        BY <2>1, <2>2, KindsOfPolicies DEF Kinds
      <4>3. dmsSecret = dmsSeen /\ smtpSecret = smtpSeen /\ smtpSecret # "absent"
        BY <3>1, <4>2 DEF DeployerInv, PoliciesAttended, SecretsLoaded
      <4>4. dmsSeen \in DMSHosts /\ smtpSeen \in SMTPHosts
        BY <2>1, <2>2, <4>3 DEF DeployerInv, SecretsLoaded, SMTPValues
      <4>5. copy = [exists |-> TRUE, rules |-> desired]
        BY <2>4 DEF DeployerInv, Policies
      <4>6. QED
        BY <4>1, <4>4, <4>5 DEF AsDesired
    <3>2. QED
      BY <2>1, <2>2, <2>4, <3>1, GoOnKeepsInv DEF DeployerInv, CachesAccurate
  <2>5. CASE /\ policy' = [policy EXCEPT ![kind] = [exists |-> TRUE, rules |-> desired]]
             /\ policyFresh' = [policyFresh EXCEPT ![kind] = FALSE]
             /\ GoOn(kind)
    <3>1. [exists |-> TRUE, rules |-> desired] \in Policies
      BY DEF DeployerInv, Policies
    <3>2. policy' \in [Kinds -> Policies] /\ policyFresh' \in [Kinds -> BOOLEAN]
          /\ ~policyFresh'[kind] /\ \A k \in Kinds : policyFresh'[k] => policyFresh[k]
      BY <2>2, <2>5, <3>1 DEF DeployerInv
    <3>3. CachesAccurate'
      BY <2>2, <2>5, <3>2 DEF DeployerInv, CachesAccurate
    <3>4. QED
      BY <2>1, <2>2, <2>5, <3>2, <3>3, GoOnKeepsInv
  <2>6. QED
    BY <2>1, <2>3, <2>4, <2>5
<1>6. QED
  BY <1>1, <1>2, <1>3, <1>4, <1>5 DEF EgressWorker

\* Steps of informers, users, failures and restarts.
LEMMA SurroundingsKeepInv ==
    ASSUME GathererInv, DeployerInv,
           SyncSources \/ SyncPolicy \/ OtherEgressEvent
             \/ EditSecret \/ EditPolicy \/ EgressFails \/ RestartEgress
    PROVE  DeployerInv'
<1>1. CASE SyncSources
  <2>1. awsSeen' \in AWSData /\ dmsSeen' \in DMSValues /\ smtpSeen' \in SMTPValues
        /\ queued' = TRUE /\ UNCHANGED <<dms, smtp, policyVars, pc, localVars>>
    BY <1>1 DEF SyncSources, sourceVars, GathererInv, DeployerInv
  <2>2. QED
    BY <2>1 DEF DeployerInv, SecretsLoaded, CachesAccurate, PoliciesAttended, policyVars, localVars
<1>2. CASE SyncPolicy
  <2>1. PICK kind \in Available :
          /\ policySeen' = [policySeen EXCEPT ![kind] = policy[kind]]
          /\ policyFresh' = [policyFresh EXCEPT ![kind] = TRUE]
    BY <1>2 DEF SyncPolicy
  <2>2. queued' = TRUE /\ UNCHANGED <<dms, smtp, sourceSeen, policy, pc, localVars>>
    BY <1>2 DEF SyncPolicy, sourceVars
  <2>3. /\ policySeen' \in [Kinds -> Policies] /\ policyFresh' \in [Kinds -> BOOLEAN]
        /\ CachesAccurate'
    BY <2>1, <2>2, KindsOfPolicies DEF DeployerInv, CachesAccurate
  <2>4. QED
    BY <2>2, <2>3 DEF DeployerInv, SecretsLoaded, PoliciesAttended, sourceSeen, localVars
<1>3. CASE OtherEgressEvent
  BY <1>3 DEF OtherEgressEvent, sourceVars, sourceSeen, policyVars, localVars,
              DeployerInv, SecretsLoaded, CachesAccurate, PoliciesAttended
<1>4. CASE EditSecret
  <2>1. dms' \in DMSValues /\ smtp' \in SMTPValues
        /\ UNCHANGED <<sourceSeen, policyVars, pc, queued, localVars>>
    BY <1>4 DEF EditSecret, DeployerInv
  <2>2. SecretsLoaded' /\ CachesAccurate' /\ PoliciesAttended'
    BY <2>1 DEF DeployerInv, sourceSeen, policyVars, localVars, SecretsLoaded, CachesAccurate,
                PoliciesAttended, PolicyPending, AsDesired, RulesSeen
  <2>3. QED
    BY <2>1, <2>2 DEF DeployerInv, sourceSeen, policyVars, localVars
<1>5. CASE EditPolicy
  <2>1. PICK kind \in Available, edited \in {NoPolicy, [exists |-> TRUE, rules |-> <<>>]} :
          /\ policy' = [policy EXCEPT ![kind] = edited]
          /\ policyFresh' = [policyFresh EXCEPT ![kind] = FALSE]
          /\ copyFresh' = (copyFresh /\ pc # Writing[kind])
    BY <1>5 DEF EditPolicy
  <2>2. UNCHANGED <<dms, smtp, sourceSeen, policySeen, pc, queued, dmsSecret, smtpSecret,
                    copy, desired>>
    BY <1>5 DEF EditPolicy, sourceVars
  <2>3. edited \in Policies
    <3>1. <<>> \in Seq(Rules)
      BY EmptySeq
    <3>2. [exists |-> TRUE, rules |-> <<>>] \in Policies
      BY <3>1 DEF Policies
    <3>3. QED
      BY <3>2, KindsOfPolicies
  <2>4. /\ policy' \in [Kinds -> Policies] /\ policyFresh' \in [Kinds -> BOOLEAN]
        /\ CachesAccurate' /\ \A k \in Kinds : policyFresh'[k] => policyFresh[k]
    BY <2>1, <2>2, <2>3, KindsOfPolicies DEF DeployerInv, CachesAccurate
  <2>5. PoliciesAttended'
    BY <2>2, <2>4, KindsOfPolicies DEF DeployerInv, PoliciesAttended, PolicyPending, AsDesired,
                                       RulesSeen, sourceSeen
  <2>6. copyFresh' \in BOOLEAN
    BY <2>1 DEF DeployerInv
  <2>7. QED
    BY <2>2, <2>4, <2>5, <2>6 DEF DeployerInv, SecretsLoaded, sourceSeen
<1>6. CASE EgressFails
  <2>1. EndEgress(TRUE) /\ UNCHANGED <<dms, smtp, sourceSeen, policyVars>>
    BY <1>6 DEF EgressFails, Reconciled, sourceVars
  <2>2. QED
    BY <2>1, EndEgressKeepsInv DEF EndEgress, DeployerInv, CachesAccurate, sourceSeen, policyVars
<1>7. CASE RestartEgress
  <2>1. /\ EndEgress(TRUE) /\ awsSeen' = aws /\ dmsSeen' = dms /\ smtpSeen' = smtp
        /\ policySeen' = policy /\ policyFresh' = [kind \in Kinds |-> TRUE]
        /\ UNCHANGED <<dms, smtp, policy>>
    BY <1>7 DEF RestartEgress, sourceVars
  <2>2. CachesAccurate' /\ policyFresh' \in [Kinds -> BOOLEAN] /\ queued' = TRUE
    BY <2>1 DEF CachesAccurate, EndEgress, DeployerInv
  <2>3. QED
    BY <2>1, <2>2, EndEgressKeepsInv DEF GathererInv, DeployerInv
<1>8. QED
  BY <1>1, <1>2, <1>3, <1>4, <1>5, <1>6, <1>7

-----------------------------------------------------------------------------
\* At the start there is neither data nor policy, and a request is queued.
LEMMA EgressInitEstablishesInv == ASSUME EgressInit PROVE EgressInv
<1>1. NoAWSData \in AWSData /\ "absent" \in DMSValues /\ "absent" \in SMTPValues
      /\ MaxSleep \in Nat /\ MaxSleep # 0 /\ 0 \in 0 .. MaxDisturbances
  BY AMaxSleep, AEgressDisturbances DEF NoAWSData, AWSData, DMSValues, SMTPValues
<1>2. GathererInv
  <2>1. BackoffDoubles /\ SleepFollowsFailures
    BY <1>1, DoubledRecursion DEF EgressInit, BackoffDoubles, SleepFollowsFailures, Smaller
  <2>2. backoff \in 1 .. MaxSleep /\ sleep \in 0 .. MaxSleep /\ failures \in Nat
    BY <1>1 DEF EgressInit
  <2>3. QED
    BY <1>1, <2>1, <2>2 DEF EgressInit, GathererInv
<1>3. DeployerInv
  <2>1. \A kind \in Kinds : pc # Writing[kind]
    BY KindsOfPolicies DEF EgressInit, Kinds
  <2>2. SecretsLoaded /\ CachesAccurate /\ PoliciesAttended
    BY <2>1 DEF EgressInit, SecretsLoaded, CachesAccurate, PoliciesAttended
  <2>3. QED
    BY <1>1, <2>2, KindsOfPolicies DEF EgressInit, DeployerInv, DMSValues, SMTPValues
<1>4. QED
  BY <1>1, <1>2, <1>3 DEF EgressInit, EgressInv

\* Who writes what: the gatherer's part of the invariant is no business of the
\* deployer's, nor the other way round.
LEMMA EgressNextKeepsInv == ASSUME EgressInv, EgressNext PROVE EgressInv'
<1>1. GathererInv /\ DeployerInv
  BY DEF EgressInv
<1>2. disturbances' \in 0 .. MaxDisturbances
  <2>1. UNCHANGED disturbances \/ Disturb
    BY DEF EgressNext, Gatherer, Fetch, GetAWSData, SaveAWSData, EgressWorker, BeginEgress,
           LoadSecrets, SkipPolicy, PreparePolicy, WritePolicy, SyncSources, SyncPolicy,
           OtherEgressEvent, Surroundings, ChangeVPC, FetchErrorPage, GatherFails,
           RestartGatherer, EditAWSData, EditSecret, EditPolicy, EgressFails, RestartEgress
  <2>2. QED
    BY <2>1, AEgressDisturbances DEF Disturb, EgressInv
<1>3. CASE Gatherer \/ ChangeVPC \/ FetchErrorPage \/ GatherFails \/ RestartGatherer \/ EditAWSData
  <2>1. UNCHANGED deployerVars
    BY <1>3 DEF Gatherer, Fetch, GetAWSData, SaveAWSData, Gathered, ChangeVPC, FetchErrorPage,
                GatherFails, RestartGatherer, EditAWSData, sourceVars, deployerVars
  <2>2. QED
    BY <1>1, <1>2, <1>3, <2>1, GathererKeepsInv, DeployerUntouched DEF EgressInv
<1>4. CASE EgressWorker \/ SyncSources \/ SyncPolicy \/ OtherEgressEvent
             \/ EditSecret \/ EditPolicy \/ EgressFails \/ RestartEgress
  <2>1. UNCHANGED <<vpc, gathererVars, aws>>
    BY <1>4 DEF EgressWorker, BeginEgress, LoadSecrets, SkipPolicy, PreparePolicy, WritePolicy,
                Reconciled, SyncSources, SyncPolicy, OtherEgressEvent, EditSecret, EditPolicy,
                EgressFails, RestartEgress, sourceVars
  <2>2. GathererInv'
    BY <1>1, <2>1 DEF gathererVars, GathererInv, BackoffDoubles, SleepFollowsFailures
  <2>3. QED
    BY <1>1, <1>2, <1>4, <2>2, EgressWorkerKeepsInv, SurroundingsKeepInv DEF EgressInv
<1>5. QED
  BY <1>3, <1>4 DEF EgressNext, Surroundings

\* The three parts together.
LEMMA EgressInvariance == EgressSpec => []EgressInv
<1>1. EgressInit => EgressInv
  BY EgressInitEstablishesInv
<1>2. EgressInv /\ [EgressNext]_egressVars => EgressInv'
  <2>1. CASE UNCHANGED egressVars
    <3>1. EgressInv => EgressInv'
      <4> SUFFICES ASSUME EgressInv PROVE EgressInv'
        OBVIOUS
      <4>1. UNCHANGED <<vpc, gathererVars, aws, disturbances>> /\ UNCHANGED deployerVars
        BY <2>1 DEF egressVars, deployerVars, sourceVars
      <4>2. GathererInv'
        BY <4>1 DEF EgressInv, gathererVars, GathererInv, BackoffDoubles, SleepFollowsFailures
      <4>3. DeployerInv'
        BY <4>1, DeployerUntouched DEF EgressInv
      <4>4. QED
        BY <4>1, <4>2, <4>3 DEF EgressInv
    <3>2. QED
      BY <3>1
  <2>2. QED
    BY <2>1, EgressNextKeepsInv
<1>3. QED
  BY <1>1, <1>2, PTL DEF EgressSpec

-----------------------------------------------------------------------------
\* Every reachable state has its type: no rule is ever made of an empty line, nor of a
\* secret without a host.
THEOREM EgressTypeCorrect == EgressSpec => []EgressTypeOK
  BY EgressInvariance, InvIsTyped, PTL

\* The gatherer waits 1, 2, 4... seconds after its failures, up to MaxSleep, however many
\* there are and whatever made them.
THEOREM BackoffFollowsFailures == EgressSpec => []SleepFollowsFailures
<1>1. EgressInv => SleepFollowsFailures
  BY DEF EgressInv, GathererInv
<1>2. QED
  BY <1>1, EgressInvariance, PTL

\* Whenever the deployer waits, nothing is queued and its caches are current, both
\* policies let exactly those destinations pass that the secrets and the ConfigMap name.
THEOREM QuiescentPermitted == EgressSpec => []QuiescentMeansPermitted
<1>1. EgressInv => QuiescentMeansPermitted
  <2> SUFFICES ASSUME EgressInv, pc = "idle", ~queued, awsSeen = aws, dmsSeen = dms,
                      smtpSeen = smtp, NEW kind \in Available, policyFresh[kind]
               PROVE  policy[kind].exists /\ Permitted(policy[kind].rules) = Wanted(aws.lines)
    BY DEF QuiescentMeansPermitted, Reachable
  <2>1. kind \in Kinds /\ CachesAccurate /\ PoliciesAttended /\ aws \in AWSData
    BY KindsOfPolicies DEF EgressInv, DeployerInv, GathererInv
  <2>2. AsDesired(kind) /\ policySeen[kind] = policy[kind]
    BY <2>1 DEF PoliciesAttended, PolicyPending, CachesAccurate
  <2> DEFINE lines == IF Converged THEN <<>> ELSE aws.lines
  <2>3. /\ dms \in DMSHosts /\ smtp \in SMTPHosts /\ policy[kind].exists
        /\ policy[kind].rules = DesiredRules(dms, smtp, lines)
    BY <2>2 DEF AsDesired, RulesSeen
  <2>4. aws.lines \in Seq(Lines) /\ lines \in Seq(Lines)
    BY <2>1, <2>3, RulesAreRules, EmptySeq
  <2>5. Permitted(policy[kind].rules) = Fixed \cup {dms, smtp} \cup (Elements(lines) \ {"emptyLine"})
    <3> HIDE DEF lines
    <3>1. QED
      BY <2>3, <2>4, DesiredRulesPermit
  <2>6. Wanted(aws.lines) = Fixed \cup {dms, smtp} \cup (Elements(lines) \ {"emptyLine"})
    <3>1. CASE Converged
      <4>1. Elements(lines) = {}
        BY <3>1, EmptySeq DEF Elements
      <4>2. QED
        BY <3>1, <4>1 DEF Wanted
    <3>2. CASE ~Converged
      BY <3>2 DEF Wanted, Elements
    <3>3. QED
      BY <3>1, <3>2
  <2>7. QED
    BY <2>3, <2>5, <2>6
<1>2. QED
  BY <1>1, EgressInvariance, PTL
=============================================================================
