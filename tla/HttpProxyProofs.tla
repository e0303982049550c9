--------------------------- MODULE HttpProxyProofs ---------------------------
(***************************************************************************)
(* Proofs about the request-level proxy, for every configuration, path,    *)
(* token and header size.                                                  *)
(***************************************************************************)
EXTENDS HttpProxy, TLAPS

\* A leaf is proved by Zenon, or by SMT where it says so: where it rests on
\* arithmetic or on what an update of a function leaves behind.
USE ZenonT(60), SMTT(30)

INSTANCE WellFoundedInduction

\* A set of natural numbers that is not empty has a least element.
LEMMA HasLeast ==
    ASSUME NEW T \in SUBSET Nat, T # {}
    PROVE  \E x \in T : \A y \in T : x <= y
<1> DEFINE R == OpToRel(<, Nat)
<1>1. \A x, y \in Nat : y < x => <<y, x>> \in R
  BY DEF OpToRel
<1>2. IsWellFoundedOn(R, Nat)
  BY NatLessThanWellFounded
<1> HIDE DEF R
<1>3. PICK x \in T : \A y \in T : ~(<<y, x>> \in R)
  BY <1>2, WFMin
<1>4. \A y \in T : ~(y < x)
  BY <1>1, <1>3
<1>5. \A y \in T : x \in Nat /\ y \in Nat
  OBVIOUS
<1>6. \A y \in T : x <= y
  BY <1>4, <1>5, SMTT(30)
<1> QED
  BY <1>6

\* Of finitely many indices one has the greatest value.
LEMMA HasGreatest ==
    ASSUME NEW n \in Nat, NEW f, \A i \in 1..n : f[i] \in Nat,
           NEW M \in SUBSET (1..n), M # {}
    PROVE  \E i \in M : \A j \in M : f[j] <= f[i]
<1> DEFINE Tops(X) == {i \in X : \A j \in X : f[j] <= f[i]}
           T == {k \in 0..n : \E X \in SUBSET (1..k) : X # {} /\ Tops(X) = {}}
<1> SUFFICES ASSUME Tops(M) = {} PROVE FALSE
  OBVIOUS
<1>1. n \in T /\ T \in SUBSET Nat
  BY SMTT(30)
<1>2. PICK k \in T : \A l \in T : k <= l
  BY <1>1, HasLeast
<1>3. PICK X \in SUBSET (1..k) : X # {} /\ Tops(X) = {}
  OBVIOUS
<1>4. k \in 1..n /\ (k - 1) \in 0..n
  BY <1>3, SMTT(30)
<1>5. k - 1 \notin T
  <2> HIDE DEF T
  <2> QED
    BY <1>2, <1>4, SMTT(30)
<1>6. X \ {k} \in SUBSET (1..(k - 1))
  BY <1>4, SMTT(30)
<1>7. X \ {k} = {} \/ Tops(X \ {k}) # {}
  BY <1>4, <1>5, <1>6
<1>8. \A i \in X : f[i] \in Nat
  BY <1>4, SMTT(30)
<1>9. CASE X \ {k} = {}
  <2>1. k \in Tops(X)
    BY <1>3, <1>8, <1>9, SMTT(30)
  <2> QED
    BY <1>3, <2>1
<1>10. ASSUME NEW m \in Tops(X \ {k}) PROVE FALSE
  <2>1. m \in X /\ \A j \in X \ {k} : f[j] <= f[m]
    BY <1>10
  <2> HIDE DEF T
  <2>2. CASE k \notin X
    BY <1>3, <2>1, <2>2
  <2>3. CASE k \in X /\ f[k] <= f[m]
    <3>1. \A j \in X : f[j] <= f[m]
      BY <2>1, <2>3
    <3> QED
      BY <1>3, <2>1, <3>1
  <2>4. CASE k \in X /\ ~(f[k] <= f[m])
    <3>1. \A j \in X : f[j] <= f[k]
      BY <1>8, <2>1, <2>4, SMTT(30)
    <3> QED
      BY <1>3, <2>4, <3>1
  <2> QED
    BY <2>2, <2>3, <2>4
<1> QED
  BY <1>7, <1>9, <1>10

\* So the minimum and the maximum of the library are what they say.
LEMMA MinIsLeast ==
    ASSUME NEW T \in SUBSET Nat, T # {}
    PROVE  Min(T) \in T /\ \A y \in T : Min(T) <= y
BY HasLeast DEF Min

\* Max picks the greatest of a set of positions.
LEMMA MaxIsGreatest ==
    ASSUME NEW n \in Nat, NEW M \in SUBSET (1..n), M # {}
    PROVE  Max(M) \in M /\ \A y \in M : y <= Max(M)
<1> DEFINE f == [i \in 1..n |-> i]
<1>1. \A i \in 1..n : f[i] \in Nat /\ f[i] = i
  BY SMTT(30)
<1>2. PICK i \in M : \A j \in M : f[j] <= f[i]
  <2> HIDE DEF f
  <2> QED
    BY <1>1, HasGreatest
<1>3. \A j \in M : i >= j
  BY <1>1, <1>2
<1>4. Max(M) \in M /\ \A y \in M : Max(M) >= y
  BY <1>3 DEF Max
<1> QED
  BY <1>4
-----------------------------------------------------------------------------
\* What trim_end_matches leaves is the beginning of the string, up to the last
\* character of another kind.
LEMMA Trimmed ==
    ASSUME NEW s \in Seq(Char), NEW c
    PROVE  \E k \in 0..Len(s) :
              /\ TrimEnd(s, c) = SubSeq(s, 1, k)
              /\ k # 0 => s[k] # c
              /\ \A i \in 1..Len(s) : s[i] # c => i <= k
<1> DEFINE kept == {i \in 1..Len(s) : s[i] # c}
<1>1. Len(s) \in Nat
  BY SMTT(30)
<1>2. CASE kept = {}
  <2>1. TrimEnd(s, c) = SubSeq(s, 1, 0) /\ \A i \in 1..Len(s) : s[i] = c
    BY <1>2 DEF TrimEnd
  <2>2. 0 \in 0..Len(s)
    BY <1>1, SMTT(30)
  <2> QED
    BY <2>1, <2>2
<1>3. CASE kept # {}
  <2>1. kept \in SUBSET (1..Len(s)) /\ \A i \in 1..Len(s) : s[i] # c <=> i \in kept
    OBVIOUS
  <2>2. TrimEnd(s, c) = SubSeq(s, 1, Max(kept))
    BY <1>3 DEF TrimEnd
  <2> HIDE DEF kept
  <2>3. Max(kept) \in kept /\ \A i \in kept : i <= Max(kept)
    BY <1>1, <1>3, <2>1, MaxIsGreatest
  <2>4. \A i \in 1..Len(s) : i \in 0..Len(s)
    BY <1>1, SMTT(30)
  <2> QED
    BY <2>1, <2>2, <2>3, <2>4
<1> QED
  BY <1>2, <1>3

\* Sequences with the same elements are the same.
LEMMA SameSequence ==
    ASSUME NEW s \in Seq(Char), NEW t \in Seq(Char), Len(s) = Len(t),
           \A i \in 1..Len(t) : s[i] = t[i]
    PROVE  s = t
BY SMTT(30)

\* A path splits into a prefix of it and what Drop leaves.
LEMMA SplitAtPrefix ==
    ASSUME NEW p \in Seq(Char), NEW path \in Seq(Char), HasPrefix(path, p)
    PROVE  Drop(path, Len(p)) \in Seq(Char) /\ p \o Drop(path, Len(p)) = path
<1>1. Len(p) <= Len(path)
  BY DEF HasPrefix
<1>2. p = SubSeq(path, 1, Len(p))
  BY DEF HasPrefix
<1>3. \A i \in 1..Len(p) : p[i] = path[i]
  BY <1>1, <1>2, SMTT(30)
<1> DEFINE rest == Drop(path, Len(p))
<1>4. /\ rest \in Seq(Char) /\ Len(rest) = Len(path) - Len(p)
      /\ \A i \in 1..Len(rest) : rest[i] = path[i + Len(p)]
  BY <1>1, SMTT(30) DEF Drop
<1> HIDE DEF rest
<1>5. p \o rest \in Seq(Char) /\ Len(p \o rest) = Len(path)
  BY <1>1, <1>4, SMTT(30)
<1>6. \A i \in 1..Len(path) : (p \o rest)[i] = path[i]
  <2>1. \A i \in 1..Len(p) : (p \o rest)[i] = p[i]
    BY <1>4, SMTT(30)
  <2>2. \A i \in 1..Len(rest) : (p \o rest)[i + Len(p)] = rest[i]
    BY <1>4, SMTT(30)
  <2>3. ASSUME NEW i \in 1..Len(path), ~(i <= Len(p)) PROVE (p \o rest)[i] = path[i]
    <3>1. (i - Len(p)) \in 1..Len(rest) /\ (i - Len(p)) + Len(p) = i
      BY <1>1, <1>4, <2>3, SMTT(30)
    <3> QED
      BY <1>4, <2>2, <3>1
  <2>4. ASSUME NEW i \in 1..Len(path), i <= Len(p) PROVE (p \o rest)[i] = path[i]
    <3>1. i \in 1..Len(p)
      BY <2>4, SMTT(30)
    <3> QED
      BY <1>3, <2>1, <3>1
  <2> QED
    BY <2>3, <2>4
<1>7. p \o rest = path
  BY <1>5, <1>6, SameSequence
<1> QED
  BY <1>4, <1>7 DEF rest

\* The empty string and the root are strings, and the root is a path.
LEMMA RootIsPath == <<>> \in Seq(Char) /\ Root \in Seq(Char) /\ Root \in Path
<1>1. <<>> \in Seq(Char)
  BY SMTT(30)
<1>2. Slash \in Char
  BY ProxyAssumption
<1>3. \A x \in Char : <<x>> \in Seq(Char) /\ <<x>> # <<>> /\ Head(<<x>>) = x
  BY SMTT(30)
<1> QED
  BY <1>1, <1>2, <1>3 DEF Path, StartsWith, Root

\* strip_uri_prefix gives a path, and the prefix followed by it is the path
\* that was asked for, up to a slash at its end.
LEMMA Stripped ==
    ASSUME NEW prefix \in Seq(Char), NEW path \in Path, Strippable(prefix, path)
    PROVE  /\ StripPrefix(prefix, path) \in Path
           /\ TrimEnd(prefix, Slash) \o StripPrefix(prefix, path) \in {path, path \o Root}
<1> DEFINE p == TrimEnd(prefix, Slash)
           rest == Drop(path, Len(p))
<1>1. p \in Seq(Char)
  <2>1. PICK k \in 0..Len(prefix) : p = SubSeq(prefix, 1, k)
    BY Trimmed
  <2> HIDE DEF p
  <2> QED
    BY <2>1, SMTT(30)
<1>2. path \in Seq(Char) /\ HasPrefix(path, p) /\ (path = p \/ StartsWith(rest, Slash))
  BY DEF Path, Strippable
<1>3. rest \in Seq(Char) /\ p \o rest = path
  <2> HIDE DEF p
  <2> QED
    BY <1>1, <1>2, SplitAtPrefix
<1>4. StripPrefix(prefix, path) = IF rest = <<>> THEN Root ELSE rest
  BY DEF StripPrefix
<1>5. Root \in Path
  BY RootIsPath
<1>6. path = p => rest = <<>>
  BY <1>1, SMTT(30) DEF Drop
<1> HIDE DEF p, rest
<1>7. CASE rest = <<>>
  <2>1. p = path
    BY <1>1, <1>3, <1>7, SMTT(30)
  <2> QED
    BY <1>4, <1>5, <1>7, <2>1 DEF p
<1>8. CASE rest # <<>>
  <2>1. rest \in Path
    BY <1>2, <1>3, <1>6, <1>8 DEF Path
  <2> QED
    BY <1>3, <1>4, <1>8, <2>1 DEF p
<1> QED
  BY <1>7, <1>8

\* The target of canonical_prefix_redirect is a path.
LEMMA RedirectIsPath ==
    ASSUME NEW rule, rule.prefix \in Path \cup {<<>>}, NEW path, RedirectsPrefix(rule, path)
    PROVE  RedirectTarget(rule) \in Path
<1> DEFINE prefix == rule.prefix
           p == TrimEnd(prefix, Slash)
<1>0. prefix \in Seq(Char)
  BY RootIsPath DEF Path
<1>1. PICK k \in 0..Len(prefix) : p = SubSeq(prefix, 1, k)
  BY <1>0, Trimmed
<1>2. p # <<>> /\ RedirectTarget(rule) = p \o Root
  BY DEF RedirectsPrefix, RedirectTarget
<1> HIDE DEF p, prefix
<1>3. k \in 1..Len(prefix) /\ p \in Seq(Char) /\ Len(p) = k /\ p[1] = prefix[1]
  BY <1>0, <1>1, <1>2, SMTT(30)
<1>4. prefix[1] = Slash
  <2>1. prefix # <<>>
    BY <1>0, <1>3, SMTT(30)
  <2> QED
    BY <1>0, <2>1, SMTT(30) DEF Path, StartsWith, prefix
<1>5. Root \in Seq(Char)
  BY RootIsPath
<1>6. p \o Root \in Seq(Char) /\ p \o Root # <<>> /\ (p \o Root)[1] = p[1]
  BY <1>3, <1>5, SMTT(30)
<1> QED
  BY <1>2, <1>3, <1>4, <1>6, SMTT(30) DEF Path, StartsWith

\* The trimmed string, by its length: it agrees with the string, does not end
\* in a slash, and only slashes follow it.
LEMMA TrimmedAt ==
    ASSUME NEW s \in Seq(Char)
    PROVE  LET t == TrimEnd(s, Slash)
           IN  /\ t \in Seq(Char) /\ Len(t) \in 0..Len(s)
               /\ \A i \in 1..Len(t) : t[i] = s[i]
               /\ Len(t) # 0 => s[Len(t)] # Slash
               /\ \A i \in 1..Len(s) : s[i] # Slash => i <= Len(t)
<1> DEFINE t == TrimEnd(s, Slash)
<1>1. PICK k \in 0..Len(s) :
          /\ t = SubSeq(s, 1, k)
          /\ k # 0 => s[k] # Slash
          /\ \A i \in 1..Len(s) : s[i] # Slash => i <= k
  BY Trimmed
<1> HIDE DEF t
<1>2. t \in Seq(Char) /\ Len(t) = k /\ \A i \in 1..k : t[i] = s[i]
  BY <1>1, SMTT(30)
<1> QED
  BY <1>1, <1>2 DEF t

\* strip_prefix compares the characters.
LEMMA PrefixByElements ==
    ASSUME NEW s \in Seq(Char), NEW p \in Seq(Char)
    PROVE  HasPrefix(s, p) <=> Len(p) <= Len(s) /\ \A i \in 1..Len(p) : p[i] = s[i]
<1>1. ASSUME Len(p) <= Len(s), SubSeq(s, 1, Len(p)) = p
      PROVE  \A i \in 1..Len(p) : p[i] = s[i]
  BY <1>1, SMTT(30)
<1>2. ASSUME Len(p) <= Len(s), \A i \in 1..Len(p) : p[i] = s[i]
      PROVE  SubSeq(s, 1, Len(p)) = p
  <2>1. /\ SubSeq(s, 1, Len(p)) \in Seq(Char) /\ Len(SubSeq(s, 1, Len(p))) = Len(p)
        /\ \A i \in 1..Len(p) : SubSeq(s, 1, Len(p))[i] = p[i]
    BY <1>2, SMTT(30)
  <2> QED
    BY <2>1, SameSequence
<1> QED
  BY <1>1, <1>2 DEF HasPrefix

\* What follows a beginning of a string starts with the next character.
LEMMA StartsAfter ==
    ASSUME NEW s \in Seq(Char), NEW n \in 0..Len(s)
    PROVE  StartsWith(Drop(s, n), Slash) <=> n # Len(s) /\ s[n + 1] = Slash
<1>1. CASE n = Len(s)
  <2>1. Drop(s, n) = <<>>
    BY <1>1, SMTT(30) DEF Drop
  <2> QED
    BY <1>1, <2>1 DEF StartsWith
<1>2. CASE n # Len(s)
  <2>1. n + 1 \in 1..Len(s) /\ Len(s) \in Nat
    BY <1>2, SMTT(30)
  <2>2. /\ Drop(s, n) \in Seq(Char) /\ Len(Drop(s, n)) = Len(s) - n
        /\ \A i \in 1..(Len(s) - n) : Drop(s, n)[i] = s[n + i]
    BY <2>1, SMTT(30) DEF Drop
  <2>3. 1 \in 1..(Len(s) - n) /\ Len(s) - n # 0
    BY <2>1, SMTT(30)
  <2>4. \A r \in Seq(Char) : Len(r) # 0 => r # <<>> /\ Head(r) = r[1]
    BY SMTT(30)
  <2> QED
    BY <1>2, <2>2, <2>3, <2>4 DEF StartsWith
<1> QED
  BY <1>1, <1>2

\* A prefix covers a path when it agrees with it up to its last segment and a
\* segment of the path ends there.
LEMMA CoversAt ==
    ASSUME NEW prefix \in Seq(Char), NEW path \in Seq(Char)
    PROVE  LET n == Len(TrimEnd(prefix, Slash))
           IN  Covers(prefix, path) <=>
                  /\ n <= Len(path) /\ \A i \in 1..n : prefix[i] = path[i]
                  /\ n = Len(path) \/ path[n + 1] = Slash
<1> DEFINE t == TrimEnd(prefix, Slash)
           n == Len(t)
<1>1. t \in Seq(Char) /\ n \in Nat /\ \A i \in 1..n : t[i] = prefix[i]
  BY TrimmedAt, SMTT(30)
<1>2. Covers(prefix, path) <=>
         \E m \in 0..Len(path) : (m = Len(path) \/ path[m + 1] = Slash) /\ t = SubSeq(path, 1, m)
  BY DEF Covers, Ancestors
<1> HIDE DEF t
<1>3. ASSUME NEW m \in 0..Len(path), m = Len(path) \/ path[m + 1] = Slash, t = SubSeq(path, 1, m)
      PROVE  /\ n <= Len(path) /\ \A i \in 1..n : prefix[i] = path[i]
             /\ n = Len(path) \/ path[n + 1] = Slash
  <2>1. n = m /\ m <= Len(path) /\ \A i \in 1..m : t[i] = path[i]
    BY <1>3, SMTT(30)
  <2> QED
    BY <1>1, <1>3, <2>1
<1>4. ASSUME n <= Len(path), \A i \in 1..n : prefix[i] = path[i]
      PROVE  n \in 0..Len(path) /\ t = SubSeq(path, 1, n)
  <2>1. \A i \in 1..n : t[i] = path[i]
    BY <1>1, <1>4
  <2>2. t = SubSeq(path, 1, n)
    BY <1>1, <1>4, <2>1, PrefixByElements DEF HasPrefix
  <2>3. n \in 0..Len(path)
    BY <1>1, <1>4, SMTT(30)
  <2> QED
    BY <2>2, <2>3
<1> QED
  BY <1>2, <1>3, <1>4 DEF t

\* matches_path_prefix accepts exactly the paths the prefix covers.
LEMMA MatchIsCover ==
    ASSUME NEW prefix \in Path, NEW path \in Path
    PROVE  MatchesPathPrefix(prefix, path) <=> Covers(prefix, path)
<1> DEFINE p == TrimEnd(prefix, Slash)
           n == Len(p)
<1>0. prefix \in Seq(Char) /\ path \in Seq(Char) /\ StartsWith(path, Slash)
  BY DEF Path
<1>1. p \in Seq(Char) /\ n \in Nat /\ \A i \in 1..n : p[i] = prefix[i]
  BY <1>0, TrimmedAt, SMTT(30)
<1>2. Covers(prefix, path) <=> /\ n <= Len(path) /\ \A i \in 1..n : p[i] = path[i]
                               /\ n = Len(path) \/ path[n + 1] = Slash
  BY <1>0, <1>1, CoversAt
<1>3. CASE prefix = Root
  <2>1. n = 0
    <3>1. n # 0 => prefix[n] # Slash
      BY <1>0, TrimmedAt
    <3>2. n \in 0..1 /\ prefix[1] = Slash
      BY <1>0, <1>3, TrimmedAt, SMTT(30) DEF Root
    <3>3. n = 0 \/ n = 1
      BY <3>2, SMTT(30)
    <3> QED
      BY <3>1, <3>2, <3>3
  <2>2. 0 <= Len(path) /\ path[0 + 1] = Slash
    BY <1>0, SMTT(30) DEF StartsWith
  <2>3. \A i \in 1..0 : p[i] = path[i]
    BY SMTT(30)
  <2> HIDE DEF n
  <2>4. Covers(prefix, path)
    BY <1>2, <2>1, <2>2, <2>3
  <2> QED
    BY <1>0, <1>3, <2>4 DEF MatchesPathPrefix
<1>4. CASE prefix # Root
  <2>1. MatchesPathPrefix(prefix, path) <=>
           path = p \/ (HasPrefix(path, p) /\ StartsWith(Drop(path, n), Slash))
    BY <1>4 DEF MatchesPathPrefix
  <2> HIDE DEF p
  <2>2. HasPrefix(path, p) <=> n <= Len(path) /\ \A i \in 1..n : p[i] = path[i]
    BY <1>0, <1>1, PrefixByElements
  <2>3. ASSUME n <= Len(path)
        PROVE  StartsWith(Drop(path, n), Slash) <=> n # Len(path) /\ path[n + 1] = Slash
    <3>1. n \in 0..Len(path)
      BY <1>0, <1>1, <2>3, SMTT(30)
    <3> QED
      BY <1>0, <3>1, StartsAfter
  <2>4. path = p <=> HasPrefix(path, p) /\ n = Len(path)
    <3>1. ASSUME n = Len(path), \A i \in 1..n : p[i] = path[i] PROVE path = p
      BY <1>0, <1>1, <3>1, SameSequence
    <3>2. path = p => n <= Len(path)
      BY <1>1, SMTT(30)
    <3> QED
      BY <2>2, <3>1, <3>2
  <2> QED
    BY <1>2, <2>1, <2>2, <2>3, <2>4
<1> QED
  BY <1>3, <1>4

\* Of two prefixes that cover a path the longer lies below the shorter, if it
\* does not end in several slashes.
LEMMA CoversChain ==
    ASSUME NEW p \in Seq(Char), NEW q \in Seq(Char), NEW path \in Seq(Char),
           Covers(p, path), Covers(q, path), Len(p) <= Len(q), ~Doubled(q)
    PROVE  Covers(p, q)
<1> DEFINE a == Len(TrimEnd(p, Slash))
           b == Len(TrimEnd(q, Slash))
<1>1. /\ a \in Nat /\ b \in Nat /\ Len(p) \in Nat /\ Len(q) \in Nat /\ Len(path) \in Nat
      /\ a <= Len(p) /\ b <= Len(q)
  BY TrimmedAt, SMTT(30)
<1>2. /\ a # 0 => p[a] # Slash
      /\ \A i \in 1..Len(q) : q[i] # Slash => i <= b
  BY TrimmedAt
<1>3. /\ a <= Len(path) /\ \A i \in 1..a : p[i] = path[i]
      /\ a = Len(path) \/ path[a + 1] = Slash
  BY CoversAt
<1>4. /\ b <= Len(path) /\ \A i \in 1..b : q[i] = path[i]
      /\ b = Len(path) \/ path[b + 1] = Slash
  BY CoversAt
<1>5. Len(q) <= b + 1
  BY <1>1, SMTT(30) DEF Doubled
<1>6. Covers(p, q) <=> /\ a <= Len(q) /\ \A i \in 1..a : p[i] = q[i]
                       /\ a = Len(q) \/ q[a + 1] = Slash
  BY CoversAt
<1> HIDE DEF a, b
<1>7. a <= b
  <2> SUFFICES ASSUME ~(a <= b) PROVE FALSE
    OBVIOUS
  <2>1. a = b + 1 /\ a # 0 /\ a \in 1..a /\ b # Len(path)
    BY <1>1, <1>3, <1>5, SMTT(30)
  <2>2. path[a] = Slash
    BY <1>4, <2>1
  <2> QED
    BY <1>2, <1>3, <2>1, <2>2
<1>8. a <= Len(q) /\ \A i \in 1..a : p[i] = q[i]
  <2>1. a <= Len(q) /\ \A i \in 1..a : i \in 1..b
    BY <1>1, <1>7, SMTT(30)
  <2> QED
    BY <1>3, <1>4, <2>1
<1>9. CASE a = b
  <2>1. a # Len(q) => a + 1 \in 1..Len(q) /\ ~(a + 1 <= b)
    BY <1>1, <1>9, SMTT(30)
  <2> QED
    BY <1>2, <1>6, <1>8, <2>1
<1>10. CASE a # b
  <2>1. a + 1 \in 1..b /\ a # Len(path)
    BY <1>1, <1>4, <1>7, <1>10, SMTT(30)
  <2> QED
    BY <1>3, <1>4, <1>6, <1>8, <2>1
<1> QED
  BY <1>9, <1>10

\* A slash at the end of a path changes nothing about the prefixes that cover
\* it: matches_path_prefix compares a prefix without the slashes at its end.
LEMMA SlashIrrelevant ==
    ASSUME NEW prefix \in Seq(Char), NEW path \in Seq(Char)
    PROVE  Covers(prefix, path \o Root) <=> Covers(prefix, path)
<1> DEFINE n == Len(TrimEnd(prefix, Slash))
           longer == path \o Root
<1>1. longer \in Seq(Char) /\ Len(longer) = Len(path) + 1 /\ Len(path) \in Nat
  BY RootIsPath, SMTT(30) DEF Root
<1>2. longer[Len(path) + 1] = Slash /\ \A i \in 1..Len(path) : longer[i] = path[i]
  BY SMTT(30) DEF Root
<1>3. n \in Nat /\ (n # 0 => prefix[n] # Slash)
  BY TrimmedAt, SMTT(30)
<1> SUFFICES Covers(prefix, longer) <=> Covers(prefix, path)
  OBVIOUS
<1> HIDE DEF longer
<1>4. Covers(prefix, path) <=> /\ n <= Len(path) /\ \A i \in 1..n : prefix[i] = path[i]
                               /\ n = Len(path) \/ path[n + 1] = Slash
  BY CoversAt
<1>5. Covers(prefix, longer) <=> /\ n <= Len(longer) /\ \A i \in 1..n : prefix[i] = longer[i]
                                 /\ n = Len(longer) \/ longer[n + 1] = Slash
  BY <1>1, CoversAt
<1> HIDE DEF n
<1>6. CASE n <= Len(path)
  <2>1. (\A i \in 1..n : prefix[i] = path[i]) <=> \A i \in 1..n : prefix[i] = longer[i]
    <3>1. \A i \in 1..n : i \in 1..Len(path)
      BY <1>1, <1>3, <1>6, SMTT(30)
    <3> QED
      BY <1>2, <3>1
  <2>2. n <= Len(longer) /\ n # Len(longer)
    BY <1>1, <1>3, <1>6, SMTT(30)
  <2>3. n = Len(path) => longer[n + 1] = Slash
    BY <1>2
  <2>4. n # Len(path) => longer[n + 1] = path[n + 1]
    <3>1. n # Len(path) => n + 1 \in 1..Len(path)
      BY <1>1, <1>3, <1>6, SMTT(30)
    <3> QED
      BY <1>2, <3>1
  <2> QED
    BY <1>4, <1>5, <1>6, <2>1, <2>2, <2>3, <2>4
<1>7. CASE ~(n <= Len(path))
  <2>1. SUFFICES ASSUME Covers(prefix, longer) PROVE FALSE
    BY <1>4, <1>7
  <2>2. n = Len(path) + 1 /\ n \in 1..n
    BY <1>1, <1>3, <1>5, <1>7, <2>1, SMTT(30)
  <2>3. prefix[n] = Slash
    BY <1>2, <1>5, <2>1, <2>2
  <2> QED
    BY <1>1, <1>3, <2>2, <2>3, SMTT(30)
<1> QED
  BY <1>6, <1>7

\* A prefix that covers a path can be taken off it (strip_uri_prefix).
LEMMA CoveredStrips ==
    ASSUME NEW prefix \in Seq(Char), NEW path \in Seq(Char), Covers(prefix, path)
    PROVE  Strippable(prefix, path)
<1> DEFINE p == TrimEnd(prefix, Slash)
           n == Len(p)
<1>1. p \in Seq(Char) /\ n \in Nat /\ \A i \in 1..n : p[i] = prefix[i]
  BY TrimmedAt, SMTT(30)
<1>2. /\ n <= Len(path) /\ \A i \in 1..n : p[i] = path[i]
      /\ n = Len(path) \/ path[n + 1] = Slash
  BY <1>1, CoversAt
<1>3. HasPrefix(path, p)
  BY <1>1, <1>2, PrefixByElements
<1>4. n = Len(path) => path = p
  BY <1>1, <1>2, SameSequence
<1>5. n # Len(path) => StartsWith(Drop(path, n), Slash)
  <2>1. n \in 0..Len(path)
    BY <1>1, <1>2, SMTT(30)
  <2> QED
    BY <1>2, <2>1, StartsAfter
<1> QED
  BY <1>3, <1>4, <1>5 DEF Strippable

\* A matched prefix can be taken off the path, so prepare_request never turns
\* a routed request into an error for its path.  The canonical redirect leads
\* to a path of the same rule that is not redirected again.
THEOREM StripFollowsRouting ==
    ASSUME NEW prefix \in Path, NEW path \in Path, MatchesPathPrefix(prefix, path),
           NEW rule, rule.prefix = prefix
    PROVE  /\ Strippable(prefix, path)
           /\ RedirectsPrefix(rule, path) =>
                 /\ MatchesPathPrefix(prefix, RedirectTarget(rule))
                 /\ ~RedirectsPrefix(rule, RedirectTarget(rule))
<1> DEFINE p == TrimEnd(prefix, Slash)
           n == Len(p)
<1>0. prefix \in Seq(Char) /\ path \in Seq(Char)
  BY DEF Path
<1>1. p \in Seq(Char) /\ n \in Nat /\ \A i \in 1..n : p[i] = prefix[i]
  BY <1>0, TrimmedAt, SMTT(30)
<1>3. Strippable(prefix, path)
  BY <1>0, MatchIsCover, CoveredStrips
<1>4. ASSUME RedirectsPrefix(rule, path)
      PROVE  /\ MatchesPathPrefix(prefix, RedirectTarget(rule))
             /\ ~RedirectsPrefix(rule, RedirectTarget(rule))
  <2> DEFINE target == RedirectTarget(rule)
  <2>1. target = p \o Root /\ target \in Path
    BY <1>4, RedirectIsPath DEF RedirectTarget
  <2>2. target # p
    BY <1>1, <2>1, SMTT(30) DEF Root
  <2>3. ~RedirectsPrefix(rule, target)
    BY <2>2 DEF RedirectsPrefix
  <2> HIDE DEF p
  <2>4. /\ n <= Len(p \o Root) /\ n # Len(p \o Root) /\ (p \o Root)[n + 1] = Slash
        /\ \A i \in 1..n : p[i] = (p \o Root)[i]
    BY <1>1, SMTT(30) DEF Root
  <2>5. target \in Seq(Char)
    BY <2>1 DEF Path
  <2>6. Covers(prefix, target)
    <3>1. /\ n <= Len(target) /\ target[n + 1] = Slash
          /\ \A i \in 1..n : prefix[i] = target[i]
      BY <1>1, <2>1, <2>4
    <3> QED
      BY <1>0, <2>5, <3>1, CoversAt DEF p
  <2> QED
    BY <2>1, <2>3, <2>6, MatchIsCover
<1> QED
  BY <1>3, <1>4

\* The rules whose prefix matches a path.
Matching(rules, path) ==
    {i \in DOMAIN rules : rules[i].prefix # <<>> /\ MatchesPathPrefix(rules[i].prefix, path)}

\* Rule k of a list has the longest matching prefix, or there is none and k
\* has no prefix.
BestFor(rules, path, k) ==
    /\ k \in DOMAIN rules
    /\ IF Matching(rules, path) = {} THEN rules[k].prefix = <<>>
       ELSE /\ k \in Matching(rules, path)
            /\ \A i \in Matching(rules, path) : Len(rules[i].prefix) <= Len(rules[k].prefix)

\* select_runtime_for_path finds such a rule, or nothing.
LEMMA SelectsBest ==
    ASSUME NEW rules \in Seq(RuleRecord), NEW path
    PROVE  SelectForPath(rules, path) = 0 \/ BestFor(rules, path, SelectForPath(rules, path))
<1> DEFINE M == Matching(rules, path)
           longest == {i \in M : \A j \in M : Specificity(rules, j) <= Specificity(rules, i)}
           fallbacks == {i \in DOMAIN rules : rules[i].prefix = <<>>}
           k == SelectForPath(rules, path)
<1>1. k = IF M # {} THEN Max(longest) ELSE IF fallbacks # {} THEN Min(fallbacks) ELSE 0
  BY DEF SelectForPath, Matching
<1>2. DOMAIN rules = 1..Len(rules) /\ Len(rules) \in Nat
  BY SMTT(30)
<1>3. \A i \in DOMAIN rules : Specificity(rules, i) \in Nat
  <2>1. \A i \in DOMAIN rules : rules[i] \in RuleRecord
    BY SMTT(30)
  <2>2. \A i \in DOMAIN rules : rules[i].prefix \in Seq(Char)
    BY <2>1, RootIsPath DEF RuleRecord, Path
  <2> QED
    BY <2>2, SMTT(30) DEF Specificity
<1> HIDE DEF k
<1>4. CASE M # {}
  <2>1. M \in SUBSET (1..Len(rules))
    BY <1>2 DEF Matching
  <2> HIDE DEF M
  <2>2. longest # {}
    <3> DEFINE f == [i \in 1..Len(rules) |-> Specificity(rules, i)]
    <3>1. \A i \in 1..Len(rules) : f[i] \in Nat /\ f[i] = Specificity(rules, i)
      BY <1>2, <1>3
    <3>2. PICK i \in M : \A j \in M : f[j] <= f[i]
      <4> HIDE DEF f
      <4> QED
        BY <1>2, <1>4, <2>1, <3>1, HasGreatest
    <3> QED
      BY <2>1, <3>1, <3>2
  <2>3. longest \in SUBSET (1..Len(rules))
    BY <2>1
  <2>4. k \in longest
    <3> HIDE DEF longest
    <3> QED
      BY <1>1, <1>2, <1>4, <2>2, <2>3, MaxIsGreatest
  <2>5. k \in M /\ \A j \in M : Specificity(rules, j) <= Specificity(rules, k)
    BY <2>4
  <2> QED
    BY <1>2, <1>4, <2>1, <2>5 DEF BestFor, M, Specificity, k
<1>5. CASE M = {} /\ fallbacks # {}
  <2>1. fallbacks \in SUBSET Nat
    BY <1>2, SMTT(30)
  <2>2. k \in fallbacks
    <3> HIDE DEF fallbacks
    <3> QED
      BY <1>1, <1>5, <2>1, MinIsLeast
  <2> QED
    BY <1>5, <2>2 DEF BestFor, k
<1> QED
  BY <1>1, <1>4, <1>5 DEF k

\* Canonical redirects do not go round in circles: where a rule redirects a
\* path, the same rule is selected for the target and does not redirect it,
\* whatever the other rules (canonical_prefix_redirect, select_runtime_for_path).
THEOREM RedirectSettles ==
    ASSUME NEW rules \in Seq(RuleRecord), NEW path \in Path, NEW k \in DOMAIN rules,
           k = SelectForPath(rules, path), RedirectsPrefix(rules[k], path)
    PROVE  LET target == RedirectTarget(rules[k])
           IN  /\ SelectForPath(rules, target) = k
               /\ ~RedirectsPrefix(rules[k], target)
<1> DEFINE target == RedirectTarget(rules[k])
<1>1. \A i \in DOMAIN rules : rules[i].prefix \in Path \cup {<<>>}
  <2>1. \A i \in DOMAIN rules : rules[i] \in RuleRecord
    BY SMTT(30)
  <2> QED
    BY <2>1 DEF RuleRecord
<1>2. target = path \o Root /\ target \in Path /\ path \in Seq(Char)
  BY <1>1, RedirectIsPath DEF RedirectsPrefix, RedirectTarget, Path
<1>3. ASSUME NEW q \in Path
      PROVE  MatchesPathPrefix(q, target) <=> MatchesPathPrefix(q, path)
  <2>1. q \in Seq(Char)
    BY DEF Path
  <2>2. Covers(q, target) <=> Covers(q, path)
    BY <1>2, <2>1, SlashIrrelevant
  <2> QED
    BY <1>2, <2>2, MatchIsCover
<1>4. Matching(rules, target) = Matching(rules, path)
  BY <1>1, <1>3 DEF Matching
<1> DEFINE best(m) == LET longest == {i \in m : \A j \in m : Specificity(rules, j) <= Specificity(rules, i)}
                          fallbacks == {i \in DOMAIN rules : rules[i].prefix = <<>>}
                      IN  IF m # {} THEN Max(longest)
                          ELSE IF fallbacks # {} THEN Min(fallbacks) ELSE 0
<1>5. \A x : SelectForPath(rules, x) = best(Matching(rules, x))
  BY DEF SelectForPath, Matching
<1>6. SelectForPath(rules, target) = k
  <2> HIDE DEF best
  <2> QED
    BY <1>4, <1>5
<1>7. target # path
  BY <1>2, SMTT(30) DEF Root
<1> QED
  BY <1>6, <1>7 DEF RedirectsPrefix
-----------------------------------------------------------------------------
(***************************************************************************)
(* The inductive invariant: the types, with a configuration that was       *)
(* loaded, and the header limit of the connection on the request at hand.  *)
(***************************************************************************)
Busy == phase \in {"deciding", "connecting", "sent"}

ProxyInv ==
    /\ conf \in Configs
    /\ ProxyTypeOK
    /\ Busy => req.size <= RequestLimit

Asked == Path \cup {<<>>}
Cookies == [flow : Path \cup {<<>>}, session : BOOLEAN]

\* What is known of the rules and policies of a loaded configuration.
LEMMA RulesTyped ==
    ASSUME conf \in Configs
    PROVE  /\ Rules \in Seq(RuleRecord) /\ Policies \subseteq DOMAIN Rules
           /\ \A i \in DOMAIN Rules : Rules[i] \in RuleRecord /\ i \in Nat \ {0}
           /\ \A i \in Policies : Rules[i].policy \in PolicyRecord /\ Rules[i].policy.reg \in Regs
<1>1. Rules \in Seq(RuleRecord)
  BY ProxyAssumption DEF ConfigRecord, Rules
<1>2. \A i \in DOMAIN Rules : Rules[i] \in RuleRecord /\ i \in Nat \ {0}
  BY <1>1, SMTT(30)
<1>3. \A i \in DOMAIN Rules : Rules[i].policy \in PolicyRecord \cup {NoPolicy}
  BY <1>2 DEF RuleRecord
<1>4. Policies \subseteq DOMAIN Rules /\ \A i \in Policies : Rules[i].policy # NoPolicy
  BY DEF Policies
<1>5. \A i \in Policies : Rules[i].policy.reg \in Regs
  BY DEF Regs
<1> QED
  BY <1>1, <1>2, <1>3, <1>4, <1>5

\* The configuration of a session never changes, nor what is computed of it.
LEMMA ConfigFixed ==
    ASSUME conf' = conf
    PROVE  Rules' = Rules /\ Policies' = Policies /\ Regs' = Regs /\ RequestLimit' = RequestLimit
<1>1. Rules' = Rules
  BY DEF Rules
<1>2. Policies' = Policies
  BY <1>1 DEF Policies
<1>3. Regs' = Regs
  BY <1>1, <1>2 DEF Regs
<1>4. RequestLimit' = RequestLimit
  BY <1>1, <1>2 DEF RequestLimit
<1> QED
  BY <1>1, <1>2, <1>3, <1>4

\* The limit of a connection is at most that of each of its policies.
LEMMA LimitIsLeast ==
    ASSUME conf \in Configs
    PROVE  RequestLimit \in Nat /\ \A i \in Policies : RequestLimit <= Rules[i].policy.max
<1> DEFINE S == {DefaultMax} \cup {Rules[j].policy.max : j \in Policies}
<1>1. S \in SUBSET Nat /\ S # {} /\ \A i \in Policies : Rules[i].policy.max \in S
  BY RulesTyped, ProxyAssumption DEF PolicyRecord
<1>2. RequestLimit = Min(S)
  BY DEF RequestLimit
<1> HIDE DEF S
<1>3. Min(S) \in S /\ \A y \in S : Min(S) <= y
  BY <1>1, MinIsLeast
<1> QED
  BY <1>1, <1>2, <1>3

\* serve: a request that is taken has its type and is within the limit.
LEMMA ReceiveTyped ==
    ASSUME conf \in Configs, NEW r \in RequestRecord, Receive(r), conf' = conf
    PROVE  /\ phase' \in {"closed", "deciding"} /\ seen' = NoRequest
           /\ req' \in RequestRecord \cup {NoRequest} /\ answer' \in {"431", "none"}
           /\ phase' = "deciding" => req' # NoRequest /\ req'.size <= RequestLimit'
<1>1. r # NoRequest
  BY ProxyAssumption
<1>2. r.size \in Nat
  BY ProxyAssumption DEF RequestRecord
<1>3. RequestLimit' = RequestLimit
  BY ConfigFixed
<1>4. CASE r.size > RequestLimit
  BY <1>4 DEF Receive
<1>5. CASE ~(r.size > RequestLimit)
  <2>1. r.size <= RequestLimit
    BY <1>2, <1>5, LimitIsLeast, SMTT(30)
  <2> QED
    BY <1>1, <1>3, <1>5, <2>1 DEF Receive
<1> QED
  BY <1>4, <1>5

\* local_response: what an answer leaves behind.
LEMMA RespondTyped ==
    ASSUME ProxyInv, NEW what \in Answers, NEW where \in Asked, Respond(what, where),
           jar' \in [Regs -> Cookies], trip' \in Policies \cup {0}
    PROVE  ProxyInv'
<1>1. conf' = conf /\ phase' = "serving" /\ req' = NoRequest /\ answer' \in Answers /\ seen' = seen
  BY DEF Respond
<1>2. next' \in Asked /\ want' \in Asked
  BY DEF Respond, Asked, ProxyInv, ProxyTypeOK
<1>3. Regs' = Regs /\ Policies' = Policies
  BY <1>1, ConfigFixed
<1> QED
  BY <1>1, <1>2, <1>3 DEF ProxyInv, ProxyTypeOK, Busy, Asked, Cookies

\* Steps of the connection itself: the peek, TLS, the relay and its end.
LEMMA ConnectionKeeps ==
    ASSUME ProxyInv, Connection \/ Ends \/ BackendConnects
    PROVE  ProxyInv'
<1> DEFINE Kept ==
             /\ UNCHANGED <<conf, jar, want, next, trip, answer>>
             /\ phase' \in {"fresh", "serving", "terminated", "relay", "closed", "sent"}
             /\ \/ UNCHANGED <<req, seen>> /\ (phase' = "sent" => phase = "connecting")
                \/ req' = NoRequest /\ seen' = NoRequest /\ phase' = "closed"
<1>1. Kept
  <2>1. CASE Open
    BY <2>1 DEF Open
  <2>2. ASSUME NEW where \in {"serving", "terminated", "relay", "closed"}, Become(where)
        PROVE  Kept
    BY <2>2 DEF Become
  <2>3. CASE Ends
    BY <2>3 DEF Ends
  <2>4. CASE BackendConnects
    BY <2>4 DEF BackendConnects, Become
  <2>5. ASSUME Connection
        PROVE  Open \/ Become("serving") \/ Become("terminated") \/ Become("relay") \/ Become("closed")
    BY <2>5 DEF Connection, BridgeServes, BridgeHandsOn, BridgeRelays,
       BridgeRejects, AcceptFails, TlsServes, TlsRelays, TlsRejects
  <2> HIDE DEF Kept
  <2> QED
    BY <2>1, <2>2, <2>3, <2>4, <2>5
<1>2. Regs' = Regs /\ Policies' = Policies /\ RequestLimit' = RequestLimit
  BY <1>1, ConfigFixed
<1> QED
  BY <1>1, <1>2 DEF ProxyInv, ProxyTypeOK, Busy

\* Requests that arrive, from a caller or from the browser.
LEMMA RequestKeeps ==
    ASSUME ProxyInv, Call \/ Follow
    PROVE  ProxyInv'
<1>1. PICK r \in RequestRecord : Receive(r)
  <2>1. CASE Call
    <3>1. PICK p \in Paths, t \in Tokens, o \in BOOLEAN, h \in BOOLEAN, s \in Sizes :
            Receive([path |-> p, token |-> t, own |-> o, host |-> h, upgrade |-> FALSE,
                     size |-> s, state |-> NoReg])
      BY <2>1 DEF Call
    <3>2. [path |-> p, token |-> t, own |-> o, host |-> h, upgrade |-> FALSE,
           size |-> s, state |-> NoReg] \in RequestRecord
      BY ProxyAssumption DEF RequestRecord
    <3> QED
      BY <3>1, <3>2
  <2>2. CASE Follow
    <3> DEFINE g == IF trip = 0 THEN NoReg ELSE Rules[trip].policy.reg
    <3>1. PICK u \in BOOLEAN, o \in BOOLEAN :
            Receive([path |-> next, token |-> NoToken, own |-> o, host |-> TRUE, upgrade |-> u,
                     size |-> Min(Sizes), state |-> g])
      BY <2>2 DEF Follow
    <3>2. next \in Path
      BY <2>2 DEF Follow, ProxyInv, ProxyTypeOK
    <3>3. Min(Sizes) \in Sizes
      BY ProxyAssumption, MinIsLeast
    <3>4. g \in Registration \cup {NoReg}
      BY RulesTyped DEF ProxyInv, ProxyTypeOK, PolicyRecord
    <3> HIDE DEF g
    <3>5. [path |-> next, token |-> NoToken, own |-> o, host |-> TRUE, upgrade |-> u,
           size |-> Min(Sizes), state |-> g] \in RequestRecord
      BY <3>2, <3>3, <3>4 DEF RequestRecord
    <3> QED
      BY <3>1, <3>5
  <2> QED
    BY <2>1, <2>2
<1>2. /\ conf' = conf /\ jar' = jar /\ want' = want
      /\ next' \in {next, <<>>} /\ trip' \in {trip, 0}
  BY DEF Call, Follow
<1>3. Regs' = Regs /\ Policies' = Policies
  BY <1>2, ConfigFixed
<1>4. /\ phase' \in {"closed", "deciding"} /\ seen' = NoRequest
      /\ req' \in RequestRecord \cup {NoRequest} /\ answer' \in {"431", "none"}
      /\ phase' = "deciding" => req' # NoRequest /\ req'.size <= RequestLimit'
  BY <1>1, <1>2, ReceiveTyped DEF ProxyInv
<1> QED
  BY <1>2, <1>3, <1>4 DEF ProxyInv, ProxyTypeOK, Busy, Answers

\* The user and the identity provider.
LEMMA UserKeeps ==
    ASSUME ProxyInv, \/ ProviderReturns
                     \/ \E p \in Paths : Visit(p)
                     \/ \E g \in Regs : SessionExpires(g)
    PROVE  ProxyInv'
<1>1. CASE ProviderReturns
  <2>1. trip \in Policies /\ next' = Rules[trip].policy.callback
    BY <1>1 DEF ProviderReturns, ProxyInv, ProxyTypeOK
  <2>2. next' \in Path
    BY <2>1, RulesTyped DEF ProxyInv, PolicyRecord
  <2>3. UNCHANGED <<conf, phase, req, jar, want, trip, seen, answer>>
    BY <1>1 DEF ProviderReturns
  <2>4. Regs' = Regs /\ Policies' = Policies /\ RequestLimit' = RequestLimit
    BY <2>3, ConfigFixed
  <2> QED
    BY <2>2, <2>3, <2>4 DEF ProxyInv, ProxyTypeOK, Busy
<1>2. ASSUME NEW p \in Paths, Visit(p) PROVE ProxyInv'
  <2>1. /\ UNCHANGED <<conf, phase, req, jar, trip, seen>>
        /\ answer' = "none" /\ want' = p /\ next' = p
    BY <1>2 DEF Visit
  <2>2. p \in Path
    BY ProxyAssumption
  <2>3. Regs' = Regs /\ Policies' = Policies /\ RequestLimit' = RequestLimit
    BY <2>1, ConfigFixed
  <2> QED
    BY <2>1, <2>2, <2>3 DEF ProxyInv, ProxyTypeOK, Busy, Answers
<1>3. ASSUME NEW g \in Regs, SessionExpires(g) PROVE ProxyInv'
  <2>1. /\ UNCHANGED <<conf, phase, req, want, next, trip, seen, answer>>
        /\ jar' = [jar EXCEPT ![g].session = FALSE]
    BY <1>3 DEF SessionExpires
  <2>2. jar \in [Regs -> Cookies]
    BY DEF ProxyInv, ProxyTypeOK, Cookies
  <2>3. jar' \in [Regs -> Cookies]
    BY <2>1, <2>2 DEF Cookies
  <2>4. Regs' = Regs /\ Policies' = Policies /\ RequestLimit' = RequestLimit
    BY <2>1, ConfigFixed
  <2> QED
    BY <2>1, <2>3, <2>4 DEF ProxyInv, ProxyTypeOK, Busy, Cookies
<1> QED
  BY <1>1, <1>2, <1>3

\* What the client answers itself.
LEMMA AnswerKeeps ==
    ASSUME ProxyInv, \/ HandleDenied \/ HandleRedirect \/ HandleFails
                     \/ BackendUnavailable \/ BackendTimesOut \/ BackendAnswers
    PROVE  ProxyInv'
<1>1. PICK what \in Answers, where \in Asked : Respond(what, where) /\ jar' = jar /\ trip' = trip
  <2>0. {"401", "403", "308", "502", "504", "page"} \subseteq Answers /\ <<>> \in Asked
    BY DEF Answers, Asked
  <2>1. CASE HandleDenied
    BY <2>0, <2>1 DEF HandleDenied
  <2>2. CASE HandleRedirect
    <3>1. /\ RedirectsPrefix(Rules[Selected], req.path)
          /\ Respond("308", RedirectTarget(Rules[Selected])) /\ jar' = jar /\ trip' = trip
          /\ Selected # 0
      BY <2>2 DEF HandleRedirect, Allowed
    <3>2. Selected \in DOMAIN Rules
      BY <3>1, RulesTyped, SelectsBest DEF ProxyInv, Selected, BestFor
    <3>3. RedirectTarget(Rules[Selected]) \in Path
      BY <3>1, <3>2, RulesTyped, RedirectIsPath DEF ProxyInv, RuleRecord
    <3> QED
      BY <2>0, <3>1, <3>3 DEF Asked
  <2>3. CASE HandleFails
    BY <2>0, <2>3 DEF HandleFails
  <2>4. CASE BackendUnavailable \/ BackendTimesOut \/ BackendAnswers
    BY <2>0, <2>4 DEF BackendUnavailable, BackendTimesOut, BackendAnswers, Conclude
  <2> QED
    BY <2>1, <2>2, <2>3, <2>4
<1>2. jar' \in [Regs -> Cookies] /\ trip' \in Policies \cup {0}
  BY <1>1 DEF ProxyInv, ProxyTypeOK, Cookies
<1> QED
  BY <1>1, <1>2, RespondTyped

\* The endpoints of an OIDC policy, and the start of a login.
LEMMA SignInKeeps ==
    ASSUME ProxyInv, HandleCallback \/ HandleLogout \/ HandleLogin
    PROVE  ProxyInv'
<1>1. jar \in [Regs -> Cookies] /\ trip \in Policies \cup {0} /\ conf \in Configs
  BY DEF ProxyInv, ProxyTypeOK, Cookies
<1>2. Endpoints # {} => Min(Endpoints) \in Policies
  <2>1. Endpoints \in SUBSET Policies
    BY DEF Endpoints
  <2>2. Endpoints \in SUBSET Nat
    BY <1>1, <2>1, RulesTyped
  <2>3. Endpoints # {} => Min(Endpoints) \in Endpoints
    BY <2>2, MinIsLeast
  <2> QED
    BY <2>1, <2>3
<1>3. CASE HandleCallback
  <2> DEFINE policy == Rules[Min(Endpoints)].policy
             g == policy.reg
  <2>1. g \in Regs
    BY <1>1, <1>2, <1>3, RulesTyped DEF HandleCallback
  <2>2. \/ /\ jar' = [jar EXCEPT ![g] = [flow |-> <<>>, session |-> TRUE]]
           /\ Respond("303", jar[g].flow) /\ trip' = trip
        \/ /\ \E what \in {"unverified", "401", "405"} : Respond(what, <<>>)
           /\ jar' = jar /\ trip' = trip
    BY <1>3 DEF HandleCallback
  <2> HIDE DEF g
  <2>3. CASE /\ jar' = [jar EXCEPT ![g] = [flow |-> <<>>, session |-> TRUE]]
             /\ Respond("303", jar[g].flow) /\ trip' = trip
    <3>2. [flow |-> <<>>, session |-> TRUE] \in Cookies /\ jar[g] \in Cookies
      BY <1>1, <2>1 DEF Cookies
    <3>3. jar' \in [Regs -> Cookies] /\ jar[g].flow \in Asked
      BY <1>1, <2>3, <3>2 DEF Cookies, Asked
    <3>4. "303" \in Answers
      BY DEF Answers
    <3> QED
      BY <1>1, <2>3, <3>3, <3>4, RespondTyped
  <2>4. CASE /\ \E what \in {"unverified", "401", "405"} : Respond(what, <<>>)
             /\ jar' = jar /\ trip' = trip
    <3>1. {"unverified", "401", "405"} \subseteq Answers /\ <<>> \in Asked
      BY DEF Answers, Asked
    <3> QED
      BY <1>1, <2>4, <3>1, RespondTyped
  <2> QED
    BY <2>2, <2>3, <2>4
<1>4. CASE HandleLogout
  <2> DEFINE g == Rules[Min(Endpoints)].policy.reg
  <2>1. g \in Regs
    BY <1>1, <1>2, <1>4, RulesTyped DEF HandleLogout
  <2>2. /\ jar' \in {jar, [jar EXCEPT ![g] = NoCookies]} /\ trip' = trip
        /\ Respond("303", Root) \/ Respond("405", <<>>)
    BY <1>4 DEF HandleLogout
  <2> HIDE DEF g
  <2>3. /\ NoCookies \in Cookies /\ {"303", "405"} \subseteq Answers
        /\ Root \in Asked /\ <<>> \in Asked
    BY RootIsPath DEF NoCookies, Cookies, Answers, Asked
  <2>4. jar' \in [Regs -> Cookies]
    BY <1>1, <2>2, <2>3
  <2> QED
    BY <1>1, <2>2, <2>3, <2>4, RespondTyped
<1>5. CASE HandleLogin
  <2> DEFINE g == Rules[Selected].policy.reg
  <2>1. /\ phase = "deciding" /\ Selected # 0 /\ Authorize(Rules[Selected].policy) = "login"
        /\ \/ /\ jar' = [jar EXCEPT ![g].flow = SafeReturnTo(req.path)]
              /\ trip' = Selected /\ Respond("login", <<>>)
           \/ UNCHANGED <<jar, trip>> /\ Respond("500", <<>>)
    BY <1>5 DEF HandleLogin
  <2>2. Selected \in Policies
    <3>1. Selected \in DOMAIN Rules
      BY <1>1, <2>1, RulesTyped, SelectsBest DEF Selected, BestFor
    <3>2. Rules[Selected].policy # NoPolicy
      BY <2>1 DEF Authorize
    <3> QED
      BY <3>1, <3>2 DEF Policies
  <2>3. g \in Regs
    BY <1>1, <2>2, RulesTyped
  <2>4. SafeReturnTo(req.path) \in Path
    <3>1. req.path \in Path
      BY <2>1 DEF ProxyInv, ProxyTypeOK, RequestRecord
    <3> QED
      BY <3>1, RootIsPath DEF SafeReturnTo
  <2> HIDE DEF g
  <2>5. jar' \in [Regs -> Cookies] /\ trip' \in Policies \cup {0}
    BY <1>1, <2>1, <2>2, <2>3, <2>4 DEF Cookies
  <2>6. {"login", "500"} \subseteq Answers /\ <<>> \in Asked
    BY DEF Answers, Asked
  <2> QED
    BY <2>1, <2>5, <2>6, RespondTyped
<1> QED
  BY <1>3, <1>4, <1>5

\* prepare_request: what is sent to the backend of the selected rule.
PreparedOK(view) ==
    LET rule == Rules[view.rule]
    IN  /\ view.identity # "caller"
        /\ view.identity # "none" => rule.policy # NoPolicy
        /\ rule.proxy => view.forwarded = "tunnel"
        /\ view.token => rule.policy = NoPolicy \/ rule.policy.forward
        /\ StartsWith(view.path, Slash)
        /\ IF rule.strip THEN TrimEnd(rule.prefix, Slash) \o view.path \in {req.path, req.path \o Root}
           ELSE view.path = req.path

\* Its headers are the gateway's and its path is a path, with the prefix
\* taken off exactly where strip_path_prefix says so.
LEMMA PreparedTyped ==
    ASSUME ProxyInv, phase = "deciding", Selected # 0, ~Unpreparable
    PROVE  /\ Prepared \in SeenRecord /\ PreparedOK(Prepared)
           /\ BestFor(Rules, req.path, Prepared.rule)
<1> DEFINE rule == Rules[Selected]
           path == IF rule.strip THEN StripPrefix(rule.prefix, req.path) ELSE req.path
           identity == Identity(rule.policy)
           forwarded == IF rule.proxy THEN "tunnel" ELSE IF req.own THEN "caller" ELSE "none"
           token == req.token # NoToken /\ (rule.policy # NoPolicy => rule.policy.forward)
<1>1. BestFor(Rules, req.path, Selected) /\ Selected \in DOMAIN Rules
  BY RulesTyped, SelectsBest DEF ProxyInv, Selected, BestFor
<1>2. rule \in RuleRecord /\ Selected \in Nat
  BY <1>1, RulesTyped DEF ProxyInv
<1>3. req \in RequestRecord /\ req.path \in Path
  BY DEF ProxyInv, ProxyTypeOK, RequestRecord
<1>4. rule.prefix \in Seq(Char) /\ rule.strip \in BOOLEAN /\ rule.proxy \in BOOLEAN
  BY <1>2, RootIsPath DEF RuleRecord, Path
<1>5. rule.strip => Strippable(rule.prefix, req.path)
  BY DEF Unpreparable
<1>6. /\ path \in Path
      /\ IF rule.strip THEN TrimEnd(rule.prefix, Slash) \o path \in {req.path, req.path \o Root}
         ELSE path = req.path
  BY <1>3, <1>4, <1>5, Stripped
<1>7. identity \in {"none", "account", "token"} /\ (identity # "none" => rule.policy # NoPolicy)
  BY DEF Identity
<1>8. forwarded \in {"none", "tunnel", "caller"} /\ (rule.proxy => forwarded = "tunnel")
  OBVIOUS
<1>9. token \in BOOLEAN /\ (token => rule.policy = NoPolicy \/ rule.policy.forward)
  OBVIOUS
<1>10. Prepared = [rule |-> Selected, path |-> path, identity |-> identity,
                   forwarded |-> forwarded, token |-> token]
  BY DEF Prepared
<1>11. StartsWith(path, Slash)
  BY <1>6 DEF Path
<1> HIDE DEF path, identity, forwarded, token
<1>12. Prepared \in SeenRecord
  BY <1>2, <1>6, <1>7, <1>8, <1>9, <1>10 DEF SeenRecord
<1>13. /\ Prepared.rule = Selected /\ Prepared.path = path /\ Prepared.identity = identity
       /\ Prepared.forwarded = forwarded /\ Prepared.token = token
  BY <1>10
<1>14. PreparedOK(Prepared)
  BY <1>6, <1>7, <1>8, <1>9, <1>11, <1>13 DEF PreparedOK
<1> QED
  BY <1>1, <1>12, <1>13, <1>14

\* A request that goes on to its backend.
LEMMA ForwardKeeps ==
    ASSUME ProxyInv, HandleForwards \/ BackendSwitches
    PROVE  ProxyInv'
<1>1. CASE HandleForwards
  <2>1. /\ phase = "deciding" /\ Selected # 0 /\ ~Unpreparable /\ seen' = Prepared
        /\ phase' = "connecting" /\ UNCHANGED <<conf, req, jar, want, next, trip, answer>>
    BY <1>1 DEF HandleForwards, Allowed
  <2>2. Prepared \in SeenRecord
    BY <2>1, PreparedTyped
  <2>3. seen' # NoRequest
    BY <2>1, <2>2, ProxyAssumption
  <2>4. Regs' = Regs /\ Policies' = Policies /\ RequestLimit' = RequestLimit
    BY <2>1, ConfigFixed
  <2> QED
    BY <2>1, <2>2, <2>3, <2>4 DEF ProxyInv, ProxyTypeOK, Busy
<1>2. CASE BackendSwitches
  <2>1. /\ UNCHANGED <<conf, req, jar, next, trip, seen>>
        /\ phase' = "upgraded" /\ answer' = "page" /\ want' = <<>>
    BY <1>2 DEF BackendSwitches
  <2>2. Regs' = Regs /\ Policies' = Policies
    BY <2>1, ConfigFixed
  <2> QED
    BY <2>1, <2>2 DEF ProxyInv, ProxyTypeOK, Busy, Answers
<1> QED
  BY <1>1, <1>2

\* The invariant holds initially and every step keeps it.
THEOREM ProxyInvariant == ProxySpec => []ProxyInv
<1>1. ProxyInit => ProxyInv
  <2> SUFFICES ASSUME ProxyInit PROVE ProxyInv
    OBVIOUS
  <2>1. jar \in [Regs -> Cookies]
    BY DEF ProxyInit, NoCookies, Cookies
  <2> QED
    BY <2>1 DEF ProxyInit, ProxyInv, ProxyTypeOK, Busy, Cookies, Answers
<1>2. ProxyInv /\ [ProxyNext]_proxyVars => ProxyInv'
  <2> SUFFICES ASSUME ProxyInv, [ProxyNext]_proxyVars PROVE ProxyInv'
    OBVIOUS
  <2>1. CASE UNCHANGED proxyVars
    <3>1. UNCHANGED <<conf, phase, req, jar, want, next, trip, seen, answer>>
      BY <2>1 DEF proxyVars
    <3>2. Regs' = Regs /\ Policies' = Policies /\ RequestLimit' = RequestLimit
      BY <3>1, ConfigFixed
    <3> QED
      BY <3>1, <3>2 DEF ProxyInv, ProxyTypeOK, Busy
  <2>2. CASE Connection \/ Ends
    BY <2>2, ConnectionKeeps
  <2>3. CASE Handle
    BY <2>3, AnswerKeeps, SignInKeeps, ForwardKeeps DEF Handle
  <2>4. CASE Backend
    BY <2>4, ConnectionKeeps, AnswerKeeps, ForwardKeeps DEF Backend
  <2>5. CASE Call \/ Follow
    BY <2>5, RequestKeeps
  <2>6. CASE \/ ProviderReturns
             \/ \E p \in Paths : Visit(p)
             \/ \E g \in Regs : SessionExpires(g)
    BY <2>6, UserKeeps
  <2> QED
    BY <2>1, <2>2, <2>3, <2>4, <2>5, <2>6 DEF ProxyNext
<1> QED
  BY <1>1, <1>2, PTL DEF ProxySpec

\* The types of the proxy hold in every behaviour.
THEOREM ProxyTypeCorrect == ProxySpec => []ProxyTypeOK
BY ProxyInvariant, PTL DEF ProxyInv
-----------------------------------------------------------------------------
(***************************************************************************)
(* What a backend sees is fixed by prepare_request: only HandleForwards    *)
(* enters "connecting", and until the answer the request, the view of it   *)
(* and the configuration stay.                                             *)
(***************************************************************************)
LEMMA ToBackend ==
    ASSUME [ProxyNext]_proxyVars, AtBackend'
    PROVE  \/ HandleForwards
           \/ /\ AtBackend /\ UNCHANGED <<conf, req, seen>>
              /\ phase' = "connecting" => phase = "connecting"
<1>1. phase' \in {"connecting", "sent"}
  BY DEF AtBackend
<1>2. CASE UNCHANGED proxyVars
  BY <1>1, <1>2 DEF proxyVars, AtBackend
<1>3. CASE BackendConnects
  BY <1>3 DEF BackendConnects, Become, AtBackend
<1>4. ASSUME NEW p, Visit(p) PROVE FALSE
  BY <1>1, <1>4 DEF Visit
<1>5. ASSUME NEW g, SessionExpires(g)
      PROVE  AtBackend /\ UNCHANGED <<conf, req, seen>> /\ phase' = phase
  BY <1>1, <1>5 DEF SessionExpires, AtBackend
<1>6. CASE ProviderReturns
  BY <1>1, <1>6 DEF ProviderReturns, AtBackend
<1>7. ASSUME NEW r, Receive(r) PROVE FALSE
  BY <1>1, <1>7 DEF Receive
<1>8. ASSUME NEW what, NEW where, Respond(what, where) PROVE FALSE
  BY <1>1, <1>8 DEF Respond
<1>9. ASSUME NEW where \in {"serving", "terminated", "relay", "closed"}, Become(where) PROVE FALSE
  BY <1>1, <1>9 DEF Become
<1>10. ~Open /\ ~Ends /\ ~BackendSwitches
  BY <1>1 DEF Open, Ends, BackendSwitches
<1>11. ~Connection
  BY <1>9, <1>10 DEF Connection, BridgeServes, BridgeHandsOn, BridgeRelays,
     BridgeRejects, AcceptFails, TlsServes, TlsRelays, TlsRejects
<1>12. /\ ~HandleCallback /\ ~HandleLogout /\ ~HandleDenied /\ ~HandleLogin
       /\ ~HandleRedirect /\ ~HandleFails
  BY <1>8 DEF HandleCallback, HandleLogout, HandleDenied, HandleLogin,
     HandleRedirect, HandleFails
<1>13. ~BackendUnavailable /\ ~BackendTimesOut /\ ~BackendAnswers
  BY <1>8 DEF BackendUnavailable, BackendTimesOut, BackendAnswers, Conclude
<1>14. ~Call /\ ~Follow
  BY <1>7 DEF Call, Follow
<1> QED
  BY <1>2, <1>3, <1>4, <1>5, <1>6, <1>10, <1>11, <1>12, <1>13, <1>14
     DEF ProxyNext, Handle, Backend

\* What holds of a request at its backend.
SeenInv == AtBackend => BestFor(Rules, req.path, seen.rule) /\ PreparedOK(seen)

\* prepare_request is given the selected rule, and the view of the request it
\* builds stays as it is until the backend answers.
LEMMA SeenInvariant == ProxySpec => []SeenInv
<1>1. ProxyInit => SeenInv
  BY DEF ProxyInit, SeenInv, AtBackend
<1>2. ProxyInv /\ SeenInv /\ [ProxyNext]_proxyVars => SeenInv'
  <2> SUFFICES ASSUME ProxyInv, SeenInv, [ProxyNext]_proxyVars, AtBackend'
               PROVE  (BestFor(Rules, req.path, seen.rule) /\ PreparedOK(seen))'
    BY DEF SeenInv
  <2>1. CASE AtBackend /\ UNCHANGED <<conf, req, seen>>
    <3>1. Rules' = Rules
      BY <2>1, ConfigFixed
    <3> QED
      BY <2>1, <3>1 DEF SeenInv, PreparedOK
  <2>2. CASE HandleForwards
    <3>1. /\ phase = "deciding" /\ Selected # 0 /\ ~Unpreparable
          /\ seen' = Prepared /\ conf' = conf /\ req' = req
      BY <2>2 DEF HandleForwards, Allowed
    <3>2. Rules' = Rules
      BY <3>1, ConfigFixed
    <3>3. PreparedOK(Prepared) /\ BestFor(Rules, req.path, Prepared.rule)
      BY <3>1, PreparedTyped
    <3> QED
      BY <3>1, <3>2, <3>3 DEF PreparedOK
  <2> QED
    BY <2>1, <2>2, ToBackend
<1> QED
  BY <1>1, <1>2, ProxyInvariant, PTL DEF ProxySpec

\* A backend sees only identity headers the gateway wrote, forwarding headers
\* of its own where proxy_headers is on, no token it did not ask for, and a
\* path from which exactly the configured prefix was taken (prepare_request).
THEOREM HeadersAreTrusted == ProxySpec => []HeadersTrusted
<1>1. SeenInv => HeadersTrusted
  BY DEF SeenInv, PreparedOK, HeadersTrusted
<1> QED
  BY <1>1, SeenInvariant, PTL

\* A request reaches the backend of a rule with the longest prefix that
\* matches_path_prefix accepts, the fallback only when there is none.
LongestPrefixWins ==
    AtBackend =>
        IF Matching(Rules, req.path) = {} THEN Rules[seen.rule].prefix = <<>>
        ELSE /\ seen.rule \in Matching(Rules, req.path)
             /\ \A i \in Matching(Rules, req.path) :
                    Len(Rules[i].prefix) <= Len(Rules[seen.rule].prefix)

\* For every list of rules and every path (select_runtime_for_path).
THEOREM LongestPrefixSelected == ProxySpec => []LongestPrefixWins
<1>1. SeenInv => LongestPrefixWins
  BY DEF SeenInv, BestFor, LongestPrefixWins
<1> QED
  BY <1>1, SeenInvariant, PTL

\* What handle_request_inner and prepare_request need, besides routing: a
\* prefix where one is to be taken off, a Host header, an identity and a
\* backend_host that headers can carry.
Equipped ==
    LET rule == Rules[Selected]
    IN  /\ rule.strip => rule.prefix # <<>>
        /\ req.host /\ Presentable(rule.policy) /\ rule.host # "bad"

\* A request that was let through never fails because of its path: a prefix
\* that was selected for a path can be taken off it, so that only a missing
\* prefix, a missing Host header or a value no header can carry is left
\* (prepare_request, strip_uri_prefix).
THEOREM PreparedWhenEquipped == ProxySpec => [](Allowed /\ Equipped => ~Unpreparable)
<1>1. ProxyInv => (Allowed /\ Equipped => ~Unpreparable)
  <2> SUFFICES ASSUME ProxyInv, Allowed, Rules[Selected].prefix # <<>>
               PROVE  Strippable(Rules[Selected].prefix, req.path)
    BY DEF Unpreparable, Equipped
  <2>1. req.path \in Path
    BY DEF ProxyInv, ProxyTypeOK, Allowed, RequestRecord
  <2>2. BestFor(Rules, req.path, Selected) /\ Selected \in DOMAIN Rules
    BY RulesTyped, SelectsBest DEF ProxyInv, Selected, BestFor, Allowed
  <2>3. Rules[Selected].prefix \in Path
    BY <2>2, RulesTyped DEF ProxyInv, RuleRecord
  <2>4. MatchesPathPrefix(Rules[Selected].prefix, req.path)
    BY <2>2, <2>3 DEF BestFor, Matching, Path, StartsWith
  <2> QED
    BY <2>1, <2>3, <2>4, StripFollowsRouting
<1> QED
  BY <1>1, ProxyInvariant, PTL

\* A request reaches the backend of the innermost prefix that covers its path,
\* for every list of rules and every path (select_runtime_for_path): the
\* longest prefix lies below every other that covers the path.
THEOREM InnermostPrefixSelected == ProxySpec => []MostSpecificWins
<1>1. ProxyInv /\ SeenInv => MostSpecificWins
  <2> SUFFICES ASSUME ProxyInv, SeenInv, AtBackend
               PROVE  LET covering == {i \in DOMAIN Rules :
                                         Rules[i].prefix # <<>> /\ Covers(Rules[i].prefix, req.path)}
                          chosen == Rules[seen.rule].prefix
                      IN  IF covering = {} THEN chosen = <<>>
                          ELSE /\ seen.rule \in covering
                               /\ \A i \in covering : Covers(Rules[i].prefix, chosen) \/ Doubled(chosen)
    BY DEF MostSpecificWins
  <2> DEFINE covering == {i \in DOMAIN Rules :
                            Rules[i].prefix # <<>> /\ Covers(Rules[i].prefix, req.path)}
             chosen == Rules[seen.rule].prefix
  <2>1. BestFor(Rules, req.path, seen.rule)
    BY DEF SeenInv
  <2>2. req.path \in Path /\ req.path \in Seq(Char)
    BY DEF ProxyInv, ProxyTypeOK, AtBackend, RequestRecord, Path
  <2>3. \A i \in DOMAIN Rules : /\ Rules[i].prefix \in Path \cup {<<>>}
                                /\ Rules[i].prefix \in Seq(Char)
    BY RulesTyped, RootIsPath DEF ProxyInv, RuleRecord, Path
  <2>4. covering = Matching(Rules, req.path)
    BY <2>2, <2>3, MatchIsCover DEF Matching
  <2>5. ASSUME covering # {}
        PROVE  seen.rule \in covering /\ \A i \in covering : Len(Rules[i].prefix) <= Len(chosen)
    BY <2>1, <2>4, <2>5 DEF BestFor
  <2>6. ASSUME NEW i \in covering PROVE Covers(Rules[i].prefix, chosen) \/ Doubled(chosen)
    <3>1. Rules[i].prefix \in Seq(Char) /\ Covers(Rules[i].prefix, req.path)
      BY <2>3
    <3>2. chosen \in Seq(Char) /\ Covers(chosen, req.path) /\ Len(Rules[i].prefix) <= Len(chosen)
      BY <2>3, <2>5
    <3> QED
      BY <2>2, <3>1, <3>2, CoversChain
  <2>7. covering = {} => chosen = <<>>
    BY <2>1, <2>4 DEF BestFor
  <2> QED
    BY <2>5, <2>6, <2>7
<1> QED
  BY <1>1, ProxyInvariant, SeenInvariant, PTL

\* A request at its backend is within the header limit of the policy that
\* protects it, whatever the policies of the hostname (request_limits).
THEOREM LimitsKept == ProxySpec => []WithinLimits
<1>1. ProxyInv /\ SeenInv => WithinLimits
  <2> SUFFICES ASSUME ProxyInv, SeenInv, AtBackend, Rules[seen.rule].policy # NoPolicy
               PROVE  req.size <= Rules[seen.rule].policy.max
    BY DEF WithinLimits
  <2>1. seen.rule \in Policies
    BY DEF SeenInv, BestFor, Policies
  <2>2. RequestLimit \in Nat /\ RequestLimit <= Rules[seen.rule].policy.max
    BY <2>1, LimitIsLeast DEF ProxyInv
  <2>3. req \in RequestRecord /\ req.size <= RequestLimit
    BY DEF AtBackend, ProxyInv, ProxyTypeOK, Busy
  <2>4. req.size \in Nat /\ Rules[seen.rule].policy.max \in Nat
    BY <2>1, <2>3, RulesTyped, ProxyAssumption DEF ProxyInv, PolicyRecord, RequestRecord
  <2> QED
    BY <2>2, <2>3, <2>4, SMTT(30)
<1> QED
  BY <1>1, ProxyInvariant, SeenInvariant, PTL

\* With tcp_passthrough off nothing is relayed as a byte stream, before or
\* after TLS termination (protocol_allowed).
THEOREM NothingRelayed == ProxySpec => []HttpOnly
<1>1. ProxyInit => HttpOnly
  BY DEF ProxyInit, HttpOnly
<1>2. HttpOnly /\ [ProxyNext]_proxyVars => HttpOnly'
  <2> SUFFICES ASSUME HttpOnly, [ProxyNext]_proxyVars, phase' = "relay", ~conf'.passthrough
               PROVE  FALSE
    BY DEF HttpOnly
  <2>1. CASE UNCHANGED proxyVars
    BY <2>1 DEF proxyVars, HttpOnly
  <2>2. ASSUME NEW where, Become(where), where # "relay" PROVE FALSE
    BY <2>2 DEF Become
  <2>3. CASE BridgeRelays \/ TlsRelays
    BY <2>3 DEF BridgeRelays, TlsRelays, ProtocolAllowed, Become
  <2>4. ASSUME NEW what, NEW where, Respond(what, where) PROVE FALSE
    BY <2>4 DEF Respond
  <2>5. ASSUME NEW r, Receive(r) PROVE FALSE
    BY <2>5 DEF Receive
  <2>6. ASSUME NEW p, Visit(p) PROVE FALSE
    BY <2>6 DEF Visit
  <2>7. ASSUME NEW g, SessionExpires(g) PROVE FALSE
    BY <2>7 DEF SessionExpires, HttpOnly
  <2>8. ~ProviderReturns
    BY DEF ProviderReturns, HttpOnly
  <2>9. ~Open /\ ~Ends /\ ~BackendSwitches /\ ~HandleForwards
    BY DEF Open, Ends, BackendSwitches, HandleForwards
  <2>10. ~Connection /\ ~BackendConnects
    BY <2>2, <2>3, <2>9 DEF Connection, BridgeServes, BridgeHandsOn, BridgeRejects,
       AcceptFails, TlsServes, TlsRejects, BackendConnects
  <2>11. ~Handle
    BY <2>4, <2>9 DEF Handle, HandleCallback, HandleLogout, HandleDenied, HandleLogin,
       HandleRedirect, HandleFails
  <2>12. ~Backend
    BY <2>4, <2>9, <2>10 DEF Backend, BackendUnavailable, BackendTimesOut,
       BackendAnswers, Conclude
  <2>13. ~Call /\ ~Follow
    BY <2>5 DEF Call, Follow
  <2> QED
    BY <2>1, <2>6, <2>7, <2>8, <2>9, <2>10, <2>11, <2>12, <2>13 DEF ProxyNext
<1> QED
  BY <1>1, <1>2, PTL DEF ProxySpec

\* What reaches a protected backend was accepted by that backend's own
\* policy, on this request's own token or session (authorize).
THEOREM EachAuthorized == ProxySpec => AuthorizedIndependently
<1>1. ASSUME [ProxyNext]_proxyVars, phase # "connecting", phase' = "connecting",
             Rules[seen'.rule].policy # NoPolicy
      PROVE  LET policy == Rules[seen'.rule].policy
             IN  IF req.token = NoToken THEN policy.oidc /\ jar[policy.reg].session
                 ELSE /\ policy.bearer /\ req.token.valid
                      /\ policy.required # {} => policy.required \cap req.token.roles # {}
                      /\ policy.all => policy.required \subseteq req.token.roles
  <2>1. HandleForwards
    <3>1. AtBackend'
      BY <1>1 DEF AtBackend
    <3> QED
      BY <1>1, <3>1, ToBackend DEF AtBackend
  <2> DEFINE policy == Rules[Selected].policy
  <2>2. seen'.rule = Selected /\ Authorize(policy) = "allow"
    BY <2>1 DEF HandleForwards, Allowed, Prepared
  <2>3. policy # NoPolicy
    BY <1>1, <2>2
  <2>4. CASE req.token = NoToken
    <3>1. policy.oidc /\ jar[policy.reg].session
      BY <2>2, <2>3, <2>4 DEF Authorize, AuthorizeBrowser
    <3> QED
      BY <2>2, <2>4, <3>1
  <2>5. CASE req.token # NoToken
    <3>1. policy.bearer /\ req.token.valid /\ RolesOK(policy, req.token.roles)
      BY <2>2, <2>3, <2>5 DEF Authorize, AuthorizeToken
    <3> HIDE DEF policy
    <3>2. /\ policy.required # {} => policy.required \cap req.token.roles # {}
          /\ policy.all => policy.required \subseteq req.token.roles
      BY <3>1 DEF RolesOK
    <3> QED
      BY <2>2, <2>5, <3>1, <3>2 DEF policy
  <2> QED
    BY <2>4, <2>5
<1>2. [ProxyNext]_proxyVars =>
        [ phase # "connecting" /\ phase' = "connecting" /\ Rules[seen'.rule].policy # NoPolicy =>
          LET policy == Rules[seen'.rule].policy
          IN  IF req.token = NoToken THEN policy.oidc /\ jar[policy.reg].session
              ELSE /\ policy.bearer /\ req.token.valid
                   /\ policy.required # {} => policy.required \cap req.token.roles # {}
                   /\ policy.all => policy.required \subseteq req.token.roles ]_proxyVars
  BY <1>1
<1> QED
  BY <1>2, PTL DEF ProxySpec, AuthorizedIndependently

(***************************************************************************)
(* The session cookie belongs to a registration, which several policies    *)
(* may share, and its roles are not looked at again when it is used: what  *)
(* it is worth was decided by handle_callback.                             *)
(***************************************************************************)
\* The account has the roles that some policy of the registration asks for.
Earned(g) ==
    \E i \in Policies : /\ Rules[i].policy.oidc /\ Rules[i].policy.reg = g
                        /\ RolesOK(Rules[i].policy, roles)

\* Every session in the browser was worth its roles when it was issued.
SessionEarned == \A g \in Regs : jar[g].session => Earned(g)

\* Only the callback starts a session: every other step leaves each
\* registration without a session as it is.
LEMMA OnlyCallback ==
    ASSUME ProxyInv, [ProxyNext]_proxyVars, ~HandleCallback, NEW g \in Regs, jar'[g].session
    PROVE  jar[g].session
<1>1. jar \in [Regs -> Cookies]
  BY DEF ProxyInv, ProxyTypeOK, Cookies
<1>2. CASE UNCHANGED jar
  BY <1>2
<1>3. CASE HandleLogout
  <2> DEFINE h == Rules[Min(Endpoints)].policy.reg
  <2>1. jar' = jar \/ jar' = [jar EXCEPT ![h] = NoCookies]
    BY <1>3 DEF HandleLogout
  <2> QED
    BY <1>1, <2>1, SMTT(30) DEF NoCookies
<1>4. CASE HandleLogin
  <2> DEFINE h == Rules[Selected].policy.reg
  <2>1. jar' = jar \/ jar' = [jar EXCEPT ![h].flow = SafeReturnTo(req.path)]
    BY <1>4 DEF HandleLogin
  <2>2. jar[g] \in Cookies
    BY <1>1
  <2> QED
    BY <1>1, <2>1, <2>2 DEF Cookies
<1>5. ASSUME NEW h \in Regs, SessionExpires(h) PROVE jar[g].session
  BY <1>1, <1>5 DEF SessionExpires, Cookies
<1>6. Connection \/ Ends \/ Backend \/ Call \/ Follow \/ ProviderReturns => UNCHANGED jar
  <2>1. \A where : Become(where) => UNCHANGED jar
    BY DEF Become
  <2>2. Connection => UNCHANGED jar
    BY <2>1 DEF Connection, Open, BridgeServes, BridgeHandsOn, BridgeRelays,
       BridgeRejects, AcceptFails, TlsServes, TlsRelays, TlsRejects
  <2>3. Backend => UNCHANGED jar
    BY <2>1 DEF Backend, BackendConnects, BackendUnavailable, BackendTimesOut,
       BackendAnswers, BackendSwitches, Conclude
  <2> QED
    BY <2>2, <2>3 DEF Ends, Call, Follow, ProviderReturns
<1>7. HandleDenied \/ HandleRedirect \/ HandleFails \/ HandleForwards => UNCHANGED jar
  BY DEF HandleDenied, HandleRedirect, HandleFails, HandleForwards
<1>8. ASSUME NEW p, Visit(p) PROVE UNCHANGED jar
  BY <1>8 DEF Visit
<1>9. UNCHANGED proxyVars => UNCHANGED jar
  BY DEF proxyVars
<1> QED
  BY <1>2, <1>3, <1>4, <1>5, <1>6, <1>7, <1>8, <1>9 DEF ProxyNext, Handle

\* The account and the configuration are the same in every step.
LEMMA AccountFixed ==
    ASSUME [ProxyNext]_proxyVars
    PROVE  UNCHANGED <<conf, account>>
<1>1. \A what, where : Respond(what, where) => UNCHANGED <<conf, account>>
  BY DEF Respond
<1>2. \A where : Become(where) => UNCHANGED <<conf, account>>
  BY DEF Become
<1>3. Connection => UNCHANGED <<conf, account>>
  BY <1>2 DEF Connection, Open, BridgeServes, BridgeHandsOn, BridgeRelays,
     BridgeRejects, AcceptFails, TlsServes, TlsRelays, TlsRejects
<1>4. HandleCallback \/ HandleLogout \/ HandleLogin => UNCHANGED <<conf, account>>
  BY <1>1 DEF HandleCallback, HandleLogout, HandleLogin
<1>5. HandleDenied \/ HandleRedirect \/ HandleFails \/ HandleForwards => UNCHANGED <<conf, account>>
  BY <1>1 DEF HandleDenied, HandleRedirect, HandleFails, HandleForwards
<1>6. Backend => UNCHANGED <<conf, account>>
  BY <1>1, <1>2 DEF Backend, BackendConnects, BackendUnavailable, BackendTimesOut,
     BackendAnswers, BackendSwitches, Conclude
<1>7. Ends \/ Call \/ Follow \/ ProviderReturns => UNCHANGED <<conf, account>>
  BY DEF Ends, Call, Follow, ProviderReturns
<1>8. \A x : Visit(x) \/ SessionExpires(x) => UNCHANGED <<conf, account>>
  BY DEF Visit, SessionExpires
<1>9. UNCHANGED proxyVars => UNCHANGED <<conf, account>>
  BY DEF proxyVars
<1> QED
  BY <1>3, <1>4, <1>5, <1>6, <1>7, <1>8, <1>9 DEF ProxyNext, Handle

\* A session cookie is only in the browser when handle_callback found the
\* roles of a policy that shares the cookie's registration.
THEOREM SessionsAreEarned == ProxySpec => []SessionEarned
<1>1. ProxyInit => SessionEarned
  BY SMTT(30) DEF ProxyInit, SessionEarned, NoCookies
<1>2. ProxyInv /\ SessionEarned /\ [ProxyNext]_proxyVars => SessionEarned'
  <2> SUFFICES ASSUME ProxyInv, SessionEarned, [ProxyNext]_proxyVars PROVE SessionEarned'
    OBVIOUS
  <2>1. roles' = roles /\ Rules' = Rules /\ Policies' = Policies /\ Regs' = Regs
    BY AccountFixed, ConfigFixed DEF roles
  <2>2. \A g \in Regs : Earned(g) => Earned(g)'
    BY <2>1 DEF Earned
  <2>3. SUFFICES ASSUME NEW g \in Regs, jar'[g].session, ~jar[g].session
                 PROVE  Earned(g)
    BY <2>1, <2>2 DEF SessionEarned
  <2>4. HandleCallback
    BY <2>3, OnlyCallback
  <2> DEFINE i == Min(Endpoints)
             policy == Rules[i].policy
  <2>5. i \in Policies /\ policy.oidc
    <3>1. Endpoints \in SUBSET Policies /\ \A j \in Endpoints : Rules[j].policy.oidc
      BY DEF Endpoints, HandlesEndpoint
    <3>2. conf \in Configs
      BY DEF ProxyInv
    <3>3. Endpoints \in SUBSET Nat /\ Endpoints # {}
      BY <2>4, <3>1, <3>2, RulesTyped DEF HandleCallback
    <3>4. i \in Endpoints
      BY <3>3, MinIsLeast
    <3> QED
      BY <3>1, <3>4
  <2>6. /\ RolesOK(policy, roles)
        /\ jar' = [jar EXCEPT ![policy.reg] = [flow |-> <<>>, session |-> TRUE]]
    <3>1. jar' # jar
      BY <2>3
    <3> QED
      BY <2>4, <3>1 DEF HandleCallback
  <2>7. policy.reg = g
    <3>1. jar' = [jar EXCEPT ![policy.reg] = [flow |-> <<>>, session |-> TRUE]]
      BY <2>6
    <3>2. jar \in [Regs -> Cookies]
      BY DEF ProxyInv, ProxyTypeOK, Cookies
    <3> HIDE DEF policy
    <3> QED
      BY <2>3, <3>1, <3>2
  <2> QED
    BY <2>5, <2>6, <2>7 DEF Earned
<1> QED
  BY <1>1, <1>2, ProxyInvariant, PTL DEF ProxySpec

\* A request without a token reaches a protected backend only for an account
\* with the roles of a policy of the same registration.
BrowserEarned ==
    [][ phase # "connecting" /\ phase' = "connecting" /\ req.token = NoToken
        /\ Rules[seen'.rule].policy # NoPolicy
        => Earned(Rules[seen'.rule].policy.reg) ]_proxyVars

\* authorize lets a browser through on its session alone, and the account
\* behind it has the roles of a policy of that registration: the one asked
\* for, where the policies of a registration ask for the same roles.
THEOREM BrowserHasRoles == ProxySpec => BrowserEarned
<1> DEFINE Enters == phase # "connecting" /\ phase' = "connecting" /\ req.token = NoToken
                     /\ Rules[seen'.rule].policy # NoPolicy
<1>1. ASSUME ProxyInv, SessionEarned, [ProxyNext]_proxyVars, Enters
      PROVE  Earned(Rules[seen'.rule].policy.reg)
  <2>1. HandleForwards
    <3>1. AtBackend'
      BY <1>1 DEF AtBackend
    <3> QED
      BY <1>1, <3>1, ToBackend DEF AtBackend
  <2> DEFINE policy == Rules[Selected].policy
  <2>2. seen'.rule = Selected /\ Selected # 0 /\ Authorize(policy) = "allow"
    BY <2>1 DEF HandleForwards, Allowed, Prepared
  <2>3. policy # NoPolicy /\ req.token = NoToken
    BY <1>1, <2>2
  <2>4. jar[policy.reg].session
    BY <2>2, <2>3 DEF Authorize, AuthorizeBrowser
  <2>5. policy.reg \in Regs
    <3>1. conf \in Configs
      BY <1>1 DEF ProxyInv
    <3>2. Selected \in DOMAIN Rules
      BY <2>2, <3>1, RulesTyped, SelectsBest DEF Selected, BestFor
    <3> QED
      BY <2>3, <3>2 DEF Policies, Regs
  <2> QED
    BY <1>1, <2>2, <2>4, <2>5 DEF SessionEarned
<1>2. ProxyInv /\ SessionEarned /\ [ProxyNext]_proxyVars
      => [Enters => Earned(Rules[seen'.rule].policy.reg)]_proxyVars
  BY <1>1
<1> QED
  BY <1>2, ProxyInvariant, SessionsAreEarned, PTL DEF ProxySpec, BrowserEarned

=============================================================================
