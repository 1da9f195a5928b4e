--------------------------- MODULE DecisionLogProofs ---------------------------
(***************************************************************************)
(* What holds of decisions.jsonl for any number of ids, processes, writes, *)
(* deaths and merges: its types, that an acknowledged row survives until a *)
(* trim or a forget drops it, that a forgotten id is hidden and its rows   *)
(* are gone, and that a retired failure is not surfaced by an older row.   *)
(***************************************************************************)
EXTENDS DecisionLog, FiniteSetTheorems, SequenceTheorems, TLAPS

-----------------------------------------------------------------------------
(* Rows picked from a file *)

\* The places are numbered without gaps, in their order.
LEMMA NthIs ==
    ASSUME NEW T, NEW s \in Seq(T), NEW S, NEW N, N = Cardinality(Places(s, S))
    PROVE  /\ N \in Nat
           /\ \A n \in 1..N : Nth(s, S, n) \in Places(s, S)
           /\ \A n, m \in 1..N : n < m => Nth(s, S, n) < Nth(s, S, m)
           /\ \A i \in Places(s, S) : \E n \in 1..N : Nth(s, S, n) = i
<1>1. Len(s) \in Nat /\ DOMAIN s = 1..Len(s)
    BY LenProperties
<1> DEFINE D == Places(s, S)
<1>2. D \in SUBSET (1..Len(s)) /\ \A i \in D : i \in Nat
    BY <1>1 DEF Places
<1>3. IsFiniteSet(D)
  <2>1. 1 \in Int /\ Len(s) \in Int
    BY <1>1
  <2>2. IsFiniteSet(1..Len(s))
    BY <2>1, FS_Interval
  <2> QED BY <1>2, <2>2, FS_Subset
<1>4. N \in Nat
    BY <1>3, FS_CardinalityType
<1> DEFINE up(i) == {j \in D : j <= i}
<1> DEFINE rank == [i \in D |-> Cardinality(up(i))]
<1>5. \A i \in D : /\ up(i) \in SUBSET D /\ i \in up(i) /\ IsFiniteSet(up(i))
                   /\ rank[i] \in 1..N
  <2> TAKE i \in D
  <2>1. up(i) \in SUBSET D /\ i \in up(i)
    BY <1>2
  <2>2. IsFiniteSet(up(i)) /\ Cardinality(up(i)) <= N
    BY <1>3, <2>1, FS_Subset
  <2>3. Cardinality(up(i)) \in Nat /\ Cardinality(up(i)) # 0
    BY <2>1, <2>2, FS_CardinalityType, FS_EmptySet
  <2> QED BY <1>4, <2>1, <2>2, <2>3
<1>12. \A i \in D : rank[i] \in Nat
    BY <1>5, FS_CardinalityType
<1>6. \A i, k \in D : i < k => rank[i] < rank[k]
  <2> SUFFICES ASSUME NEW i \in D, NEW k \in D, i < k PROVE rank[i] < rank[k]
    OBVIOUS
  <2>1. up(i) \in SUBSET up(k) /\ k \notin up(i) /\ k \in up(k)
    BY <1>2
  <2>2. IsFiniteSet(up(k)) /\ rank[i] \in Nat /\ rank[k] \in Nat
    BY <1>5, <1>12
  <2>3. Cardinality(up(i)) <= Cardinality(up(k)) /\ Cardinality(up(i)) # Cardinality(up(k))
    BY <2>1, <2>2, FS_Subset
  <2> QED BY <2>2, <2>3
<1>7. \A i, k \in D : i # k => rank[i] # rank[k]
  <2> SUFFICES ASSUME NEW i \in D, NEW k \in D, i # k PROVE rank[i] # rank[k]
    OBVIOUS
  <2>1. i < k \/ k < i
    BY <1>2
  <2>2. rank[i] \in Nat /\ rank[k] \in Nat
    BY <1>5, <1>12
  <2>3. rank[i] < rank[k] \/ rank[k] < rank[i]
    BY <1>6, <2>1
  <2> HIDE DEF rank
  <2> QED BY <2>2, <2>3
<1>8. rank \in Surjection(D, 1..N)
  <2>1. rank \in [D -> 1..N]
    BY <1>5
  <2> HIDE DEF rank
  <2>2. rank \in Injection(D, 1..N)
    BY <1>7, <2>1 DEF Injection, IsInjective
  <2>3. IsFiniteSet(1..N) /\ Cardinality(1..N) = N
    <3>1. N \in Int /\ 1 \in Int /\ (IF 1 > N THEN 0 ELSE N - 1 + 1) = N
      BY <1>4
    <3> QED BY <3>1, FS_Interval
  <2> HIDE DEF D
  <2>4. Cardinality(D) = N
    BY DEF D
  <2> QED BY <2>2, <2>3, <2>4, FS_Injection
<1>9. \A n \in 1..N : Nth(s, S, n) \in D /\ rank[Nth(s, S, n)] = n
  <2> TAKE n \in 1..N
  <2>1. PICK i \in D : rank[i] = n
    <3> HIDE DEF rank
    <3> QED BY <1>8 DEF Surjection
  <2>2. Cardinality({j \in D : j <= i}) = n
    BY <2>1
  <2>3. Nth(s, S, n) = CHOOSE k \in D : Cardinality({j \in D : j <= k}) = n
    BY DEF Nth
  <2>4. Nth(s, S, n) \in D /\ Cardinality({j \in D : j <= Nth(s, S, n)}) = n
    BY <2>1, <2>2, <2>3
  <2> QED BY <2>4
<1> HIDE DEF rank
<1>10. ASSUME NEW n \in 1..N, NEW m \in 1..N, n < m
       PROVE  Nth(s, S, n) < Nth(s, S, m)
  <2>1. PICK i, k \in D : /\ i = Nth(s, S, n) /\ k = Nth(s, S, m)
                          /\ rank[i] = n /\ rank[k] = m
    BY <1>9
  <2>2. k < i => rank[k] < rank[i]
    BY <1>6, <2>1
  <2>3. i \in Nat /\ k \in Nat /\ n \in Nat /\ m \in Nat
    BY <1>2, <1>4
  <2>4. ~ (k < i) /\ k # i
    BY <1>10, <2>1, <2>2, <2>3
  <2> QED BY <2>1, <2>3, <2>4
<1>11. \A i \in D : \E n \in 1..N : Nth(s, S, n) = i
  <2> TAKE i \in D
  <2>1. rank[i] \in 1..N
    BY <1>5
  <2>2. Nth(s, S, rank[i]) \in D /\ rank[Nth(s, S, rank[i])] = rank[i]
    BY <1>9, <2>1
  <2>3. Nth(s, S, rank[i]) = i
    BY <1>7, <2>2
  <2> QED BY <2>1, <2>3
<1> QED BY <1>4, <1>9, <1>10, <1>11

\* t is made of rows of s in their order, and has, behind one it has, all those in S.
Picks(t, s, S, h) ==
    /\ h \in [1..Len(t) -> 1..Len(s)]
    /\ \A k \in 1..Len(t) : t[k] = s[h[k]]
    /\ \A k, l \in 1..Len(t) : k < l => h[k] < h[l]
    /\ \A k \in 1..Len(t) : \A m \in 1..Len(s) :
          h[k] < m /\ s[m] \in S => \E l \in 1..Len(t) : h[l] = m

Inherits(t, s, S) == \E h : Picks(t, s, S, h)

LEMMA OnlyIs ==
    ASSUME NEW T, NEW s \in Seq(T), NEW S
    PROVE  /\ Only(s, S) \in Seq(T)
           /\ ToSet(Only(s, S)) = ToSet(s) \cap S
           /\ Inherits(Only(s, S), s, S)
<1> DEFINE N == Cardinality(Places(s, S))
<1> DEFINE h == [n \in 1..N |-> Nth(s, S, n)]
<1>1. /\ N \in Nat
      /\ \A n \in 1..N : h[n] \in Places(s, S)
      /\ \A n, m \in 1..N : n < m => h[n] < h[m]
      /\ \A i \in Places(s, S) : \E n \in 1..N : h[n] = i
    BY NthIs
<1>2. Len(s) \in Nat /\ DOMAIN s = 1..Len(s) /\ \A i \in 1..Len(s) : s[i] \in T
    BY LenProperties, ElementOfSeq
<1>3. PICK t : t = Only(s, S)
    OBVIOUS
<1>4. t = [n \in 1..N |-> s[h[n]]]
    BY <1>3 DEF Only
<1>5. \A i : i \in Places(s, S) <=> i \in 1..Len(s) /\ s[i] \in S
    BY <1>2 DEF Places
<1>6. h \in [1..N -> 1..Len(s)]
    BY <1>1, <1>5
<1>7. t \in Seq(T) /\ Len(t) = N /\ \A n \in 1..N : t[n] = s[h[n]] /\ t[n] \in S
  <2>1. \A n \in 1..N : s[h[n]] \in T /\ s[h[n]] \in S
    BY <1>1, <1>2, <1>5
  <2> HIDE DEF h, N
  <2>2. t \in [1..N -> T]
    BY <1>4, <2>1
  <2>3. t \in Seq(T) /\ Len(t) = N
    BY <1>1, <2>2
  <2> QED BY <1>4, <2>1, <2>3
<1> HIDE DEF h, N
<1>8. ToSet(t) = ToSet(s) \cap S
  <2>1. DOMAIN t = 1..N
    BY <1>4
  <2>2. ToSet(t) = {t[n] : n \in 1..N} /\ ToSet(s) = {s[i] : i \in 1..Len(s)}
    BY <1>2, <2>1 DEF ToSet
  <2>3. \A n \in 1..N : t[n] \in ToSet(s) /\ t[n] \in S
    BY <1>6, <1>7, <2>2
  <2>4. ASSUME NEW r \in ToSet(s) \cap S PROVE r \in ToSet(t)
    <3>1. PICK i \in 1..Len(s) : r = s[i]
      BY <2>2, <2>4
    <3>2. PICK n \in 1..N : h[n] = i
      BY <1>1, <1>5, <2>4, <3>1
    <3> QED BY <1>7, <2>2, <3>1, <3>2
  <2> QED BY <2>2, <2>3, <2>4
<1>9. Picks(t, s, S, h)
    BY <1>1, <1>5, <1>6, <1>7 DEF Picks
<1> QED BY <1>3, <1>7, <1>8, <1>9 DEF Inherits

\* The rows of a file that is appended to, or put together of two.
LEMMA RowsOf ==
    ASSUME NEW T, NEW s \in Seq(T), NEW t \in Seq(T), NEW e \in T
    PROVE  /\ ToSet(s) = {s[i] : i \in 1..Len(s)} /\ Len(s) \in Nat /\ ToSet(s) \subseteq T
           /\ Append(s, e) \in Seq(T) /\ ToSet(Append(s, e)) = ToSet(s) \cup {e}
           /\ s \o t \in Seq(T) /\ ToSet(s \o t) = ToSet(s) \cup ToSet(t)
<1>1. /\ Len(s) \in Nat /\ DOMAIN s = 1..Len(s) /\ Len(t) \in Nat /\ DOMAIN t = 1..Len(t)
      /\ \A i \in 1..Len(s) : s[i] \in T
    BY LenProperties, ElementOfSeq
<1>2. ToSet(s) = {s[i] : i \in 1..Len(s)} /\ ToSet(t) = {t[i] : i \in 1..Len(t)}
    BY <1>1 DEF ToSet
<1>3. Append(s, e) \in Seq(T) /\ ToSet(Append(s, e)) = ToSet(s) \cup {e}
  <2>1. PICK u : u = Append(s, e)
    OBVIOUS
  <2>2. /\ u \in Seq(T) /\ Len(u) = Len(s) + 1 /\ u[Len(s) + 1] = e
        /\ \A i \in 1..Len(s) : u[i] = s[i]
    BY <2>1, AppendProperties
  <2>3. DOMAIN u = 1..(Len(s) + 1)
    BY <2>2, LenProperties
  <2>4. \A i \in 1..(Len(s) + 1) : i \in 1..Len(s) \/ i = Len(s) + 1
    BY <1>1
  <2>5. 1..Len(s) \subseteq 1..(Len(s) + 1) /\ Len(s) + 1 \in 1..(Len(s) + 1)
    BY <1>1
  <2>6. ToSet(u) = {u[i] : i \in 1..(Len(s) + 1)}
    BY <2>3 DEF ToSet
  <2>7. \A i \in 1..(Len(s) + 1) : u[i] \in ToSet(s) \cup {e}
    BY <1>2, <2>2, <2>4
  <2>8. \A i \in 1..Len(s) : s[i] \in ToSet(u)
    BY <2>2, <2>5, <2>6
  <2>9. e \in ToSet(u)
    BY <2>2, <2>5, <2>6
  <2> QED BY <1>2, <2>1, <2>2, <2>6, <2>7, <2>8, <2>9
<1>4. s \o t \in Seq(T) /\ ToSet(s \o t) = ToSet(s) \cup ToSet(t)
  <2>1. PICK u : u = s \o t
    OBVIOUS
  <2>2. /\ u \in Seq(T) /\ Len(u) = Len(s) + Len(t)
        /\ \A i \in 1..(Len(s) + Len(t)) : u[i] = IF i <= Len(s) THEN s[i] ELSE t[i - Len(s)]
    BY <2>1, ConcatProperties
  <2>3. ToSet(u) = {u[i] : i \in 1..(Len(s) + Len(t))}
    BY <2>2, LenProperties DEF ToSet
  <2>4. \A i \in 1..(Len(s) + Len(t)) : u[i] \in ToSet(s) \cup ToSet(t)
    <3> TAKE i \in 1..(Len(s) + Len(t))
    <3>1. CASE i <= Len(s)
      BY <1>1, <1>2, <2>2, <3>1
    <3>2. CASE ~ (i <= Len(s))
      <4>1. i - Len(s) \in 1..Len(t)
        BY <1>1, <3>2
      <4> QED BY <1>2, <2>2, <3>2, <4>1
    <3> QED BY <3>1, <3>2
  <2>5. \A i \in 1..Len(s) : s[i] \in ToSet(u)
    <3> TAKE i \in 1..Len(s)
    <3>1. i \in 1..(Len(s) + Len(t)) /\ i <= Len(s)
      BY <1>1
    <3> QED BY <2>2, <2>3, <3>1
  <2>6. \A i \in 1..Len(t) : t[i] \in ToSet(u)
    <3> TAKE i \in 1..Len(t)
    <3>1. Len(s) + i \in 1..(Len(s) + Len(t)) /\ ~ (Len(s) + i <= Len(s))
          /\ Len(s) + i - Len(s) = i
      BY <1>1
    <3>2. u[Len(s) + i] = t[Len(s) + i - Len(s)]
      BY <2>2, <3>1
    <3> QED BY <2>3, <3>1, <3>2
  <2>7. ToSet(s) \subseteq ToSet(u) /\ ToSet(t) \subseteq ToSet(u)
    BY <1>2, <2>5, <2>6
  <2>8. ToSet(u) \subseteq ToSet(s) \cup ToSet(t)
    BY <2>3, <2>4
  <2> QED BY <2>1, <2>2, <2>7, <2>8
<1> QED BY <1>1, <1>2, <1>3, <1>4

LEMMA NewestIs ==
    ASSUME NEW T, NEW s \in Seq(T), Len(s) > MaxRows
    PROVE  /\ Newest(s) \in Seq(T) /\ Len(Newest(s)) = KeepRows
           /\ KeepRows \in Nat /\ KeepRows <= Len(s)
           /\ \A i \in 1..KeepRows : Newest(s)[i] = s[Len(s) - KeepRows + i]
<1>1. Len(s) \in Nat /\ KeepRows \in Nat /\ KeepRows <= Len(s)
    BY LenProperties, LimitsAssumption
<1> DEFINE m == Len(s) - KeepRows + 1
<1> DEFINE n == Len(s)
<1>2. m \in Int /\ n \in Int /\ \A i \in m..n : i \in 1..n
    BY <1>1
<1>3. \A i \in m..n : s[i] \in T
    BY <1>2, ElementOfSeq
<1>4. n - m + 1 = KeepRows /\ (IF m <= n THEN n - m + 1 ELSE 0) = KeepRows
      /\ \A i \in 1..KeepRows : m + i - 1 = Len(s) - KeepRows + i
    BY <1>1
<1>5. Newest(s) = SubSeq(s, m, n)
    BY DEF Newest
<1> HIDE DEF m, n
<1>6. /\ SubSeq(s, m, n) \in Seq(T)
      /\ Len(SubSeq(s, m, n)) = IF m <= n THEN n - m + 1 ELSE 0
      /\ \A i \in 1..(n - m + 1) : SubSeq(s, m, n)[i] = s[m + i - 1]
    BY <1>2, <1>3, SubSeqProperties
<1> QED BY <1>1, <1>4, <1>5, <1>6

\* A trim keeps the end of the file, without torn lines.
LEMMA KeptIs ==
    ASSUME NEW T, NEW s \in Seq(T), Len(s) > MaxRows
    PROVE  /\ Kept(s) \in Seq(T)
           /\ ToSet(Kept(s)) \subseteq ToSet(s)
           /\ Inherits(Kept(s), s, Json(s))
<1>1. PICK u : u = Newest(s)
    OBVIOUS
<1>2. PICK t : t = Kept(s)
    OBVIOUS
<1>3. /\ u \in Seq(T) /\ Len(u) = KeepRows /\ KeepRows \in Nat /\ KeepRows <= Len(s)
      /\ \A i \in 1..KeepRows : u[i] = s[Len(s) - KeepRows + i]
    BY <1>1, NewestIs
<1>4. PICK J : J = Json(s)
    OBVIOUS
<1>5. t \in Seq(T) /\ ToSet(t) = ToSet(u) \cap J /\ Inherits(t, u, J)
  <2>1. t = Only(u, J)
    BY <1>1, <1>2, <1>4 DEF Kept
  <2> QED BY <1>3, <2>1, OnlyIs
<1>6. Len(s) \in Nat /\ DOMAIN s = 1..Len(s) /\ DOMAIN u = 1..KeepRows
    BY <1>3, LenProperties
<1>11. Len(s) - KeepRows \in Nat
    BY <1>3, <1>6
<1>7. PICK off \in Nat : off = Len(s) - KeepRows
    BY <1>11
<1>8. \A i \in 1..KeepRows : off + i \in 1..Len(s) /\ u[i] = s[off + i]
  <2> TAKE i \in 1..KeepRows
  <2>1. off + i \in 1..Len(s)
    BY <1>3, <1>6, <1>7
  <2>2. u[i] = s[Len(s) - KeepRows + i]
    BY <1>3
  <2> QED BY <1>7, <2>1, <2>2
<1>9. ToSet(t) \subseteq ToSet(s)
  <2>1. ToSet(u) \subseteq ToSet(s)
    BY <1>6, <1>8 DEF ToSet
  <2> QED BY <1>5, <2>1
<1>10. Inherits(t, s, J)
  <2>1. PICK g : Picks(t, u, J, g)
    BY <1>5 DEF Inherits
  <2>2. /\ g \in [1..Len(t) -> 1..KeepRows]
        /\ \A k \in 1..Len(t) : t[k] = u[g[k]]
        /\ \A k, l \in 1..Len(t) : k < l => g[k] < g[l]
        /\ \A k \in 1..Len(t) : \A m \in 1..KeepRows :
              g[k] < m /\ u[m] \in J => \E l \in 1..Len(t) : g[l] = m
    BY <1>3, <2>1 DEF Picks
  <2>3. PICK h : h = [k \in 1..Len(t) |-> off + g[k]]
    OBVIOUS
  <2>4. \A k \in 1..Len(t) : g[k] \in 1..KeepRows /\ g[k] \in Nat /\ h[k] = off + g[k]
    BY <1>3, <2>2, <2>3
  <2>5. h \in [1..Len(t) -> 1..Len(s)]
    BY <1>8, <2>3, <2>4
  <2>6. \A k \in 1..Len(t) : t[k] = s[h[k]]
    BY <1>8, <2>2, <2>4, ZenonT(30)
  <2>7. \A k, l \in 1..Len(t) : k < l => h[k] < h[l]
    <3> TAKE k, l \in 1..Len(t)
    <3>1. k < l => g[k] < g[l]
      BY <2>2
    <3> QED BY <1>7, <2>4, <3>1
  <2>8. ASSUME NEW k \in 1..Len(t), NEW m \in 1..Len(s), h[k] < m, s[m] \in J
        PROVE  \E l \in 1..Len(t) : h[l] = m
    <3>1. PICK i \in 1..KeepRows : i = m - off /\ m = off + i /\ g[k] < i
      <4>1. g[k] \in Nat /\ g[k] >= 1 /\ h[k] = off + g[k] /\ m \in Nat
        BY <1>3, <1>6, <2>4
      <4>2. m - off \in 1..KeepRows /\ m = off + (m - off) /\ g[k] < m - off
        BY <1>3, <1>6, <1>7, <2>8, <4>1
      <4> QED BY <4>2
    <3>2. u[i] = s[m]
      BY <1>8, <3>1
    <3>3. PICK l \in 1..Len(t) : g[l] = i
      BY <2>2, <2>8, <3>1, <3>2
    <3> QED BY <2>4, <3>1, <3>3
  <2>9. Picks(t, s, J, h)
    BY <2>5, <2>6, <2>7, <2>8 DEF Picks
  <2> QED BY <2>9 DEF Inherits
<1> QED BY <1>2, <1>4, <1>5, <1>9, <1>10

-----------------------------------------------------------------------------
(* Types *)

Locked == {"trim", "replace", "rewrite"}

Upto(w) == [n : 1..w, id : Ids, kind : Kinds \cup Damages]

Tombs(w) == [n : 1..w, id : Ids, kind : {"tombstone"}]

Calls(w) == [id : Ids \cup {0}, kind : Bodies, rows : Seq(Upto(w)), lost : SUBSET (1..w),
             n : 0..w]

FileInv ==
    /\ writes \in 0..MaxWrites /\ pulls \in 0..MaxPulls /\ aborts \in 0..MaxAborts
    /\ log \in Seq(Upto(writes)) /\ peer \in Seq(Upto(writes))
    /\ open \in BOOLEAN
    /\ open => Len(log) # 0 /\ log[Len(log)].kind \in Damages
    /\ acked \subseteq 1..writes /\ glued \subseteq 1..writes /\ cut \subseteq 1..writes
    /\ wiped \subseteq 1..writes /\ pulled \subseteq 1..writes
    /\ forgotten \subseteq Tombs(writes)
    /\ said \in [Ids -> Bodies \cup {"none"}]

CallInv ==
    /\ lock \in Procs \cup {NoProc}
    /\ pc \in [Procs -> {"idle", "append"} \cup Locked]
    /\ op \in [Procs -> Calls(writes)]
    /\ \A p \in Procs : pc[p] \in Locked <=> lock = p
    /\ \A p \in Procs : pc[p] \in {"append", "rewrite"} => op[p].id \in Ids
    /\ \A p \in Procs : pc[p] \in {"trim", "replace"} => op[p].n \in 1..writes
    /\ \A p \in Procs : pc[p] = "rewrite" => writes < MaxWrites

Basic == FileInv /\ CallInv

LEMMA TypesGrow ==
    ASSUME NEW v \in Nat, NEW w \in Nat, v <= w
    PROVE  /\ 1..v \subseteq 1..w /\ Upto(v) \subseteq Upto(w) /\ Tombs(v) \subseteq Tombs(w)
           /\ Seq(Upto(v)) \subseteq Seq(Upto(w)) /\ Calls(v) \subseteq Calls(w)
<1>1. 1..v \subseteq 1..w /\ 0..v \subseteq 0..w
    OBVIOUS
<1>2. Upto(v) \subseteq Upto(w) /\ Tombs(v) \subseteq Tombs(w)
    BY <1>1 DEF Upto, Tombs
<1>3. Seq(Upto(v)) \subseteq Seq(Upto(w))
  <2> SUFFICES ASSUME NEW s \in Seq(Upto(v)) PROVE s \in Seq(Upto(w))
    OBVIOUS
  <2> QED BY <1>2
<1>4. Calls(v) \subseteq Calls(w)
  <2> SUFFICES ASSUME NEW c \in Calls(v) PROVE c \in Calls(w)
    OBVIOUS
  <2> QED BY <1>1, <1>3 DEF Calls
<1> QED BY <1>1, <1>2, <1>3, <1>4

LEMMA NoOpTyped ==
    ASSUME NEW w \in Nat
    PROVE  NoOp \in Calls(w)
<1>1. <<>> \in Seq(Upto(w)) /\ {} \in SUBSET (1..w) /\ 0 \in 0..w
    BY EmptySeq
<1> QED BY <1>1 DEF NoOp, Calls, Bodies

\* A process moves on to a stage, with or without the lock.
LEMMA CallStep ==
    ASSUME CallInv, NEW p \in Procs, NEW stage, stage \in {"idle", "append"} \cup Locked,
           writes \in Nat, writes' \in Nat, writes <= writes',
           NEW c \in Calls(writes'),
           pc' = [pc EXCEPT ![p] = stage], op' = [op EXCEPT ![p] = c],
           writes # writes' => lock \in {NoProc, p},
           stage \in Locked => lock \in {NoProc, p} /\ lock' = p,
           stage \notin Locked => lock' = IF lock = p THEN NoProc ELSE lock,
           stage \in {"append", "rewrite"} => c.id \in Ids,
           stage \in {"trim", "replace"} => c.n \in 1..writes',
           stage = "rewrite" => writes' < MaxWrites
    PROVE  CallInv'
<1>1. pc'[p] = stage /\ op'[p] = c
    BY DEF CallInv
<1>2. \A q \in Procs : q # p => pc'[q] = pc[q] /\ op'[q] = op[q]
    BY DEF CallInv
<1>3. Calls(writes) \subseteq Calls(writes') /\ 1..writes \subseteq 1..writes'
    BY TypesGrow
<1>4. lock' \in Procs \cup {NoProc}
    BY DEF CallInv
<1>5. pc' \in [Procs -> {"idle", "append"} \cup Locked]
    BY DEF CallInv
<1>6. op' \in [Procs -> Calls(writes')]
  <2>1. op \in [Procs -> Calls(writes')]
    BY <1>3 DEF CallInv
  <2> QED BY <2>1
<1>7. \A q \in Procs : pc'[q] \in Locked <=> lock' = q
  <2> TAKE q \in Procs
  <2>1. CASE q = p
    BY <1>1, <2>1, MarkersAssumption
  <2>2. CASE q # p
    <3>1. lock' = q <=> lock = q
      BY <2>2, MarkersAssumption
    <3> QED BY <1>2, <2>2, <3>1 DEF CallInv
  <2> QED BY <2>1, <2>2
<1>8. \A q \in Procs : pc'[q] \in {"append", "rewrite"} => op'[q].id \in Ids
    BY <1>1, <1>2 DEF CallInv
<1>9. \A q \in Procs : pc'[q] \in {"trim", "replace"} => op'[q].n \in 1..writes'
  <2> TAKE q \in Procs
  <2>1. CASE q = p
    BY <1>1, <2>1
  <2>2. CASE q # p
    BY <1>2, <1>3, <2>2 DEF CallInv
  <2> QED BY <2>1, <2>2
<1>10. \A q \in Procs : pc'[q] = "rewrite" => writes' < MaxWrites
  <2> TAKE q \in Procs
  <2>1. CASE q = p
    BY <1>1, <2>1
  <2>2. CASE q # p
    <3>1. pc[q] = "rewrite" => lock = q /\ writes < MaxWrites
      BY DEF CallInv, Locked
    <3> QED BY <1>2, <2>2, <3>1, MarkersAssumption
  <2> QED BY <2>1, <2>2
<1> QED BY <1>4, <1>5, <1>6, <1>7, <1>8, <1>9, <1>10 DEF CallInv

\* What is written is of the newest number.
LEMMA NewRowIs ==
    ASSUME Basic, NEW p \in Procs, pc[p] \in {"append", "rewrite"}, writes < MaxWrites,
           NEW kind \in Kinds \cup Damages
    PROVE  /\ writes \in Nat /\ writes + 1 \in Nat /\ writes + 1 \in 0..MaxWrites
           /\ writes <= writes + 1 /\ writes + 1 \in 1..(writes + 1)
           /\ op[p].id \in Ids
           /\ NewRow(p, kind) \in Upto(writes + 1)
           /\ NewRow(p, kind).n = writes + 1 /\ NewRow(p, kind).id = op[p].id
           /\ NewRow(p, kind).kind = kind
           /\ kind = "tombstone" => NewRow(p, kind) \in Tombs(writes + 1)
<1>1. writes \in 0..MaxWrites /\ MaxWrites \in Nat /\ op[p].id \in Ids
    BY LimitsAssumption DEF Basic, FileInv, CallInv
<1>2. writes \in Nat /\ writes + 1 \in Nat /\ writes + 1 \in 0..MaxWrites
      /\ writes <= writes + 1 /\ writes + 1 \in 1..(writes + 1)
    BY <1>1
<1> QED BY <1>1, <1>2 DEF NewRow, Upto, Tombs

\* The types of the history and of the other clone's copy survive a write.
LEMMA HistoryGrows ==
    ASSUME FileInv, NEW w \in Nat, writes <= w
    PROVE  /\ log \in Seq(Upto(w)) /\ peer \in Seq(Upto(w))
           /\ acked \subseteq 1..w /\ glued \subseteq 1..w /\ cut \subseteq 1..w
           /\ wiped \subseteq 1..w /\ pulled \subseteq 1..w
           /\ forgotten \subseteq Tombs(w)
           /\ writes \in Nat
<1>1. writes \in Nat
    BY LimitsAssumption DEF FileInv
<1>2. 1..writes \subseteq 1..w /\ Tombs(writes) \subseteq Tombs(w)
      /\ Seq(Upto(writes)) \subseteq Seq(Upto(w))
    BY <1>1, TypesGrow
<1> QED BY <1>1, <1>2 DEF FileInv

LEMMA CallOf ==
    ASSUME Basic, NEW p \in Procs
    PROVE  /\ op[p] \in Calls(writes) /\ writes \in Nat
           /\ op[p].rows \in Seq(Upto(writes)) /\ op[p].lost \subseteq 1..writes
           /\ op[p].n \in 0..writes /\ op[p].kind \in Bodies
BY LimitsAssumption DEF Basic, FileInv, CallInv, Calls

LEMMA SerialsOf ==
    ASSUME NEW w \in Nat, NEW s \in Seq(Upto(w))
    PROVE  /\ Serials(s) \subseteq 1..w
           /\ \A r \in ToSet(s) : r \in Upto(w) /\ r.n \in 1..w /\ r.n \in Serials(s)
<1>1. ToSet(s) \subseteq Upto(w)
  <2>1. DOMAIN s = 1..Len(s) /\ \A i \in 1..Len(s) : s[i] \in Upto(w)
    BY LenProperties, ElementOfSeq
  <2> QED BY <2>1 DEF ToSet
<1> QED BY <1>1 DEF Serials, Upto

LEMMA AppendReadBasic ==
    ASSUME Basic, NEW p \in Procs, AppendRead(p)
    PROVE  Basic'
<1>1. PICK i \in Ids, k \in Bodies : op' = [op EXCEPT ![p] = [NoOp EXCEPT !.id = i, !.kind = k]]
    BY DEF AppendRead
<1>2. PICK c : c = [NoOp EXCEPT !.id = i, !.kind = k]
    OBVIOUS
<1>3. c \in Calls(writes) /\ c.id = i
  <2>1. NoOp \in Calls(writes)
    BY NoOpTyped, LimitsAssumption DEF Basic, FileInv
  <2> QED BY <1>2, <2>1 DEF Calls
<1>4. FileInv'
    BY DEF Basic, FileInv, AppendRead, history
<1>5. CallInv'
  <2>1. writes' = writes /\ lock' = lock /\ pc[p] = "idle"
        /\ pc' = [pc EXCEPT ![p] = "append"] /\ op' = [op EXCEPT ![p] = c]
    BY <1>1, <1>2 DEF AppendRead
  <2>2. writes \in Nat /\ writes' \in Nat /\ writes <= writes'
    BY <2>1, LimitsAssumption DEF Basic, FileInv
  <2>3. "append" \notin Locked /\ "append" \notin {"trim", "replace"} /\ c \in Calls(writes')
    BY <1>3, <2>1 DEF Locked
  <2>4. lock # p
    BY <2>1 DEF Basic, CallInv, Locked
  <2> QED BY <1>3, <2>1, <2>2, <2>3, <2>4, CallStep DEF Basic
<1> QED BY <1>4, <1>5 DEF Basic

\* The holder of the lock is done, or somebody without it.
LEMMA LeaveBasic ==
    ASSUME Basic, NEW p \in Procs, Leave(p), writes' \in Nat, writes <= writes',
           lock' = IF lock = p THEN NoProc ELSE lock,
           writes # writes' => lock \in {NoProc, p}
    PROVE  CallInv'
<1>1. NoOp \in Calls(writes') /\ "idle" \notin Locked /\ writes \in Nat
    BY NoOpTyped, LimitsAssumption DEF Locked, Basic, FileInv
<1>2. pc' = [pc EXCEPT ![p] = "idle"] /\ op' = [op EXCEPT ![p] = NoOp]
    BY DEF Leave
<1> QED BY <1>1, <1>2, CallStep DEF Basic

LEMMA AppendWriteBasic ==
    ASSUME Basic, NEW p \in Procs, AppendWrite(p)
    PROVE  Basic'
<1>1. /\ pc[p] = "append" /\ writes < MaxWrites /\ lock = NoProc /\ lock' = p
      /\ writes' = writes + 1 /\ open' = FALSE
      /\ op' = [op EXCEPT ![p].n = writes + 1] /\ pc' = [pc EXCEPT ![p] = "trim"]
      /\ UNCHANGED <<peer, acked, cut, wiped, forgotten, pulled, pulls, aborts>>
    BY DEF AppendWrite, Acquire
<1>2. op[p].kind \in Bodies /\ op[p].kind \in Kinds \cup Damages
    BY CallOf DEF Kinds
<1>3. /\ writes \in Nat /\ writes + 1 \in Nat /\ writes + 1 \in 0..MaxWrites
      /\ writes <= writes + 1 /\ writes + 1 \in 1..(writes + 1)
      /\ op[p].id \in Ids
      /\ NewRow(p, op[p].kind) \in Upto(writes + 1)
    BY <1>1, <1>2, NewRowIs
<1>4. FileInv'
  <2>1. /\ log \in Seq(Upto(writes + 1)) /\ peer \in Seq(Upto(writes + 1))
        /\ acked \subseteq 1..(writes + 1) /\ glued \subseteq 1..(writes + 1)
        /\ cut \subseteq 1..(writes + 1)
        /\ wiped \subseteq 1..(writes + 1) /\ pulled \subseteq 1..(writes + 1)
        /\ forgotten \subseteq Tombs(writes + 1)
    BY <1>3, HistoryGrows DEF Basic
  <2>2. log' \in Seq(Upto(writes + 1)) /\ glued' \subseteq 1..(writes + 1)
        /\ said' \in [Ids -> Bodies \cup {"none"}]
    <3>1. CASE open
      BY <1>3, <2>1, <3>1 DEF AppendWrite, Basic, FileInv
    <3>2. CASE ~ open
      <4>1. log' = Append(log, NewRow(p, op[p].kind)) /\ glued' = glued
            /\ said' = [said EXCEPT ![op[p].id] = op[p].kind]
        BY <3>2 DEF AppendWrite
      <4>2. log' \in Seq(Upto(writes + 1))
        BY <1>3, <2>1, <4>1, AppendProperties
      <4> QED BY <1>2, <1>3, <2>1, <4>1, <4>2 DEF Basic, FileInv
    <3> QED BY <3>1, <3>2
  <2> QED BY <1>1, <1>3, <2>1, <2>2 DEF Basic, FileInv
<1>5. CallInv'
  <2>1. PICK c : c = [op[p] EXCEPT !.n = writes + 1]
    OBVIOUS
  <2>2. op[p] \in Calls(writes + 1)
    BY <1>3, CallOf, TypesGrow
  <2>3. c \in Calls(writes') /\ c.n = writes + 1 /\ "trim" \in Locked
    BY <1>1, <1>3, <2>1, <2>2 DEF Calls, Locked
  <2>4. op' = [op EXCEPT ![p] = c]
    BY <1>1, <2>1
  <2> QED BY <1>1, <1>3, <2>3, <2>4, CallStep DEF Basic
<1> QED BY <1>4, <1>5 DEF Basic

\* The last line is cut short once more, or a new one is.
LEMMA TornIs ==
    ASSUME Basic, NEW p \in Procs, AppendTorn(p)
    PROVE  \E k \in Damages :
             \/ /\ ~ open /\ log' = Append(log, NewRow(p, k)) /\ NewRow(p, k) \in Upto(writes + 1)
                /\ NewRow(p, k).n = writes + 1 /\ NewRow(p, k).kind = k
             \/ /\ open /\ Len(log) \in Nat \ {0} /\ log[Len(log)].kind \in Damages
                /\ \E e \in Upto(writes) :
                     /\ e.kind \in Damages /\ e.n = log[Len(log)].n /\ e.id = log[Len(log)].id
                     /\ log' = [log EXCEPT ![Len(log)] = e]
<1>1. PICK k \in Damages :
        log' = IF open
               THEN [log EXCEPT ![Len(log)].kind = IF k = "mangled" THEN k ELSE @]
               ELSE Append(log, NewRow(p, k))
    BY DEF AppendTorn
<1>2. pc[p] = "append" /\ writes < MaxWrites
    BY DEF AppendTorn
<1>3. CASE ~ open
  <2>1. k \in Kinds \cup Damages
    OBVIOUS
  <2>2. NewRow(p, k) \in Upto(writes + 1) /\ NewRow(p, k).n = writes + 1 /\ NewRow(p, k).kind = k
    BY <1>2, <2>1, NewRowIs
  <2> QED BY <1>1, <1>3, <2>2
<1>4. CASE open
  <2>1. log \in Seq(Upto(writes)) /\ Len(log) # 0 /\ log[Len(log)].kind \in Damages
    BY <1>4 DEF Basic, FileInv
  <2>2. Len(log) \in Nat \ {0} /\ Len(log) \in 1..Len(log)
    BY <2>1, LenProperties
  <2>3. PICK r \in Upto(writes) : r = log[Len(log)]
    BY <2>1, <2>2, ElementOfSeq
  <2>4. PICK e : e = [r EXCEPT !.kind = IF k = "mangled" THEN k ELSE r.kind]
    OBVIOUS
  <2>5. e \in Upto(writes) /\ e.kind \in Damages /\ e.n = r.n /\ e.id = r.id
    BY <2>1, <2>3, <2>4 DEF Upto
  <2>6. log' = [log EXCEPT ![Len(log)] = e]
    BY <1>1, <1>4, <2>3, <2>4
  <2> QED BY <1>4, <2>1, <2>2, <2>3, <2>5, <2>6
<1> QED BY <1>3, <1>4

\* One row of a file is replaced.
Swapped(t, s, i, e) ==
    /\ Len(t) = Len(s) /\ t[i] = e
    /\ \A j \in 1..Len(s) : j # i => t[j] = s[j]
    /\ \A r \in ToSet(t) : r \in ToSet(s) \/ r = e
    /\ \A r \in ToSet(s) : r \in ToSet(t) \/ r = s[i]
    /\ e \in ToSet(t)

LEMMA ReplacedIs ==
    ASSUME NEW T, NEW s \in Seq(T), NEW i \in 1..Len(s), NEW e \in T, NEW t,
           t = [s EXCEPT ![i] = e]
    PROVE  t \in Seq(T) /\ Swapped(t, s, i, e)
<1>1. Len(s) \in Nat /\ s \in [1..Len(s) -> T] /\ DOMAIN s = 1..Len(s)
    BY LenProperties
<1>2. t \in [1..Len(s) -> T] /\ DOMAIN t = 1..Len(s)
    BY <1>1
<1>3. t \in Seq(T) /\ Len(t) = Len(s)
    BY <1>1, <1>2
<1>4. t[i] = e /\ \A j \in 1..Len(s) : j # i => t[j] = s[j]
    BY <1>1
<1>5. ToSet(t) = {t[j] : j \in 1..Len(s)} /\ ToSet(s) = {s[j] : j \in 1..Len(s)}
    BY <1>1, <1>2 DEF ToSet
<1> QED BY <1>3, <1>4, <1>5 DEF Swapped

LEMMA AppendTornBasic ==
    ASSUME Basic, NEW p \in Procs, AppendTorn(p)
    PROVE  Basic'
<1>1. /\ pc[p] = "append" /\ writes < MaxWrites /\ lock = NoProc /\ lock' = lock
      /\ writes' = writes + 1 /\ open' = TRUE /\ aborts < MaxAborts /\ aborts' = aborts + 1
      /\ Leave(p) /\ UNCHANGED <<peer, history, pulls>>
    BY DEF AppendTorn
<1>2. /\ writes \in Nat /\ writes + 1 \in Nat /\ writes + 1 \in 0..MaxWrites
      /\ writes <= writes + 1 /\ MaxAborts \in Nat /\ aborts \in 0..MaxAborts
    BY <1>1, LimitsAssumption DEF Basic, FileInv
<1>3. /\ log \in Seq(Upto(writes + 1)) /\ peer \in Seq(Upto(writes + 1))
      /\ acked \subseteq 1..(writes + 1) /\ glued \subseteq 1..(writes + 1)
      /\ cut \subseteq 1..(writes + 1)
      /\ wiped \subseteq 1..(writes + 1) /\ pulled \subseteq 1..(writes + 1)
      /\ forgotten \subseteq Tombs(writes + 1)
    BY <1>2, HistoryGrows DEF Basic
<1>4. log' \in Seq(Upto(writes + 1)) /\ Len(log') # 0 /\ log'[Len(log')].kind \in Damages
  <2>1. PICK k \in Damages :
             \/ /\ ~ open /\ log' = Append(log, NewRow(p, k)) /\ NewRow(p, k) \in Upto(writes + 1)
                /\ NewRow(p, k).kind = k
             \/ /\ open /\ Len(log) \in Nat \ {0}
                /\ \E e \in Upto(writes) :
                     e.kind \in Damages /\ log' = [log EXCEPT ![Len(log)] = e]
    BY TornIs
  <2>2. CASE ~ open
    <3>1. PICK e \in Upto(writes + 1) : e.kind \in Damages /\ log' = Append(log, e)
      BY <2>1, <2>2
    <3>2. Len(log) \in Nat
      BY <1>3, LenProperties
    <3> QED BY <1>3, <3>1, <3>2, AppendProperties
  <2>3. CASE open
    <3>1. PICK e \in Upto(writes) : e.kind \in Damages /\ log' = [log EXCEPT ![Len(log)] = e]
      BY <2>1, <2>3
    <3>2. e \in Upto(writes + 1) /\ Len(log) \in 1..Len(log) /\ Len(log) # 0
      BY <1>2, <2>1, <2>3, TypesGrow
    <3>3. log' \in Seq(Upto(writes + 1)) /\ Len(log') = Len(log) /\ log'[Len(log)] = e
      BY <1>3, <3>1, <3>2, ReplacedIs DEF Swapped
    <3> QED BY <3>1, <3>2, <3>3
  <2> QED BY <2>2, <2>3
<1>5. FileInv'
    BY <1>1, <1>2, <1>3, <1>4 DEF Basic, FileInv, history
<1>6. CallInv'
  <2>1. lock # p
    BY <1>1, MarkersAssumption
  <2> QED BY <1>1, <1>2, <2>1, LeaveBasic
<1> QED BY <1>5, <1>6 DEF Basic

\* The holder of the lock, in one of the stages of an append or a forget.
LEMMA HolderIs ==
    ASSUME Basic, NEW p \in Procs, pc[p] \in Locked
    PROVE  lock = p /\ \A q \in Procs : q # p => pc[q] \notin Locked
BY DEF Basic, CallInv

LEMMA ReleaseBasic ==
    ASSUME Basic, NEW p \in Procs, lock = p, Release(p), writes' \in Nat, writes <= writes'
    PROVE  CallInv'
<1>1. lock' = NoProc /\ Leave(p)
    BY DEF Release
<1> QED BY <1>1, LeaveBasic

LEMMA TrimEndsBasic ==
    ASSUME Basic, NEW p \in Procs, TrimNone(p) \/ TrimFails(p) \/ TrimReplace(p)
    PROVE  Basic'
<1>1. /\ pc[p] \in {"trim", "replace"} /\ Release(p) /\ writes' = writes
      /\ acked' \in {acked, acked \cup {op[p].n}}
      /\ UNCHANGED <<peer, glued, wiped, forgotten, said, pulled, pulls, aborts>>
    BY DEF TrimNone, TrimFails, TrimReplace, Acknowledge, history
<1>2. /\ log' \in {log, op[p].rows} /\ open' \in {open, FALSE}
      /\ log' = log \/ open' = FALSE
      /\ cut' \in {cut, cut \cup op[p].lost}
    BY DEF TrimNone, TrimFails, TrimReplace, history
<1>3. writes \in Nat /\ op[p].n \in 1..writes /\ op[p].lost \subseteq 1..writes
      /\ op[p].rows \in Seq(Upto(writes))
    BY <1>1, CallOf DEF Basic, CallInv
<1>4. lock = p
    BY <1>1, HolderIs DEF Locked
<1>5. FileInv'
  <2>1. acked' \subseteq 1..writes /\ cut' \subseteq 1..writes /\ log' \in Seq(Upto(writes))
    BY <1>1, <1>2, <1>3 DEF Basic, FileInv
  <2>2. open' => Len(log') # 0 /\ log'[Len(log')].kind \in Damages
    BY <1>2 DEF Basic, FileInv
  <2>3. open' \in BOOLEAN
    BY <1>2 DEF Basic, FileInv
  <2> QED BY <1>1, <2>1, <2>2, <2>3 DEF Basic, FileInv
<1>6. CallInv'
    BY <1>1, <1>3, <1>4, ReleaseBasic
<1> QED BY <1>5, <1>6 DEF Basic

LEMMA DieBasic ==
    ASSUME Basic, NEW p \in Procs, Die(p)
    PROVE  Basic'
<1>1. /\ lock = p /\ Release(p) /\ writes' = writes /\ aborts' = aborts + 1 /\ aborts < MaxAborts
      /\ UNCHANGED <<log, open, peer, history, pulls>>
    BY DEF Die
<1>2. writes \in Nat /\ aborts + 1 \in 0..MaxAborts
    BY <1>1, LimitsAssumption DEF Basic, FileInv
<1>3. FileInv'
    BY <1>1, <1>2 DEF Basic, FileInv, history
<1>4. CallInv'
    BY <1>1, <1>2, ReleaseBasic
<1> QED BY <1>3, <1>4 DEF Basic

\* What a trim and a forget carry from their read to their write.
LEMMA TrimReadIs ==
    ASSUME Basic, NEW p \in Procs, TrimRead(p), NEW kept, kept = Kept(log)
    PROVE  \E c \in Calls(writes) :
             /\ c.id = op[p].id /\ c.n = op[p].n
             /\ c.rows = kept /\ c.lost = Serials(log) \ Serials(kept)
             /\ op' = [op EXCEPT ![p] = c]
             /\ kept \in Seq(Upto(writes)) /\ ToSet(kept) \subseteq ToSet(log)
             /\ Inherits(kept, log, Json(log))
<1>1. /\ Len(log) > MaxRows
      /\ op' = [op EXCEPT ![p].rows = kept, ![p].lost = Serials(log) \ Serials(kept)]
    BY DEF TrimRead
<1>2. writes \in Nat /\ log \in Seq(Upto(writes)) /\ op[p] \in Calls(writes)
    BY CallOf DEF Basic, FileInv
<1>3. kept \in Seq(Upto(writes)) /\ ToSet(kept) \subseteq ToSet(log)
      /\ Inherits(kept, log, Json(log))
    BY <1>1, <1>2, KeptIs
<1>4. PICK lost : lost = Serials(log) \ Serials(kept)
    OBVIOUS
<1>5. lost \subseteq 1..writes
    BY <1>2, <1>4, SerialsOf
<1>6. PICK c : c = [op[p] EXCEPT !.rows = kept, !.lost = lost]
    OBVIOUS
<1>7. /\ c \in Calls(writes) /\ c.id = op[p].id /\ c.n = op[p].n
      /\ c.rows = kept /\ c.lost = lost
    BY <1>2, <1>3, <1>5, <1>6 DEF Calls
<1>8. op' = [op EXCEPT ![p] = c]
  <2>1. op \in [Procs -> Calls(writes)]
    BY DEF Basic, CallInv
  <2> QED BY <1>1, <1>4, <1>6, <2>1
<1> QED BY <1>3, <1>4, <1>7, <1>8

LEMMA TrimReadBasic ==
    ASSUME Basic, NEW p \in Procs, TrimRead(p)
    PROVE  Basic'
<1>1. /\ pc[p] = "trim" /\ pc' = [pc EXCEPT ![p] = "replace"] /\ lock' = lock
      /\ UNCHANGED <<log, open, peer, writes, history, pulls, aborts>>
    BY DEF TrimRead
<1>2. PICK c \in Calls(writes) : c.n = op[p].n /\ op' = [op EXCEPT ![p] = c]
    BY TrimReadIs
<1>3. writes \in Nat /\ op[p].n \in 1..writes /\ lock = p
    BY <1>1, CallOf, HolderIs DEF Basic, CallInv, Locked
<1>4. FileInv'
    BY <1>1 DEF Basic, FileInv, history
<1>5. CallInv'
  <2>1. "replace" \in Locked /\ "replace" \notin {"append", "rewrite"} /\ writes' = writes
        /\ writes <= writes
    BY <1>1, <1>3 DEF Locked
  <2> QED BY <1>1, <1>2, <1>3, <2>1, CallStep DEF Basic
<1> QED BY <1>4, <1>5 DEF Basic

LEMMA ForgetReadIs ==
    ASSUME Basic, NEW p \in Procs, ForgetRead(p)
    PROVE  \E i \in Ids : \E c \in Calls(writes) : \E kept \in Seq(Upto(writes)) :
             /\ c.id = i /\ c.rows = kept /\ c.lost = {r.n : r \in Victims(i)}
             /\ op' = [op EXCEPT ![p] = c]
             /\ kept = Only(log, ToSet(log) \ Victims(i))
             /\ ToSet(kept) = ToSet(log) \ Victims(i)
             /\ Inherits(kept, log, ToSet(log) \ Victims(i))
<1>1. PICK i \in Ids :
        op' = [op EXCEPT ![p] = [NoOp EXCEPT
                    !.id = i,
                    !.rows = Only(log, ToSet(log) \ Victims(i)),
                    !.lost = {r.n : r \in Victims(i)}]]
    BY DEF ForgetRead
<1>2. writes \in Nat /\ log \in Seq(Upto(writes))
    BY CallOf DEF Basic, FileInv
<1>3. PICK kept : kept = Only(log, ToSet(log) \ Victims(i))
    OBVIOUS
<1>4. kept \in Seq(Upto(writes)) /\ ToSet(kept) = ToSet(log) \ Victims(i)
      /\ Inherits(kept, log, ToSet(log) \ Victims(i))
  <2>1. PICK S : S = ToSet(log) \ Victims(i)
    OBVIOUS
  <2>2. kept \in Seq(Upto(writes)) /\ ToSet(kept) = ToSet(log) \cap S /\ Inherits(kept, log, S)
    BY <1>2, <1>3, <2>1, OnlyIs
  <2> QED BY <2>1, <2>2
<1>5. PICK lost : lost = {r.n : r \in Victims(i)}
    OBVIOUS
<1>6. lost \subseteq 1..writes
    BY <1>2, <1>5, SerialsOf DEF Victims
<1>7. PICK c : c = [NoOp EXCEPT !.id = i, !.rows = kept, !.lost = lost]
    OBVIOUS
<1>8. c \in Calls(writes) /\ c.id = i /\ c.rows = kept /\ c.lost = lost
  <2>1. NoOp \in Calls(writes)
    BY <1>2, NoOpTyped
  <2> QED BY <1>4, <1>6, <1>7, <2>1 DEF Calls
<1>9. op' = [op EXCEPT ![p] = c]
    BY <1>1, <1>3, <1>5, <1>7
<1> QED BY <1>3, <1>4, <1>5, <1>8, <1>9

LEMMA ForgetReadBasic ==
    ASSUME Basic, NEW p \in Procs, ForgetRead(p)
    PROVE  Basic'
<1>1. /\ writes < MaxWrites /\ lock = NoProc /\ lock' = p
      /\ pc' = [pc EXCEPT ![p] = "rewrite"]
      /\ UNCHANGED <<log, open, peer, writes, history, pulls, aborts>>
    BY DEF ForgetRead, Acquire
<1>2. PICK c \in Calls(writes) : c.id \in Ids /\ op' = [op EXCEPT ![p] = c]
    BY ForgetReadIs
<1>3. FileInv'
    BY <1>1 DEF Basic, FileInv, history
<1>4. CallInv'
  <2>1. "rewrite" \in Locked /\ "rewrite" \notin {"trim", "replace"} /\ writes' = writes
        /\ writes \in Nat /\ writes <= writes
    BY <1>1, CallOf DEF Locked
  <2> QED BY <1>1, <1>2, <2>1, CallStep DEF Basic
<1> QED BY <1>3, <1>4 DEF Basic

LEMMA ForgetRewriteIs ==
    ASSUME Basic, NEW p \in Procs, ForgetRewrite(p), NEW tomb, tomb = NewRow(p, "tombstone")
    PROVE  /\ pc[p] = "rewrite" /\ writes < MaxWrites /\ writes \in Nat /\ writes + 1 \in Nat
           /\ writes + 1 \in 0..MaxWrites /\ writes + 1 \in 1..(writes + 1) /\ writes <= writes + 1
           /\ writes' = writes + 1 /\ lock = p
           /\ tomb \in Upto(writes + 1) /\ tomb \in Tombs(writes + 1)
           /\ tomb.n = writes + 1 /\ tomb.id = op[p].id /\ tomb.kind = "tombstone"
           /\ op[p].rows \in Seq(Upto(writes)) /\ op[p].rows \in Seq(Upto(writes + 1))
           /\ log' = Append(op[p].rows, tomb) /\ forgotten' = forgotten \cup {tomb}
           /\ open' = FALSE /\ wiped' = wiped \cup op[p].lost /\ Release(p)
           /\ UNCHANGED <<peer, acked, glued, cut, said, pulled, pulls, aborts>>
<1>1. /\ pc[p] = "rewrite" /\ writes' = writes + 1
      /\ log' = Append(op[p].rows, tomb) /\ forgotten' = forgotten \cup {tomb}
      /\ open' = FALSE /\ wiped' = wiped \cup op[p].lost /\ Release(p)
      /\ UNCHANGED <<peer, acked, glued, cut, said, pulled, pulls, aborts>>
    BY DEF ForgetRewrite
<1>2. writes < MaxWrites /\ lock = p
    BY <1>1, HolderIs DEF Basic, CallInv, Locked
<1>3. /\ writes \in Nat /\ writes + 1 \in Nat /\ writes + 1 \in 0..MaxWrites
      /\ writes <= writes + 1 /\ writes + 1 \in 1..(writes + 1)
      /\ tomb \in Upto(writes + 1) /\ tomb.n = writes + 1 /\ tomb.id = op[p].id
      /\ tomb.kind = "tombstone" /\ tomb \in Tombs(writes + 1)
  <2>1. "tombstone" \in Kinds \cup Damages
    BY DEF Kinds
  <2> QED BY <1>1, <1>2, <2>1, NewRowIs
<1>4. op[p].rows \in Seq(Upto(writes)) /\ op[p].rows \in Seq(Upto(writes + 1))
    BY <1>3, CallOf, TypesGrow
<1> QED BY <1>1, <1>2, <1>3, <1>4

LEMMA ForgetRewriteBasic ==
    ASSUME Basic, NEW p \in Procs, ForgetRewrite(p)
    PROVE  Basic'
<1>1. PICK tomb : tomb = NewRow(p, "tombstone")
    OBVIOUS
<1>2. /\ pc[p] = "rewrite" /\ writes \in Nat /\ writes + 1 \in Nat
      /\ writes + 1 \in 0..MaxWrites /\ writes <= writes + 1
      /\ writes' = writes + 1 /\ lock = p
      /\ tomb \in Upto(writes + 1) /\ tomb \in Tombs(writes + 1)
      /\ op[p].rows \in Seq(Upto(writes + 1))
      /\ log' = Append(op[p].rows, tomb) /\ forgotten' = forgotten \cup {tomb}
      /\ open' = FALSE /\ wiped' = wiped \cup op[p].lost /\ Release(p)
      /\ UNCHANGED <<peer, acked, glued, cut, said, pulled, pulls, aborts>>
    BY <1>1, ForgetRewriteIs
<1>3. /\ peer \in Seq(Upto(writes + 1))
      /\ acked \subseteq 1..(writes + 1) /\ glued \subseteq 1..(writes + 1)
      /\ cut \subseteq 1..(writes + 1)
      /\ wiped \subseteq 1..(writes + 1) /\ pulled \subseteq 1..(writes + 1)
      /\ forgotten \subseteq Tombs(writes + 1)
    BY <1>2, HistoryGrows DEF Basic
<1>4. op[p].lost \subseteq 1..(writes + 1)
    BY <1>2, CallOf, TypesGrow
<1>5. log' \in Seq(Upto(writes + 1))
    BY <1>2, AppendProperties
<1>6. FileInv'
    BY <1>2, <1>3, <1>4, <1>5 DEF Basic, FileInv
<1>7. CallInv'
    BY <1>2, ReleaseBasic
<1> QED BY <1>6, <1>7 DEF Basic

\* The rows of two files, put together.
LEMMA MergedLines ==
    ASSUME NEW w \in Nat, NEW s \in Seq(Upto(w)), NEW t \in Seq(Upto(w))
    PROVE  ToSet(s \o t) = ToSet(s) \cup ToSet(t)
<1>1. CASE Upto(w) = {}
  <2>1. ToSet(s) = {} /\ ToSet(t) = {}
    BY <1>1, SerialsOf
  <2>2. Len(s) = 0 /\ Len(t) = 0
    <3>1. Len(s) \in Nat /\ DOMAIN s = 1..Len(s) /\ Len(t) \in Nat /\ DOMAIN t = 1..Len(t)
      BY LenProperties
    <3>2. 1 \notin 1..Len(s) /\ 1 \notin 1..Len(t)
      BY <2>1, <3>1 DEF ToSet
    <3> QED BY <3>1, <3>2
  <2>3. s = <<>> /\ t = <<>>
    BY <2>2, EmptySeq
  <2>4. <<>> \o <<>> = <<>>
    OBVIOUS
  <2> QED BY <2>1, <2>3, <2>4
<1>2. CASE Upto(w) # {}
  <2>1. PICK e : e \in Upto(w)
    BY <1>2
  <2> QED BY <2>1, RowsOf
<1> QED BY <1>1, <1>2

\* A merge puts rows of the other clone's copy above or below.
LEMMA MergeIs ==
    ASSUME Basic, UnionMerge
    PROVE  \E S \in SUBSET ToSet(peer) : \E back \in Seq(Upto(writes)) :
             /\ ToSet(back) = S /\ pulled' = pulled \cup {r.n : r \in S}
             /\ ToSet(log') = ToSet(log) \cup S
             /\ \/ log' = back \o log /\ open' = open
                \/ log' = log \o back /\ open' = FALSE
<1>1. PICK S \in SUBSET ToSet(peer) :
        /\ pulled' = pulled \cup {r.n : r \in S}
        /\ \/ log' = Only(peer, S) \o log /\ open' = open
           \/ log' = log \o Only(peer, S) /\ open' = FALSE
    BY DEF UnionMerge
<1>2. peer \in Seq(Upto(writes)) /\ log \in Seq(Upto(writes)) /\ writes \in Nat
    BY LimitsAssumption DEF Basic, FileInv
<1>3. PICK back : back = Only(peer, S)
    OBVIOUS
<1>4. back \in Seq(Upto(writes)) /\ ToSet(back) = ToSet(peer) \cap S
    BY <1>2, <1>3, OnlyIs
<1>5. ToSet(peer) \cap S = S
    OBVIOUS
<1>6. ToSet(log') = ToSet(log) \cup S
  <2>1. ToSet(back \o log) = ToSet(back) \cup ToSet(log)
    BY <1>2, <1>4, MergedLines
  <2>2. ToSet(log \o back) = ToSet(log) \cup ToSet(back)
    BY <1>2, <1>4, MergedLines
  <2> QED BY <1>1, <1>3, <1>4, <1>5, <2>1, <2>2
<1> QED BY <1>1, <1>3, <1>4, <1>5, <1>6

LEMMA GitBasic ==
    ASSUME Basic, PeerCopies \/ UnionMerge \/ UNCHANGED vars
    PROVE  Basic'
<1>1. UNCHANGED <<lock, pc, op, writes, acked, glued, cut, wiped, forgotten, said, aborts>>
    BY DEF PeerCopies, UnionMerge, vars, history
<1>2. CallInv'
    BY <1>1 DEF Basic, CallInv
<1>3. CASE PeerCopies \/ UNCHANGED vars
  <2>1. peer' \in {peer, log} /\ UNCHANGED <<log, open, pulled, pulls>>
    BY <1>3 DEF PeerCopies, vars, history
  <2>2. FileInv'
    BY <1>1, <2>1 DEF Basic, FileInv
  <2> QED BY <1>2, <2>2 DEF Basic
<1>4. CASE UnionMerge
  <2>1. PICK S \in SUBSET ToSet(peer), back \in Seq(Upto(writes)) :
             /\ ToSet(back) = S /\ pulled' = pulled \cup {r.n : r \in S}
             /\ \/ log' = back \o log /\ open' = open
                \/ log' = log \o back /\ open' = FALSE
    BY <1>4, MergeIs
  <2>2. writes \in Nat /\ log \in Seq(Upto(writes)) /\ peer \in Seq(Upto(writes))
    BY LimitsAssumption DEF Basic, FileInv
  <2>3. peer' = peer /\ pulls < MaxPulls /\ pulls' = pulls + 1
    BY <1>4 DEF UnionMerge
  <2>4. pulls' \in 0..MaxPulls
    BY <2>3, LimitsAssumption DEF Basic, FileInv
  <2>5. pulled' \subseteq 1..writes
    BY <2>1, <2>2, SerialsOf DEF Basic, FileInv
  <2>6. log' \in Seq(Upto(writes))
    BY <2>1, <2>2, ConcatProperties
  <2>7. open' => Len(log') # 0 /\ log'[Len(log')].kind \in Damages
    <3> SUFFICES ASSUME open' PROVE Len(log') # 0 /\ log'[Len(log')].kind \in Damages
      OBVIOUS
    <3>1. open /\ log' = back \o log
      BY <2>1
    <3>2. Len(log) # 0 /\ log[Len(log)].kind \in Damages
      BY <3>1 DEF Basic, FileInv
    <3>3. Len(log) \in Nat /\ Len(back) \in Nat
      BY <2>2, LenProperties
    <3>4. /\ Len(back \o log) = Len(back) + Len(log)
          /\ \A i \in 1..(Len(back) + Len(log)) :
               (back \o log)[i] = IF i <= Len(back) THEN back[i] ELSE log[i - Len(back)]
      BY <2>2, ConcatProperties
    <3>5. Len(back) + Len(log) \in 1..(Len(back) + Len(log))
          /\ ~ (Len(back) + Len(log) <= Len(back))
          /\ Len(back) + Len(log) - Len(back) = Len(log)
      BY <3>2, <3>3
    <3>6. (back \o log)[Len(back) + Len(log)] = log[Len(back) + Len(log) - Len(back)]
      BY <3>4, <3>5
    <3> QED BY <3>1, <3>2, <3>3, <3>4, <3>5, <3>6
  <2>8. open' \in BOOLEAN
    BY <2>1 DEF Basic, FileInv
  <2>9. FileInv'
    BY <1>1, <2>2, <2>3, <2>4, <2>5, <2>6, <2>7, <2>8 DEF Basic, FileInv
  <2> QED BY <1>2, <2>9 DEF Basic
<1> QED BY <1>3, <1>4

LEMMA InitBasic == Init => Basic
<1> SUFFICES ASSUME Init PROVE Basic
    OBVIOUS
<1>1. <<>> \in Seq(Upto(0)) /\ NoOp \in Calls(0)
    BY EmptySeq, NoOpTyped
<1>2. FileInv
  <2>1. 0 \in 0..MaxWrites /\ 0 \in 0..MaxPulls /\ 0 \in 0..MaxAborts
    BY LimitsAssumption
  <2>2. writes = 0 /\ pulls = 0 /\ aborts = 0 /\ log = <<>> /\ peer = <<>> /\ open = FALSE
        /\ acked = {} /\ glued = {} /\ cut = {} /\ wiped = {} /\ pulled = {} /\ forgotten = {}
        /\ said = [i \in Ids |-> "none"]
    BY DEF Init
  <2>3. said \in [Ids -> Bodies \cup {"none"}]
    BY <2>2
  <2>4. log \in Seq(Upto(writes)) /\ peer \in Seq(Upto(writes))
    BY <1>1, <2>2
  <2>5. writes \in 0..MaxWrites /\ pulls \in 0..MaxPulls /\ aborts \in 0..MaxAborts
    BY <2>1, <2>2
  <2> HIDE DEF Init
  <2> QED BY <2>2, <2>3, <2>4, <2>5 DEF FileInv
<1>3. CallInv
    BY <1>1, MarkersAssumption DEF Init, CallInv, Locked
<1> QED BY <1>2, <1>3 DEF Basic

LEMMA BasicInvariant == Spec => []Basic
<1>1. Basic /\ [Next]_vars => Basic'
  <2> SUFFICES ASSUME Basic, [Next]_vars PROVE Basic'
    OBVIOUS
  <2>1. ASSUME NEW p \in Procs,
               \/ AppendRead(p) \/ AppendWrite(p) \/ AppendTorn(p)
               \/ TrimNone(p) \/ TrimRead(p) \/ TrimFails(p) \/ TrimReplace(p)
               \/ ForgetRead(p) \/ ForgetRewrite(p) \/ Die(p)
        PROVE  Basic'
    BY <2>1, AppendReadBasic, AppendWriteBasic, AppendTornBasic, TrimEndsBasic, TrimReadBasic,
       ForgetReadBasic, ForgetRewriteBasic, DieBasic
  <2> QED BY <2>1, GitBasic DEF Next
<1> QED BY <1>1, InitBasic, PTL DEF Spec

\* The types of the log, of every copy somebody carries, and of the lock.
THEOREM TypeCorrect == Spec => []TypeOK
<1>1. Basic => TypeOK
  <2> SUFFICES ASSUME Basic PROVE TypeOK
    OBVIOUS
  <2>1. writes \in Nat /\ MaxWrites \in Nat /\ writes <= MaxWrites
    BY LimitsAssumption DEF Basic, FileInv
  <2>2. Upto(MaxWrites) = Row
    BY DEF Upto, Row
  <2>3. Seq(Upto(writes)) \subseteq Seq(Row) /\ Tombs(writes) \subseteq Row
    <3>1. Seq(Upto(writes)) \subseteq Seq(Row) /\ Tombs(writes) \subseteq Tombs(MaxWrites)
      BY <2>1, <2>2, TypesGrow
    <3>2. Tombs(MaxWrites) \subseteq Row
      BY DEF Tombs, Row, Kinds
    <3> QED BY <3>1, <3>2
  <2>4. \A p \in Procs : op[p].rows \in Seq(Row)
    BY <2>3, CallOf
  <2>5. open => log # <<>> /\ Last(log).kind \in Damages
    <3>1. open => Len(log) # 0 /\ log[Len(log)].kind \in Damages
      BY DEF Basic, FileInv
    <3> QED BY <3>1 DEF Last
  <2>6. said \in [Ids -> Kinds \cup {"none"}]
    BY DEF Basic, FileInv, Kinds
  <2>7. \A S \in {acked, glued, cut, wiped, pulled} : S \subseteq 1..writes
    BY DEF Basic, FileInv
  <2> QED BY <2>3, <2>4, <2>5, <2>6, <2>7 DEF Basic, FileInv, CallInv, TypeOK, Locked
<1> QED BY <1>1, BasicInvariant, PTL

-----------------------------------------------------------------------------
(* What the append acknowledges *)

\* Where a process stands after a step of p.
LEMMA After ==
    ASSUME Basic, NEW p \in Procs, NEW stage, NEW c,
           pc' = [pc EXCEPT ![p] = stage], op' = [op EXCEPT ![p] = c]
    PROVE  /\ pc'[p] = stage /\ op'[p] = c
           /\ \A q \in Procs : q # p => pc'[q] = pc[q] /\ op'[q] = op[q]
           /\ lock \in {NoProc, p} => \A q \in Procs : q # p => pc'[q] \notin Locked
<1>1. pc'[p] = stage /\ op'[p] = c
    BY DEF Basic, CallInv
<1>2. \A q \in Procs : q # p => pc'[q] = pc[q] /\ op'[q] = op[q]
    BY DEF Basic, CallInv
<1>3. ASSUME lock \in {NoProc, p}, NEW q \in Procs, q # p PROVE pc'[q] \notin Locked
  <2>1. lock # q
    BY <1>3, MarkersAssumption
  <2>2. pc[q] \notin Locked
    BY <2>1 DEF Basic, CallInv
  <2> QED BY <1>2, <1>3, <2>2
<1> QED BY <1>1, <1>2, <1>3

\* Nobody gets further under the lock in these steps.
LEMMA RestStages ==
    ASSUME Basic,
           \/ \E p \in Procs : AppendRead(p) \/ AppendTorn(p) \/ TrimFails(p) \/ Die(p)
           \/ PeerCopies \/ UnionMerge \/ UNCHANGED vars
    PROVE  \A q \in Procs : pc'[q] \in Locked => pc'[q] = pc[q] /\ op'[q] = op[q]
<1>1. CASE PeerCopies \/ UnionMerge \/ UNCHANGED vars
  BY <1>1 DEF PeerCopies, UnionMerge, vars
<1>2. ASSUME NEW p \in Procs, AppendRead(p) \/ AppendTorn(p) \/ TrimFails(p) \/ Die(p)
      PROVE  \A q \in Procs : pc'[q] \in Locked => pc'[q] = pc[q] /\ op'[q] = op[q]
  <2>1. PICK stage \in {"idle", "append"} : \E c :
           pc' = [pc EXCEPT ![p] = stage] /\ op' = [op EXCEPT ![p] = c]
    BY <1>2 DEF AppendRead, AppendTorn, TrimFails, Die, Release, Leave
  <2>2. PICK c : pc' = [pc EXCEPT ![p] = stage] /\ op' = [op EXCEPT ![p] = c]
    BY <2>1
  <2>3. pc'[p] = stage /\ \A q \in Procs : q # p => pc'[q] = pc[q] /\ op'[q] = op[q]
    BY <2>2, After
  <2> QED BY <2>3 DEF Locked
<1> QED BY <1>1, <1>2

\* The rows that are in no copy of the file any more, each for a reason.
Gone == glued \cup cut \cup wiped

AckInv ==
    /\ acked \subseteq Serials(log) \cup Gone
    /\ \A p \in Procs : pc[p] = "trim" => op[p].n \in Serials(log) \cup Gone
    /\ \A p \in Procs : pc[p] = "replace" =>
          acked \cup {op[p].n} \subseteq Serials(op[p].rows) \cup op[p].lost \cup Gone
    /\ \A p \in Procs : pc[p] = "rewrite" =>
          acked \subseteq Serials(op[p].rows) \cup op[p].lost \cup Gone

\* A step that loses no row and takes no process under the lock any further.
LEMMA AckQuiet ==
    ASSUME AckInv, acked' = acked, Gone' = Gone, Serials(log) \subseteq Serials(log'),
           \A p \in Procs : pc'[p] \in Locked => pc'[p] = pc[p] /\ op'[p] = op[p]
    PROVE  AckInv'
<1>1. Serials(log)' = Serials(log')
    BY DEF Serials
<1>2. acked' \subseteq Serials(log') \cup Gone'
    BY DEF AckInv
<1>3. ASSUME NEW p \in Procs, pc'[p] = "trim" PROVE op'[p].n \in Serials(log') \cup Gone'
    BY <1>3 DEF AckInv, Locked
<1>4. ASSUME NEW p \in Procs, pc'[p] = "replace"
      PROVE  acked' \cup {op'[p].n} \subseteq Serials(op'[p].rows) \cup op'[p].lost \cup Gone'
  <2>1. op'[p] = op[p] /\ pc[p] = "replace"
    BY <1>4 DEF Locked
  <2> QED BY <2>1 DEF AckInv
<1>5. ASSUME NEW p \in Procs, pc'[p] = "rewrite"
      PROVE  acked' \subseteq Serials(op'[p].rows) \cup op'[p].lost \cup Gone'
  <2>1. op'[p] = op[p] /\ pc[p] = "rewrite"
    BY <1>5 DEF Locked
  <2> QED BY <2>1 DEF AckInv
<1> QED BY <1>1, <1>2, <1>3, <1>4, <1>5 DEF AckInv, Serials

\* A step after which p alone may hold the lock.
LEMMA AckAlone ==
    ASSUME NEW p \in Procs, \A q \in Procs : q # p => pc'[q] \notin Locked,
           acked' \subseteq Serials(log') \cup Gone',
           pc'[p] = "trim" => op'[p].n \in Serials(log') \cup Gone',
           pc'[p] = "replace" =>
              acked' \cup {op'[p].n} \subseteq Serials(op'[p].rows) \cup op'[p].lost \cup Gone',
           pc'[p] = "rewrite" => acked' \subseteq Serials(op'[p].rows) \cup op'[p].lost \cup Gone'
    PROVE  AckInv'
<1>1. ASSUME NEW q \in Procs, pc'[q] \in Locked PROVE q = p
    BY <1>1
<1>2. \A q \in Procs : pc'[q] = "trim" => op'[q].n \in Serials(log') \cup Gone'
    BY <1>1 DEF Locked
<1>3. \A q \in Procs : pc'[q] = "replace" =>
        acked' \cup {op'[q].n} \subseteq Serials(op'[q].rows) \cup op'[q].lost \cup Gone'
  <2> SUFFICES ASSUME NEW q \in Procs, pc'[q] = "replace"
               PROVE  acked' \cup {op'[q].n}
                        \subseteq Serials(op'[q].rows) \cup op'[q].lost \cup Gone'
    OBVIOUS
  <2>1. q = p
    BY <1>1 DEF Locked
  <2> QED BY <2>1
<1>4. \A q \in Procs : pc'[q] = "rewrite" =>
        acked' \subseteq Serials(op'[q].rows) \cup op'[q].lost \cup Gone'
  <2> SUFFICES ASSUME NEW q \in Procs, pc'[q] = "rewrite"
               PROVE  acked' \subseteq Serials(op'[q].rows) \cup op'[q].lost \cup Gone'
    OBVIOUS
  <2>1. q = p
    BY <1>1 DEF Locked
  <2> QED BY <2>1
<1> QED BY <1>2, <1>3, <1>4 DEF AckInv, Serials

LEMMA AppendWriteAck ==
    ASSUME Basic, AckInv, NEW p \in Procs, AppendWrite(p)
    PROVE  AckInv'
<1>1. /\ pc[p] = "append" /\ writes < MaxWrites /\ lock = NoProc
      /\ UNCHANGED <<acked, cut, wiped>>
      /\ pc' = [pc EXCEPT ![p] = "trim"]
    BY DEF AppendWrite, Acquire
<1>2. PICK c : c = [op[p] EXCEPT !.n = writes + 1]
    OBVIOUS
<1>3. op' = [op EXCEPT ![p] = c] /\ c.n = writes + 1
  <2>1. op' = [op EXCEPT ![p].n = writes + 1] /\ op[p] \in Calls(writes)
    BY CallOf DEF AppendWrite
  <2> QED BY <1>2, <2>1 DEF Calls
<1>4. /\ pc'[p] = "trim" /\ op'[p] = c
      /\ \A q \in Procs : q # p => pc'[q] \notin Locked
    BY <1>1, <1>3, After
<1>5. Serials(log) \cup Gone \cup {writes + 1} \subseteq Serials(log') \cup Gone'
  <2>1. CASE open
    BY <1>1, <2>1 DEF AppendWrite, Gone
  <2>2. CASE ~ open
    <3>1. PICK r : r = NewRow(p, op[p].kind)
      OBVIOUS
    <3>2. r \in Upto(writes + 1) /\ r.n = writes + 1 /\ writes \in Nat /\ writes + 1 \in Nat
          /\ writes <= writes + 1
      <4>1. op[p].kind \in Kinds \cup Damages
        BY CallOf DEF Kinds
      <4> QED BY <1>1, <3>1, <4>1, NewRowIs
    <3>3. log' = Append(log, r) /\ Gone' = Gone
      BY <1>1, <2>2, <3>1 DEF AppendWrite, Gone
    <3>4. log \in Seq(Upto(writes + 1))
      BY <3>2, HistoryGrows DEF Basic
    <3>5. ToSet(log') = ToSet(log) \cup {r}
      BY <3>2, <3>3, <3>4, RowsOf
    <3> QED BY <3>2, <3>3, <3>5 DEF Serials
  <2> QED BY <2>1, <2>2
<1>6. acked' \subseteq Serials(log') \cup Gone'
    BY <1>1, <1>5 DEF AckInv
<1> QED BY <1>3, <1>4, <1>5, <1>6, AckAlone

LEMMA TrimReadAck ==
    ASSUME Basic, AckInv, NEW p \in Procs, TrimRead(p)
    PROVE  AckInv'
<1>1. /\ pc[p] = "trim" /\ pc' = [pc EXCEPT ![p] = "replace"] /\ lock' = lock
      /\ UNCHANGED <<log, acked, glued, cut, wiped>>
    BY DEF TrimRead, history
<1>2. PICK kept : kept = Kept(log)
    OBVIOUS
<1>3. PICK c \in Calls(writes) : /\ c.n = op[p].n /\ c.rows = kept
                                 /\ c.lost = Serials(log) \ Serials(kept)
                                 /\ op' = [op EXCEPT ![p] = c]
    BY <1>2, TrimReadIs
<1>4. lock = p
    BY <1>1, HolderIs DEF Locked
<1>5. /\ pc'[p] = "replace" /\ op'[p] = c
      /\ \A q \in Procs : q # p => pc'[q] \notin Locked
    BY <1>1, <1>3, <1>4, After
<1>6. acked \cup {op[p].n} \subseteq Serials(log) \cup Gone
    BY <1>1 DEF AckInv
<1>7. Gone' = Gone
    BY <1>1 DEF Gone
<1>8. acked' \cup {op'[p].n} \subseteq Serials(op'[p].rows) \cup op'[p].lost \cup Gone'
    BY <1>1, <1>3, <1>5, <1>6, <1>7
<1>9. acked' \subseteq Serials(log') \cup Gone'
    BY <1>1, <1>6, <1>7
<1> QED BY <1>5, <1>8, <1>9, AckAlone

LEMMA ForgetReadAck ==
    ASSUME Basic, AckInv, NEW p \in Procs, ForgetRead(p)
    PROVE  AckInv'
<1>1. /\ lock = NoProc /\ pc' = [pc EXCEPT ![p] = "rewrite"]
      /\ UNCHANGED <<log, acked, glued, cut, wiped>>
    BY DEF ForgetRead, Acquire, history
<1>2. PICK i \in Ids, c \in Calls(writes), kept \in Seq(Upto(writes)) :
             /\ c.rows = kept /\ c.lost = {r.n : r \in Victims(i)}
             /\ op' = [op EXCEPT ![p] = c]
             /\ ToSet(kept) = ToSet(log) \ Victims(i)
    BY ForgetReadIs
<1>3. /\ pc'[p] = "rewrite" /\ op'[p] = c
      /\ \A q \in Procs : q # p => pc'[q] \notin Locked
    BY <1>1, <1>2, After
<1>4. Gone' = Gone /\ acked \subseteq Serials(log) \cup Gone
    BY <1>1 DEF Gone, AckInv
<1>5. Serials(log) \subseteq Serials(kept) \cup c.lost
    BY <1>2 DEF Serials
<1> QED BY <1>1, <1>2, <1>3, <1>4, <1>5, AckAlone

\* A trim, or a forget, puts what it carries in place and lets go of the lock.
LEMMA TrimEndsAck ==
    ASSUME Basic, AckInv, NEW p \in Procs, TrimNone(p) \/ TrimReplace(p)
    PROVE  AckInv'
<1>1. /\ pc[p] \in {"trim", "replace"}
      /\ pc' = [pc EXCEPT ![p] = "idle"] /\ op' = [op EXCEPT ![p] = NoOp]
      /\ acked' = acked \cup {op[p].n} /\ UNCHANGED <<glued, wiped>>
    BY DEF TrimNone, TrimReplace, Acknowledge, Release, Leave
<1>2. lock = p
    BY <1>1, HolderIs DEF Locked
<1>3. pc'[p] = "idle" /\ \A q \in Procs : q # p => pc'[q] \notin Locked
    BY <1>1, <1>2, After
<1>4. acked' \subseteq Serials(log') \cup Gone'
  <2>1. CASE TrimNone(p)
    BY <1>1, <2>1 DEF TrimNone, AckInv, Gone
  <2>2. CASE TrimReplace(p)
    BY <1>1, <2>2 DEF TrimReplace, AckInv, Gone
  <2> QED BY <2>1, <2>2
<1> QED BY <1>3, <1>4, AckAlone

LEMMA ForgetRewriteAck ==
    ASSUME Basic, AckInv, NEW p \in Procs, ForgetRewrite(p)
    PROVE  AckInv'
<1>1. PICK tomb : tomb = NewRow(p, "tombstone")
    OBVIOUS
<1>2. /\ pc[p] = "rewrite" /\ lock = p /\ Release(p) /\ writes \in Nat
      /\ tomb \in Upto(writes + 1) /\ op[p].rows \in Seq(Upto(writes + 1))
      /\ log' = Append(op[p].rows, tomb) /\ wiped' = wiped \cup op[p].lost
      /\ UNCHANGED <<acked, glued, cut>>
    BY <1>1, ForgetRewriteIs
<1>3. pc' = [pc EXCEPT ![p] = "idle"] /\ op' = [op EXCEPT ![p] = NoOp]
    BY <1>2 DEF Release, Leave
<1>4. pc'[p] = "idle" /\ \A q \in Procs : q # p => pc'[q] \notin Locked
    BY <1>2, <1>3, After
<1>5. ToSet(log') = ToSet(op[p].rows) \cup {tomb}
    BY <1>2, RowsOf
<1>6. Serials(op[p].rows) \subseteq Serials(log')
    BY <1>5 DEF Serials
<1>7. acked' \subseteq Serials(log') \cup Gone'
    BY <1>2, <1>6 DEF AckInv, Gone
<1> QED BY <1>4, <1>7, AckAlone

\* The lines of a file that an append damages, or git merges, are all still there.
LEMMA KeepsSerials ==
    ASSUME Basic, (\E p \in Procs : AppendTorn(p)) \/ UnionMerge
    PROVE  Serials(log) \subseteq Serials(log')
<1>1. writes \in Nat /\ writes + 1 \in Nat /\ writes <= writes + 1
    BY LimitsAssumption DEF Basic, FileInv
<1>2. log \in Seq(Upto(writes)) /\ log \in Seq(Upto(writes + 1))
    BY <1>1, HistoryGrows DEF Basic, FileInv
<1>3. ASSUME NEW p \in Procs, AppendTorn(p) PROVE Serials(log) \subseteq Serials(log')
  <2>1. PICK k \in Damages :
             \/ /\ ~ open /\ log' = Append(log, NewRow(p, k)) /\ NewRow(p, k) \in Upto(writes + 1)
             \/ /\ open /\ Len(log) \in Nat \ {0}
                /\ \E e \in Upto(writes) :
                     e.n = log[Len(log)].n /\ log' = [log EXCEPT ![Len(log)] = e]
    BY <1>3, TornIs
  <2>2. CASE ~ open
    <3>1. PICK e \in Upto(writes + 1) : log' = Append(log, e)
      BY <2>1, <2>2
    <3>2. ToSet(log') = ToSet(log) \cup {e}
      BY <1>2, <3>1, RowsOf
    <3> QED BY <3>2 DEF Serials
  <2>3. CASE open
    <3>1. PICK e \in Upto(writes) : e.n = log[Len(log)].n /\ log' = [log EXCEPT ![Len(log)] = e]
      BY <2>1, <2>3
    <3>2. Len(log) \in 1..Len(log)
      BY <2>1, <2>3
    <3>3. PICK u, i : u = log' /\ i = Len(log)
      OBVIOUS
    <3>4. i \in 1..Len(log) /\ u = [log EXCEPT ![i] = e] /\ e \in Upto(writes)
      BY <3>1, <3>2, <3>3
    <3>5. e \in ToSet(u) /\ \A r \in ToSet(log) : r \in ToSet(u) \/ r = log[i]
      <4>1. Swapped(u, log, i, e)
        BY <1>2, <3>4, ReplacedIs
      <4> QED BY <4>1 DEF Swapped
    <3> QED BY <3>1, <3>3, <3>5 DEF Serials
  <2> QED BY <2>2, <2>3
<1>4. CASE UnionMerge
  <2>2. PICK S \in SUBSET ToSet(peer) : ToSet(log') = ToSet(log) \cup S
    BY <1>4, MergeIs
  <2> QED BY <2>2 DEF Serials
<1> QED BY <1>3, <1>4

\* The steps of a process that leaves, and of git, say nothing new.
LEMMA RestAck ==
    ASSUME Basic, AckInv,
           \/ \E p \in Procs : AppendRead(p) \/ AppendTorn(p) \/ TrimFails(p) \/ Die(p)
           \/ PeerCopies \/ UnionMerge \/ UNCHANGED vars
    PROVE  AckInv'
<1>1. UNCHANGED <<acked, glued, cut, wiped>>
    BY DEF AppendRead, AppendTorn, TrimFails, Die, PeerCopies, UnionMerge, vars, history
<1>2. Gone' = Gone
    BY <1>1 DEF Gone
<1>3. Serials(log) \subseteq Serials(log')
  <2>1. log' = log \/ (\E p \in Procs : AppendTorn(p)) \/ UnionMerge
    BY DEF AppendRead, TrimFails, Die, PeerCopies, vars
  <2>2. log' = log => Serials(log') = Serials(log)
    OBVIOUS
  <2> QED BY <2>1, <2>2, KeepsSerials
<1>4. \A q \in Procs : pc'[q] \in Locked => pc'[q] = pc[q] /\ op'[q] = op[q]
    BY RestStages
<1> QED BY <1>1, <1>2, <1>3, <1>4, AckQuiet

\* The row of an append that returned ok stays in the file until a trim or a
\* forget drops it (append_decision, forget_decision), for any number of
\* processes, rows, merges and deaths.
THEOREM AckedStays == Spec => []AckedSurvives
<1>1. Init => AckInv
  <2> SUFFICES ASSUME Init PROVE AckInv
    OBVIOUS
  <2>1. acked = {} /\ \A p \in Procs : pc[p] = "idle"
    BY DEF Init
  <2> QED BY <2>1 DEF AckInv
<1>2. Basic /\ AckInv /\ [Next]_vars => AckInv'
  <2> SUFFICES ASSUME Basic, AckInv, [Next]_vars PROVE AckInv'
    OBVIOUS
  <2> QED BY AppendWriteAck, TrimReadAck, TrimEndsAck, ForgetReadAck, ForgetRewriteAck, RestAck
          DEF Next
<1>3. AckInv => AckedSurvives
    BY DEF AckInv, AckedSurvives, Gone
<1> QED BY <1>1, <1>2, <1>3, BasicInvariant, PTL DEF Spec

-----------------------------------------------------------------------------
(* What a forget promises *)

\* Of the tombstones F: no row of theirs is in s that no merge, P, put back;
\* no other row has their number; and they are in s unless dropped, C.
Erased(s, F, P) ==
    \A t \in F : \A r \in ToSet(s) :
        r.id = t.id /\ r.n < t.n /\ r.kind \in Bodies => r.n \in P

Sole(s, F) == \A t \in F : \A r \in ToSet(s) : r.n = t.n => r = t

Standing(s, F, C) == \A t \in F : t.n \notin C => t \in ToSet(s)

Buried(s, F, P, C) == Erased(s, F, P) /\ Sole(s, F) /\ Standing(s, F, C)

NoBody(s, i) == \A r \in ToSet(s) : r.id = i => r.kind \notin Bodies

ForgetInv ==
    /\ Buried(log, forgotten, pulled, cut)
    /\ Sole(peer, forgotten)
    /\ \A p \in Procs : pc[p] = "replace" =>
          Buried(op[p].rows, forgotten, pulled, cut \cup op[p].lost)
    /\ \A p \in Procs : pc[p] = "rewrite" =>
          /\ Buried(op[p].rows, forgotten, pulled, cut)
          /\ NoBody(op[p].rows, op[p].id)

LEMMA TombsOf ==
    ASSUME NEW w \in Nat, NEW t \in Tombs(w)
    PROVE  t.n \in 1..w /\ t.n \in Nat /\ t.n < w + 1 /\ t.kind = "tombstone"
           /\ t.kind \notin Bodies /\ t.kind \notin Damages /\ t \in Upto(w)
BY DEF Tombs, Upto, Kinds, Bodies, Statuses, Damages

LEMMA BuriedGrows ==
    ASSUME NEW s, NEW F, NEW P, NEW Q, P \subseteq Q, NEW C, Buried(s, F, P, C)
    PROVE  Buried(s, F, Q, C)
BY DEF Buried, Erased

\* A file that a newer row is appended to.
LEMMA BuriedAppend ==
    ASSUME NEW w \in Nat, NEW s \in Seq(Upto(w + 1)), NEW e \in Upto(w + 1), e.n = w + 1,
           NEW F \in SUBSET Tombs(w), NEW P, NEW C, Buried(s, F, P, C)
    PROVE  Buried(Append(s, e), F, P, C)
<1>1. PICK u : u = Append(s, e)
    OBVIOUS
<1>2. ToSet(u) = ToSet(s) \cup {e}
    BY <1>1, RowsOf
<1>3. \A t \in F : t.n \in Nat /\ t.n < w + 1
    BY TombsOf
<1>4. Erased(u, F, P)
    BY <1>2, <1>3 DEF Buried, Erased
<1>5. Sole(u, F)
    BY <1>2, <1>3 DEF Buried, Sole
<1>6. Standing(u, F, C)
    BY <1>2 DEF Buried, Standing
<1> QED BY <1>1, <1>4, <1>5, <1>6 DEF Buried

\* The line an append left damaged is damaged once more.
LEMMA BuriedSwapped ==
    ASSUME NEW w \in Nat, NEW s \in Seq(Upto(w)), NEW i \in 1..Len(s), NEW e \in Upto(w), NEW u,
           Swapped(u, s, i, e), s[i].kind \in Damages, e.kind \in Damages, e.n = s[i].n,
           NEW F \in SUBSET Tombs(w), NEW P, NEW C, Buried(s, F, P, C)
    PROVE  Buried(u, F, P, C)
<1>1. \A t \in F : t.kind = "tombstone" /\ t.kind \notin Damages
    BY TombsOf
<1>2. e.kind \notin Bodies
    BY DEF Damages, Bodies, Statuses
<1>3. s[i] \in ToSet(s)
    BY LenProperties DEF ToSet
<1>4. Erased(u, F, P)
    BY <1>2 DEF Swapped, Buried, Erased
<1>5. Sole(u, F)
  <2>1. \A t \in F : s[i].n # t.n
    BY <1>1, <1>3 DEF Buried, Sole
  <2> QED BY <2>1 DEF Swapped, Buried, Sole
<1>6. Standing(u, F, C)
    BY <1>1 DEF Swapped, Buried, Standing
<1> QED BY <1>4, <1>5, <1>6 DEF Buried

\* What is in force when nobody but p is under the lock after a step of p.
LEMMA ForgetAlone ==
    ASSUME NEW p \in Procs, \A q \in Procs : q # p => pc'[q] \notin Locked,
           Buried(log', forgotten', pulled', cut'), Sole(peer', forgotten'),
           pc'[p] = "replace" =>
              Buried(op'[p].rows, forgotten', pulled', cut' \cup op'[p].lost),
           pc'[p] = "rewrite" =>
              Buried(op'[p].rows, forgotten', pulled', cut') /\ NoBody(op'[p].rows, op'[p].id)
    PROVE  ForgetInv'
<1>1. ASSUME NEW q \in Procs, pc'[q] \in Locked PROVE q = p
    BY <1>1
<1>2. ASSUME NEW q \in Procs, pc'[q] = "replace"
      PROVE  Buried(op'[q].rows, forgotten', pulled', cut' \cup op'[q].lost)
  <2>1. q = p
    BY <1>1, <1>2 DEF Locked
  <2> QED BY <1>2, <2>1
<1>3. ASSUME NEW q \in Procs, pc'[q] = "rewrite"
      PROVE  Buried(op'[q].rows, forgotten', pulled', cut') /\ NoBody(op'[q].rows, op'[q].id)
  <2>1. q = p
    BY <1>1, <1>3 DEF Locked
  <2> QED BY <1>3, <2>1
<1> QED BY <1>2, <1>3 DEF ForgetInv

\* A step of a process that is not under the lock after it, or of git.
LEMMA ForgetQuiet ==
    ASSUME ForgetInv, forgotten' = forgotten, cut' = cut, pulled \subseteq pulled',
           Buried(log', forgotten, pulled', cut), Sole(peer', forgotten),
           \A p \in Procs : pc'[p] \in Locked => pc'[p] = pc[p] /\ op'[p] = op[p]
    PROVE  ForgetInv'
<1>1. ASSUME NEW q \in Procs, pc'[q] = "replace"
      PROVE  Buried(op'[q].rows, forgotten', pulled', cut' \cup op'[q].lost)
  <2>1. pc[q] = "replace" /\ op'[q] = op[q]
    BY <1>1 DEF Locked
  <2>2. Buried(op[q].rows, forgotten, pulled, cut \cup op[q].lost)
    BY <2>1 DEF ForgetInv
  <2>3. Buried(op[q].rows, forgotten, pulled', cut \cup op[q].lost)
    BY <2>2, BuriedGrows
  <2> QED BY <2>1, <2>3
<1>2. ASSUME NEW q \in Procs, pc'[q] = "rewrite"
      PROVE  Buried(op'[q].rows, forgotten', pulled', cut') /\ NoBody(op'[q].rows, op'[q].id)
  <2>1. pc[q] = "rewrite" /\ op'[q] = op[q]
    BY <1>2 DEF Locked
  <2>2. Buried(op[q].rows, forgotten, pulled, cut) /\ NoBody(op[q].rows, op[q].id)
    BY <2>1 DEF ForgetInv
  <2>3. Buried(op[q].rows, forgotten, pulled', cut)
    BY <2>2, BuriedGrows
  <2> QED BY <2>1, <2>2, <2>3
<1> QED BY <1>1, <1>2 DEF ForgetInv

LEMMA AppendWriteForget ==
    ASSUME Basic, ForgetInv, NEW p \in Procs, AppendWrite(p)
    PROVE  ForgetInv'
<1>1. /\ pc[p] = "append" /\ writes < MaxWrites /\ lock = NoProc
      /\ UNCHANGED <<peer, cut, forgotten, pulled>> /\ pc' = [pc EXCEPT ![p] = "trim"]
    BY DEF AppendWrite, Acquire
<1>2. PICK c : op' = [op EXCEPT ![p] = c]
    BY DEF AppendWrite
<1>3. pc'[p] = "trim" /\ \A q \in Procs : q # p => pc'[q] \notin Locked
    BY <1>1, <1>2, After
<1>4. Buried(log', forgotten', pulled', cut')
  <2>1. Buried(log, forgotten', pulled', cut')
    BY <1>1 DEF ForgetInv
  <2>2. CASE open
    BY <2>1, <2>2 DEF AppendWrite
  <2>3. CASE ~ open
    <3>1. PICK r : r = NewRow(p, op[p].kind)
      OBVIOUS
    <3>2. r \in Upto(writes + 1) /\ r.n = writes + 1 /\ writes \in Nat /\ writes + 1 \in Nat
          /\ writes <= writes + 1
      <4>1. op[p].kind \in Kinds \cup Damages
        BY CallOf DEF Kinds
      <4> QED BY <1>1, <3>1, <4>1, NewRowIs
    <3>3. log' = Append(log, r)
      BY <2>3, <3>1 DEF AppendWrite
    <3>4. log \in Seq(Upto(writes + 1)) /\ forgotten' \subseteq Tombs(writes)
      BY <1>1, <3>2, HistoryGrows DEF Basic, FileInv
    <3>5. Buried(Append(log, r), forgotten', pulled', cut')
      BY <2>1, <3>2, <3>4, BuriedAppend
    <3> QED BY <3>3, <3>5
  <2> QED BY <2>2, <2>3
<1>5. Sole(peer', forgotten')
    BY <1>1 DEF ForgetInv
<1> QED BY <1>3, <1>4, <1>5, ForgetAlone

LEMMA AppendTornForget ==
    ASSUME Basic, ForgetInv, NEW p \in Procs, AppendTorn(p)
    PROVE  ForgetInv'
<1>1. UNCHANGED <<peer, cut, forgotten, pulled>>
    BY DEF AppendTorn, history
<1>2. /\ writes \in Nat /\ writes + 1 \in Nat /\ writes <= writes + 1
      /\ log \in Seq(Upto(writes)) /\ log \in Seq(Upto(writes + 1))
      /\ forgotten \subseteq Tombs(writes)
  <2>1. writes \in Nat /\ writes + 1 \in Nat /\ writes <= writes + 1
    BY LimitsAssumption DEF Basic, FileInv
  <2> QED BY <2>1, HistoryGrows DEF Basic, FileInv
<1>3. Buried(log, forgotten, pulled, cut) /\ Sole(peer, forgotten)
    BY DEF ForgetInv
<1>4. Buried(log', forgotten, pulled, cut)
  <2>1. PICK k \in Damages :
             \/ /\ ~ open /\ log' = Append(log, NewRow(p, k)) /\ NewRow(p, k) \in Upto(writes + 1)
                /\ NewRow(p, k).n = writes + 1
             \/ /\ open /\ Len(log) \in Nat \ {0} /\ log[Len(log)].kind \in Damages
                /\ \E e \in Upto(writes) :
                     /\ e.kind \in Damages /\ e.n = log[Len(log)].n
                     /\ log' = [log EXCEPT ![Len(log)] = e]
    BY TornIs
  <2>2. CASE ~ open
    <3>1. PICK e \in Upto(writes + 1) : log' = Append(log, e) /\ e.n = writes + 1
      BY <2>1, <2>2
    <3>2. Buried(Append(log, e), forgotten, pulled, cut)
      BY <1>2, <1>3, <3>1, BuriedAppend
    <3> QED BY <3>1, <3>2
  <2>3. CASE open
    <3>1. PICK e \in Upto(writes) : /\ e.kind \in Damages /\ e.n = log[Len(log)].n
                                    /\ log' = [log EXCEPT ![Len(log)] = e]
      BY <2>1, <2>3
    <3>2. PICK u, i : u = log' /\ i = Len(log)
      OBVIOUS
    <3>3. i \in 1..Len(log) /\ u = [log EXCEPT ![i] = e] /\ e \in Upto(writes)
          /\ log[i].kind \in Damages /\ e.n = log[i].n /\ e.kind \in Damages
      BY <2>1, <2>3, <3>1, <3>2
    <3>4. Swapped(u, log, i, e)
      BY <1>2, <3>3, ReplacedIs
    <3>5. Buried(u, forgotten, pulled, cut)
      BY <1>2, <1>3, <3>3, <3>4, BuriedSwapped
    <3> QED BY <3>2, <3>5
  <2> QED BY <2>2, <2>3
<1>5. \A q \in Procs : pc'[q] \in Locked => pc'[q] = pc[q] /\ op'[q] = op[q]
    BY RestStages
<1> QED BY <1>1, <1>3, <1>4, <1>5, ForgetQuiet

LEMMA TrimReadForget ==
    ASSUME Basic, ForgetInv, NEW p \in Procs, TrimRead(p)
    PROVE  ForgetInv'
<1>1. /\ pc[p] = "trim" /\ pc' = [pc EXCEPT ![p] = "replace"] /\ lock' = lock
      /\ UNCHANGED <<log, peer, cut, forgotten, pulled>>
    BY DEF TrimRead, history
<1>2. PICK kept : kept = Kept(log)
    OBVIOUS
<1>3. PICK c \in Calls(writes) : /\ c.rows = kept
                                 /\ c.lost = Serials(log) \ Serials(kept)
                                 /\ op' = [op EXCEPT ![p] = c]
                                 /\ ToSet(kept) \subseteq ToSet(log)
    BY <1>2, TrimReadIs
<1>4. lock = p
    BY <1>1, HolderIs DEF Locked
<1>5. /\ pc'[p] = "replace" /\ op'[p] = c
      /\ \A q \in Procs : q # p => pc'[q] \notin Locked
    BY <1>1, <1>3, <1>4, After
<1>6. Buried(log, forgotten, pulled, cut) /\ Sole(peer, forgotten)
    BY DEF ForgetInv
<1>7. Erased(kept, forgotten, pulled) /\ Sole(kept, forgotten)
    BY <1>3, <1>6 DEF Buried, Erased, Sole
<1>8. Standing(kept, forgotten, cut \cup c.lost)
  <2> SUFFICES ASSUME NEW t \in forgotten, t.n \notin cut, t.n \notin c.lost
               PROVE  t \in ToSet(kept)
    BY DEF Standing
  <2>1. t \in ToSet(log)
    BY <1>6 DEF Buried, Standing
  <2>2. t.n \in Serials(log)
    BY <2>1 DEF Serials
  <2>3. t.n \in Serials(kept)
    BY <1>3, <2>2
  <2>4. PICK r \in ToSet(kept) : r.n = t.n
    BY <2>3 DEF Serials
  <2> QED BY <1>7, <2>4 DEF Sole
<1>9. Buried(kept, forgotten, pulled, cut \cup c.lost)
    BY <1>7, <1>8 DEF Buried
<1> QED BY <1>1, <1>3, <1>5, <1>6, <1>9, ForgetAlone

LEMMA TrimEndsForget ==
    ASSUME Basic, ForgetInv, NEW p \in Procs, TrimNone(p) \/ TrimReplace(p) \/ TrimFails(p)
    PROVE  ForgetInv'
<1>1. /\ pc[p] \in {"trim", "replace"}
      /\ pc' = [pc EXCEPT ![p] = "idle"] /\ op' = [op EXCEPT ![p] = NoOp]
      /\ UNCHANGED <<peer, forgotten, pulled>>
    BY DEF TrimNone, TrimReplace, TrimFails, Acknowledge, Release, Leave, history
<1>2. lock = p
    BY <1>1, HolderIs DEF Locked
<1>3. pc'[p] = "idle" /\ \A q \in Procs : q # p => pc'[q] \notin Locked
    BY <1>1, <1>2, After
<1>4. Buried(log', forgotten', pulled', cut')
  <2>1. CASE TrimNone(p) \/ TrimFails(p)
    BY <1>1, <2>1 DEF TrimNone, TrimFails, ForgetInv, history
  <2>2. CASE TrimReplace(p)
    BY <1>1, <2>2 DEF TrimReplace, ForgetInv
  <2> QED BY <2>1, <2>2
<1>5. Sole(peer', forgotten')
    BY <1>1 DEF ForgetInv
<1> QED BY <1>3, <1>4, <1>5, ForgetAlone

LEMMA ForgetReadForget ==
    ASSUME Basic, ForgetInv, NEW p \in Procs, ForgetRead(p)
    PROVE  ForgetInv'
<1>1. /\ lock = NoProc /\ pc' = [pc EXCEPT ![p] = "rewrite"]
      /\ UNCHANGED <<log, peer, cut, forgotten, pulled>>
    BY DEF ForgetRead, Acquire, history
<1>2. PICK i \in Ids, c \in Calls(writes), kept \in Seq(Upto(writes)) :
             /\ c.id = i /\ c.rows = kept
             /\ op' = [op EXCEPT ![p] = c]
             /\ ToSet(kept) = ToSet(log) \ Victims(i)
    BY ForgetReadIs
<1>3. /\ pc'[p] = "rewrite" /\ op'[p] = c
      /\ \A q \in Procs : q # p => pc'[q] \notin Locked
    BY <1>1, <1>2, After
<1>4. Buried(log, forgotten, pulled, cut) /\ Sole(peer, forgotten)
    BY DEF ForgetInv
<1>5. Erased(kept, forgotten, pulled) /\ Sole(kept, forgotten)
    BY <1>2, <1>4 DEF Buried, Erased, Sole
<1>6. Standing(kept, forgotten, cut)
  <2>1. writes \in Nat /\ forgotten \subseteq Tombs(writes)
    BY LimitsAssumption DEF Basic, FileInv
  <2>2. \A t \in forgotten : t.kind \notin Bodies
    BY <2>1, TombsOf
  <2>3. \A t \in forgotten : t \notin Victims(i)
    BY <2>2 DEF Victims
  <2> QED BY <1>2, <1>4, <2>3 DEF Buried, Standing
<1>7. NoBody(kept, i)
    BY <1>2 DEF NoBody, Victims
<1> QED BY <1>1, <1>2, <1>3, <1>4, <1>5, <1>6, <1>7, ForgetAlone DEF Buried

LEMMA ForgetRewriteForget ==
    ASSUME Basic, ForgetInv, NEW p \in Procs, ForgetRewrite(p)
    PROVE  ForgetInv'
<1>1. PICK tomb : tomb = NewRow(p, "tombstone")
    OBVIOUS
<1>2. /\ pc[p] = "rewrite" /\ lock = p /\ Release(p) /\ writes \in Nat
      /\ tomb \in Upto(writes + 1) /\ tomb \in Tombs(writes + 1) /\ tomb.n = writes + 1
      /\ tomb.id = op[p].id /\ tomb.kind = "tombstone"
      /\ op[p].rows \in Seq(Upto(writes)) /\ op[p].rows \in Seq(Upto(writes + 1))
      /\ log' = Append(op[p].rows, tomb) /\ forgotten' = forgotten \cup {tomb}
      /\ UNCHANGED <<peer, cut, pulled>>
    BY <1>1, ForgetRewriteIs
<1>3. pc' = [pc EXCEPT ![p] = "idle"] /\ op' = [op EXCEPT ![p] = NoOp]
    BY <1>2 DEF Release, Leave
<1>4. pc'[p] = "idle" /\ \A q \in Procs : q # p => pc'[q] \notin Locked
    BY <1>2, <1>3, After
<1>5. PICK u, rows : u = log' /\ rows = op[p].rows
    OBVIOUS
<1>6. u = Append(rows, tomb) /\ ToSet(u) = ToSet(rows) \cup {tomb}
  <2>1. u = Append(rows, tomb) /\ rows \in Seq(Upto(writes + 1))
    BY <1>2, <1>5
  <2> QED BY <1>2, <2>1, RowsOf
<1>7. Buried(rows, forgotten, pulled, cut) /\ NoBody(rows, tomb.id)
    BY <1>2, <1>5 DEF ForgetInv
<1>8. Buried(u, forgotten, pulled, cut)
  <2>1. rows \in Seq(Upto(writes + 1)) /\ forgotten \subseteq Tombs(writes)
    BY <1>2, <1>5 DEF Basic, FileInv
  <2> QED BY <1>2, <1>6, <1>7, <2>1, BuriedAppend
<1>9. \A r \in ToSet(rows) : r.n # tomb.n
  <2>1. rows \in Seq(Upto(writes))
    BY <1>2, <1>5
  <2>2. \A r \in ToSet(rows) : r.n \in 1..writes
    BY <1>2, <2>1, SerialsOf
  <2> QED BY <1>2, <2>2
<1>10. \A r \in ToSet(peer) : r.n # tomb.n
  <2>1. peer \in Seq(Upto(writes))
    BY DEF Basic, FileInv
  <2>2. \A r \in ToSet(peer) : r.n \in 1..writes
    BY <1>2, <2>1, SerialsOf
  <2> QED BY <1>2, <2>2
<1>11. Erased(u, forgotten', pulled)
  <2> SUFFICES ASSUME NEW r \in ToSet(u), r.id = tomb.id, r.kind \in Bodies
               PROVE  FALSE
    BY <1>2, <1>8 DEF Buried, Erased
  <2>1. tomb.kind \notin Bodies
    BY <1>2, TombsOf
  <2> QED BY <1>6, <1>7, <2>1 DEF NoBody
<1>12. Sole(u, forgotten')
    BY <1>2, <1>6, <1>8, <1>9 DEF Buried, Sole
<1>13. Standing(u, forgotten', cut)
    BY <1>2, <1>6, <1>8 DEF Buried, Standing
<1>14. Sole(peer, forgotten')
    BY <1>2, <1>10 DEF ForgetInv, Sole
<1>15. Buried(log', forgotten', pulled', cut') /\ Sole(peer', forgotten')
    BY <1>2, <1>5, <1>11, <1>12, <1>13, <1>14 DEF Buried
<1> QED BY <1>4, <1>15, ForgetAlone

\* The rows a merge puts back are some of the other clone's.
LEMMA MergedRows ==
    ASSUME Basic, UnionMerge
    PROVE  \E S \in SUBSET ToSet(peer) :
             ToSet(log') = ToSet(log) \cup S /\ pulled' = pulled \cup {r.n : r \in S}
BY MergeIs

LEMMA RestForget ==
    ASSUME Basic, ForgetInv,
           \/ \E p \in Procs : AppendRead(p) \/ Die(p)
           \/ PeerCopies \/ UnionMerge \/ UNCHANGED vars
    PROVE  ForgetInv'
<1>1. forgotten' = forgotten /\ cut' = cut
    BY DEF AppendRead, Die, PeerCopies, UnionMerge, vars, history
<1>2. \A q \in Procs : pc'[q] \in Locked => pc'[q] = pc[q] /\ op'[q] = op[q]
    BY RestStages
<1>3. Buried(log, forgotten, pulled, cut) /\ Sole(log, forgotten) /\ Sole(peer, forgotten)
    BY DEF ForgetInv, Buried
<1>4. CASE UnionMerge
  <2>1. PICK S \in SUBSET ToSet(peer) :
          ToSet(log') = ToSet(log) \cup S /\ pulled' = pulled \cup {r.n : r \in S}
    BY <1>4, MergedRows
  <2>2. PICK u, P : u = log' /\ P = pulled'
    OBVIOUS
  <2>3. ToSet(u) = ToSet(log) \cup S /\ pulled \subseteq P /\ \A r \in S : r.n \in P
    BY <2>1, <2>2
  <2>4. Erased(u, forgotten, P)
    BY <1>3, <2>3 DEF Buried, Erased
  <2>5. Sole(u, forgotten)
    BY <1>3, <2>3 DEF Sole
  <2>6. Standing(u, forgotten, cut)
    BY <1>3, <2>3 DEF Buried, Standing
  <2>7. Buried(log', forgotten, pulled', cut) /\ pulled \subseteq pulled'
    BY <2>2, <2>3, <2>4, <2>5, <2>6 DEF Buried
  <2>8. peer' = peer
    BY <1>4 DEF UnionMerge
  <2> QED BY <1>1, <1>2, <1>3, <2>7, <2>8, ForgetQuiet
<1>5. CASE ~ UnionMerge
  <2>1. log' = log /\ pulled' = pulled /\ peer' \in {peer, log}
    BY <1>5 DEF AppendRead, Die, PeerCopies, vars, history
  <2>2. Buried(log', forgotten, pulled', cut) /\ pulled \subseteq pulled' /\ Sole(peer', forgotten)
    BY <1>3, <2>1
  <2> QED BY <1>1, <1>2, <2>2, ForgetQuiet
<1> QED BY <1>4, <1>5

LEMMA ForgetInvariant == Spec => []ForgetInv
<1>1. Init => ForgetInv
  <2> SUFFICES ASSUME Init PROVE ForgetInv
    OBVIOUS
  <2>1. forgotten = {} /\ \A p \in Procs : pc[p] = "idle"
    BY DEF Init
  <2> QED BY <2>1 DEF ForgetInv, Buried, Erased, Sole, Standing
<1>2. Basic /\ ForgetInv /\ [Next]_vars => ForgetInv'
  <2> SUFFICES ASSUME Basic, ForgetInv, [Next]_vars PROVE ForgetInv'
    OBVIOUS
  <2> QED BY AppendWriteForget, AppendTornForget, TrimReadForget, TrimEndsForget,
             ForgetReadForget, ForgetRewriteForget, RestForget DEF Next
<1> QED BY <1>1, <1>2, BasicInvariant, PTL DEF Spec

\* No raw reader finds a row of a forgotten id from before the forget, unless a
\* merge put it back (forget_decision).
THEOREM BodiesAreErased == Spec => []BodyErased
<1>1. ForgetInv => BodyErased
    BY DEF ForgetInv, Buried, Erased, BodyErased
<1> QED BY <1>1, ForgetInvariant, PTL

\* A forgotten id is on no reader wherever a merge puts its rows back, unless a
\* trim dropped the tombstone (live_decision_records).
THEOREM ForgottenIsHidden == Spec => []ForgottenStaysHidden
<1>1. ASSUME Basic, ForgetInv PROVE ForgottenStaysHidden
  <2> SUFFICES ASSUME NEW t \in forgotten, t.n \notin cut, NEW r \in Surfaced(TRUE), r.id = t.id
               PROVE  FALSE
    BY DEF ForgottenStaysHidden
  <2>1. t \in ToSet(log)
    BY <1>1 DEF ForgetInv, Buried, Standing
  <2>2. PICK s : s = Parsed(log)
    OBVIOUS
  <2>3. writes \in Nat /\ log \in Seq(Upto(writes)) /\ t \in Tombs(writes)
    BY <1>1, LimitsAssumption DEF Basic, FileInv
  <2>4. t.kind = "tombstone" /\ t.kind # "torn"
    BY <2>3, TombsOf DEF Damages
  <2>5. PICK k \in DOMAIN s : r = s[k] /\ s[k].id \notin Tombstoned(s)
    BY <2>2 DEF Surfaced, Live
  <2>6. s = Only(log, Json(log))
    <3>1. s = <<>> \/ s = Only(log, Json(log))
      BY <2>2 DEF Parsed
    <3>2. s # <<>>
      <4>1. DOMAIN <<>> = {}
        OBVIOUS
      <4> QED BY <2>5, <4>1
    <3> QED BY <3>1, <3>2
  <2>7. PICK J : J = Json(log)
    OBVIOUS
  <2>8. ToSet(s) = ToSet(log) \cap J
    BY <2>3, <2>6, <2>7, OnlyIs
  <2>9. t \in ToSet(s)
    BY <2>1, <2>4, <2>7, <2>8 DEF Json
  <2>10. t.id \in Tombstoned(s)
    BY <2>4, <2>9 DEF Tombstoned
  <2> QED BY <2>5, <2>10
<1> QED BY <1>1, BasicInvariant, ForgetInvariant, PTL

-----------------------------------------------------------------------------
(* What a later record says of a failure *)

\* The rows of s are of the kind S has for their id; a failure that S retires,
\* and that no merge, P, put back, has a later record of its id behind it.
Told(s, S) ==
    \A r \in ToSet(s) :
        /\ r.kind = "decision" => S[r.id] = "decision"
        /\ r.kind \in Statuses => S[r.id] \in Statuses

Followed(s, S, P) ==
    \A j \in 1..Len(s) :
        s[j].kind = "failure" /\ S[s[j].id] = "retired" /\ s[j].n \notin P =>
            \E m \in 1..Len(s) : j < m /\ s[m].id = s[j].id /\ s[m].kind \in Statuses

Storied(s, S, P) == Told(s, S) /\ Followed(s, S, P)

\* An append of a new id has it alone; others supersede a failure.
Fits(c, S) == S[c.id] = "none" \/ (c.kind \in Statuses /\ S[c.id] \in Statuses)

RowsInv ==
    /\ Storied(log, said, pulled)
    /\ Told(peer, said)
    /\ \A p \in Procs : pc[p] \in {"replace", "rewrite"} => Storied(op[p].rows, said, pulled)

AppendsInv ==
    /\ \A p \in Procs : pc[p] = "append" => Fits(op[p], said)
    /\ \A p, q \in Procs :
          pc[p] = "append" /\ pc[q] = "append" /\ p # q /\ op[p].id = op[q].id
              => said[op[p].id] \in Statuses

SaidInv == RowsInv /\ AppendsInv

LEMMA StoriedGrows ==
    ASSUME NEW s, NEW S, NEW P, NEW Q, P \subseteq Q, Storied(s, S, P)
    PROVE  Storied(s, S, Q)
BY DEF Storied, Followed

\* A file that a row is appended to; S is what is said after it.
LEMMA StoriedAppend ==
    ASSUME NEW T, NEW s \in Seq(T), NEW e \in T, NEW S, NEW P, Storied(s, S, P),
           e.kind = "decision" => S[e.id] = "decision",
           e.kind \in Statuses => S[e.id] = e.kind
    PROVE  Storied(Append(s, e), S, P)
<1>1. PICK u : u = Append(s, e)
    OBVIOUS
<1>2. ToSet(u) = ToSet(s) \cup {e}
    BY <1>1, RowsOf
<1>3. /\ Len(s) \in Nat /\ Len(u) = Len(s) + 1 /\ u[Len(s) + 1] = e
      /\ \A i \in 1..Len(s) : u[i] = s[i]
    BY <1>1, AppendProperties, LenProperties
<1>4. Told(u, S)
  <2>1. Told(s, S)
    BY DEF Storied
  <2> QED BY <1>2, <2>1 DEF Told
<1>5. Followed(u, S, P)
  <2> SUFFICES ASSUME NEW j \in 1..Len(u), u[j].kind = "failure", S[u[j].id] = "retired",
                      u[j].n \notin P
               PROVE  \E m \in 1..Len(u) : j < m /\ u[m].id = u[j].id /\ u[m].kind \in Statuses
    BY DEF Followed
  <2>1. CASE j = Len(s) + 1
    <3>1. e.kind = "failure" /\ S[e.id] = "retired"
      BY <1>3, <2>1
    <3> QED BY <3>1 DEF Statuses
  <2>2. CASE j # Len(s) + 1
    <3>1. j \in 1..Len(s)
      BY <1>3, <2>2
    <3>2. s[j].kind = "failure" /\ S[s[j].id] = "retired" /\ s[j].n \notin P
      BY <1>3, <3>1
    <3>3. PICK m \in 1..Len(s) : j < m /\ s[m].id = s[j].id /\ s[m].kind \in Statuses
      BY <3>1, <3>2 DEF Storied, Followed
    <3>4. m \in 1..Len(u) /\ u[m] = s[m] /\ u[j] = s[j]
      BY <1>3, <3>1
    <3> QED BY <3>3, <3>4
  <2> QED BY <2>1, <2>2
<1> QED BY <1>1, <1>4, <1>5 DEF Storied

\* What the append of p says of the rows already there.
LEMMA StoriedRetold ==
    ASSUME NEW T, NEW s \in Seq(T), NEW S \in [Ids -> Bodies \cup {"none"}], NEW P,
           Storied(s, S, P), NEW i \in Ids, NEW k \in Bodies, NEW e \in T,
           e.id = i, e.kind = k, S[i] = "none" \/ (k \in Statuses /\ S[i] \in Statuses),
           \A r \in T : r.id \in Ids
    PROVE  Storied(Append(s, e), [S EXCEPT ![i] = k], P)
<1>1. PICK V : V = [S EXCEPT ![i] = k]
    OBVIOUS
<1>2. V[i] = k /\ \A x \in Ids : x # i => V[x] = S[x]
    BY <1>1
<1>3. PICK u : u = Append(s, e)
    OBVIOUS
<1>4. ToSet(u) = ToSet(s) \cup {e} /\ ToSet(s) \subseteq T
    BY <1>3, RowsOf
<1>5. /\ Len(s) \in Nat /\ Len(u) = Len(s) + 1 /\ u[Len(s) + 1] = e
      /\ \A x \in 1..Len(s) : u[x] = s[x] /\ s[x] \in T
    BY <1>3, AppendProperties, LenProperties, ElementOfSeq
<1>6. Told(u, V)
  <2> SUFFICES ASSUME NEW r \in ToSet(u)
               PROVE  /\ r.kind = "decision" => V[r.id] = "decision"
                      /\ r.kind \in Statuses => V[r.id] \in Statuses
    BY DEF Told
  <2>1. CASE r = e
    BY <1>2, <2>1
  <2>2. CASE r # e
    <3>1. r \in ToSet(s) /\ r.id \in Ids
      BY <1>4, <2>2
    <3>2. /\ r.kind = "decision" => S[r.id] = "decision"
          /\ r.kind \in Statuses => S[r.id] \in Statuses
      BY <3>1 DEF Storied, Told
    <3>3. CASE r.id = i
      BY <1>2, <3>2, <3>3 DEF Statuses
    <3>4. CASE r.id # i
      BY <1>2, <3>1, <3>2, <3>4
    <3> QED BY <3>3, <3>4
  <2> QED BY <2>1, <2>2
<1>7. Followed(u, V, P)
  <2> SUFFICES ASSUME NEW j \in 1..Len(u), u[j].kind = "failure", V[u[j].id] = "retired",
                      u[j].n \notin P
               PROVE  \E m \in 1..Len(u) : j < m /\ u[m].id = u[j].id /\ u[m].kind \in Statuses
    BY DEF Followed
  <2>1. j # Len(s) + 1
    <3> SUFFICES ASSUME j = Len(s) + 1 PROVE FALSE
      OBVIOUS
    <3> QED BY <1>2, <1>5
  <2>2. j \in 1..Len(s) /\ u[j] = s[j] /\ s[j] \in T
    BY <1>5, <2>1
  <2>3. CASE s[j].id = i
    <3>1. k = "retired"
      BY <1>2, <2>2, <2>3
    <3>2. Len(s) + 1 \in 1..Len(u) /\ j < Len(s) + 1
      BY <1>5, <2>2
    <3> QED BY <1>5, <2>2, <2>3, <3>1, <3>2 DEF Statuses
  <2>4. CASE s[j].id # i
    <3>1. S[s[j].id] = "retired"
      BY <1>2, <2>2, <2>4
    <3>2. PICK m \in 1..Len(s) : j < m /\ s[m].id = s[j].id /\ s[m].kind \in Statuses
      BY <2>2, <3>1 DEF Storied, Followed
    <3>3. m \in 1..Len(u) /\ u[m] = s[m]
      BY <1>5
    <3> QED BY <2>2, <3>2, <3>3
  <2> QED BY <2>3, <2>4
<1> QED BY <1>1, <1>3, <1>6, <1>7 DEF Storied

\* Of the rows picked from a file none loses the record that came behind it.
LEMMA StoriedPicked ==
    ASSUME NEW T, NEW s \in Seq(T), NEW t \in Seq(T), NEW S, NEW P, NEW J,
           Storied(s, S, P), Inherits(t, s, J), ToSet(t) \subseteq ToSet(s),
           \A r \in ToSet(t) : \A x \in ToSet(s) :
              r.kind = "failure" /\ x.id = r.id /\ x.kind \in Statuses => x \in J
    PROVE  Storied(t, S, P)
<1>1. Told(t, S)
    BY DEF Storied, Told
<1>2. PICK h : Picks(t, s, J, h)
    BY DEF Inherits
<1>3. /\ h \in [1..Len(t) -> 1..Len(s)]
      /\ \A k \in 1..Len(t) : t[k] = s[h[k]]
      /\ \A k, l \in 1..Len(t) : k < l => h[k] < h[l]
      /\ \A k \in 1..Len(t) : \A m \in 1..Len(s) :
            h[k] < m /\ s[m] \in J => \E l \in 1..Len(t) : h[l] = m
    BY <1>2 DEF Picks
<1>4. /\ Len(s) \in Nat /\ Len(t) \in Nat /\ DOMAIN s = 1..Len(s) /\ DOMAIN t = 1..Len(t)
      /\ \A i \in 1..Len(s) : s[i] \in ToSet(s)
      /\ \A i \in 1..Len(t) : t[i] \in ToSet(t)
    BY LenProperties DEF ToSet
<1>5. Followed(t, S, P)
  <2> SUFFICES ASSUME NEW j \in 1..Len(t), t[j].kind = "failure", S[t[j].id] = "retired",
                      t[j].n \notin P
               PROVE  \E m \in 1..Len(t) : j < m /\ t[m].id = t[j].id /\ t[m].kind \in Statuses
    BY DEF Followed
  <2>1. PICK i \in 1..Len(s) : i = h[j] /\ t[j] = s[i]
    BY <1>3
  <2>2. PICK m \in 1..Len(s) : i < m /\ s[m].id = s[i].id /\ s[m].kind \in Statuses
    BY <2>1 DEF Storied, Followed
  <2>3. s[m] \in J
    BY <1>4, <2>1, <2>2
  <2>4. PICK l \in 1..Len(t) : h[l] = m
    BY <1>3, <2>1, <2>2, <2>3
  <2>5. t[l] = s[m]
    BY <1>3, <2>4
  <2>6. j < l
    <3>1. h[l] \in 1..Len(s) /\ h[j] \in 1..Len(s) /\ h[j] < h[l]
      BY <1>3, <2>1, <2>2, <2>4
    <3>2. j # l
      BY <1>4, <3>1
    <3>3. ~ (l < j)
      <4> SUFFICES ASSUME l < j PROVE FALSE
        OBVIOUS
      <4>1. h[l] < h[j]
        BY <1>3
      <4> QED BY <1>4, <3>1, <4>1
    <3> QED BY <1>4, <3>2, <3>3
  <2> QED BY <2>1, <2>2, <2>5, <2>6
<1> QED BY <1>1, <1>5 DEF Storied

\* The line an append left damaged is damaged once more.
LEMMA StoriedSwapped ==
    ASSUME NEW T, NEW s \in Seq(T), NEW i \in 1..Len(s), NEW e \in T, NEW u,
           Swapped(u, s, i, e), s[i].kind \in Damages, e.kind \in Damages,
           NEW S, NEW P, Storied(s, S, P)
    PROVE  Storied(u, S, P)
<1>1. e.kind \notin Statuses /\ e.kind # "decision" /\ e.kind # "failure"
      /\ s[i].kind \notin Statuses
    BY DEF Damages, Statuses
<1>2. Told(u, S)
    BY <1>1 DEF Swapped, Storied, Told
<1>3. Followed(u, S, P)
  <2> SUFFICES ASSUME NEW j \in 1..Len(u), u[j].kind = "failure", S[u[j].id] = "retired",
                      u[j].n \notin P
               PROVE  \E m \in 1..Len(u) : j < m /\ u[m].id = u[j].id /\ u[m].kind \in Statuses
    BY DEF Followed
  <2>1. j # i /\ j \in 1..Len(s) /\ u[j] = s[j]
    BY <1>1 DEF Swapped
  <2>2. PICK m \in 1..Len(s) : j < m /\ s[m].id = s[j].id /\ s[m].kind \in Statuses
    BY <2>1 DEF Storied, Followed
  <2>3. m # i
    BY <1>1, <2>2
  <2>4. m \in 1..Len(u) /\ u[m] = s[m]
    BY <2>3 DEF Swapped
  <2> QED BY <2>1, <2>2, <2>4
<1> QED BY <1>2, <1>3 DEF Storied

\* Rows that a merge puts above, or below, are known to be put back.
LEMMA StoriedMerged ==
    ASSUME NEW T, NEW s \in Seq(T), NEW back \in Seq(T), NEW S, NEW P, NEW u,
           Storied(s, S, P), u = back \o s \/ u = s \o back,
           \A r \in ToSet(back) : r.n \in P, Told(back, S), ToSet(u) = ToSet(s) \cup ToSet(back)
    PROVE  Storied(u, S, P)
<1>1. Told(u, S)
    BY DEF Storied, Told
<1>2. /\ Len(s) \in Nat /\ Len(back) \in Nat
      /\ \A i \in 1..Len(back) : back[i].n \in P
    BY LenProperties DEF ToSet
<1>3. PICK off \in Nat :
        /\ Len(u) = Len(s) + Len(back)
        /\ \A i \in 1..Len(s) : off + i \in 1..Len(u) /\ u[off + i] = s[i]
        /\ \A j \in 1..Len(u) : (u[j].n \in P) \/ (j - off \in 1..Len(s) /\ j = off + (j - off))
  <2>1. CASE u = back \o s
    <3>1. /\ Len(u) = Len(back) + Len(s)
          /\ \A i \in 1..(Len(back) + Len(s)) :
               u[i] = IF i <= Len(back) THEN back[i] ELSE s[i - Len(back)]
      BY <2>1, ConcatProperties
    <3>2. \A i \in 1..Len(s) : Len(back) + i \in 1..Len(u) /\ u[Len(back) + i] = s[i]
      <4> TAKE i \in 1..Len(s)
      <4>1. Len(back) + i \in 1..(Len(back) + Len(s)) /\ ~ (Len(back) + i <= Len(back))
            /\ Len(back) + i - Len(back) = i
        BY <1>2
      <4>2. u[Len(back) + i] = s[Len(back) + i - Len(back)]
        BY <3>1, <4>1
      <4> QED BY <3>1, <4>1, <4>2
    <3>3. ASSUME NEW j \in 1..Len(u)
          PROVE  (u[j].n \in P) \/ (j - Len(back) \in 1..Len(s) /\ j = Len(back) + (j - Len(back)))
      <4>1. j \in 1..(Len(back) + Len(s))
        BY <3>1
      <4>2. CASE j <= Len(back)
        <5>1. j \in 1..Len(back) /\ u[j] = back[j]
          BY <1>2, <3>1, <4>1, <4>2
        <5> QED BY <1>2, <5>1
      <4>3. CASE ~ (j <= Len(back))
        BY <1>2, <4>1, <4>3
      <4> QED BY <4>2, <4>3
    <3>4. Len(u) = Len(s) + Len(back)
      BY <1>2, <3>1
    <3> QED BY <1>2, <3>2, <3>3, <3>4
  <2>2. CASE u = s \o back
    <3>1. /\ Len(u) = Len(s) + Len(back)
          /\ \A i \in 1..(Len(s) + Len(back)) :
               u[i] = IF i <= Len(s) THEN s[i] ELSE back[i - Len(s)]
      BY <2>2, ConcatProperties
    <3>2. \A i \in 1..Len(s) : 0 + i \in 1..Len(u) /\ u[0 + i] = s[i]
      <4> TAKE i \in 1..Len(s)
      <4>1. i \in 1..(Len(s) + Len(back)) /\ i <= Len(s) /\ 0 + i = i
        BY <1>2
      <4> QED BY <3>1, <4>1
    <3>3. ASSUME NEW j \in 1..Len(u)
          PROVE  (u[j].n \in P) \/ (j - 0 \in 1..Len(s) /\ j = 0 + (j - 0))
      <4>1. j \in 1..(Len(s) + Len(back))
        BY <3>1
      <4>2. CASE ~ (j <= Len(s))
        <5>1. j - Len(s) \in 1..Len(back) /\ u[j] = back[j - Len(s)]
          BY <1>2, <3>1, <4>1, <4>2
        <5> QED BY <1>2, <5>1
      <4>3. CASE j <= Len(s)
        BY <1>2, <4>1, <4>3
      <4> QED BY <4>2, <4>3
    <3>4. 0 \in Nat
      OBVIOUS
    <3> QED BY <3>1, <3>2, <3>3, <3>4
  <2> QED BY <2>1, <2>2
<1>4. Followed(u, S, P)
  <2> SUFFICES ASSUME NEW j \in 1..Len(u), u[j].kind = "failure", S[u[j].id] = "retired",
                      u[j].n \notin P
               PROVE  \E m \in 1..Len(u) : j < m /\ u[m].id = u[j].id /\ u[m].kind \in Statuses
    BY DEF Followed
  <2>1. PICK i \in 1..Len(s) : j = off + i
    BY <1>3
  <2>2. u[j] = s[i]
    BY <1>3, <2>1
  <2>3. PICK m \in 1..Len(s) : i < m /\ s[m].id = s[i].id /\ s[m].kind \in Statuses
    BY <2>2 DEF Storied, Followed
  <2>4. off + m \in 1..Len(u) /\ u[off + m] = s[m]
    BY <1>3
  <2>5. j < off + m
    BY <1>2, <1>3, <2>1, <2>3
  <2> QED BY <2>2, <2>3, <2>4, <2>5
<1> QED BY <1>1, <1>4 DEF Storied

-----------------------------------------------------------------------------
(* The rows, through every step *)

\* What is in force when nobody but p is under the lock after a step of p.
LEMMA RowsAlone ==
    ASSUME NEW p \in Procs, \A q \in Procs : q # p => pc'[q] \notin Locked,
           Storied(log', said', pulled'), Told(peer', said'),
           pc'[p] \in {"replace", "rewrite"} => Storied(op'[p].rows, said', pulled')
    PROVE  RowsInv'
<1>1. ASSUME NEW q \in Procs, pc'[q] \in {"replace", "rewrite"}
      PROVE  Storied(op'[q].rows, said', pulled')
  <2>1. q = p
    BY <1>1 DEF Locked
  <2> QED BY <1>1, <2>1
<1> QED BY <1>1 DEF RowsInv

\* A step of a process that is not under the lock after it, or of git.
LEMMA RowsQuiet ==
    ASSUME RowsInv, said' = said, pulled \subseteq pulled',
           Storied(log', said, pulled'), Told(peer', said),
           \A p \in Procs : pc'[p] \in Locked => pc'[p] = pc[p] /\ op'[p] = op[p]
    PROVE  RowsInv'
<1>1. ASSUME NEW q \in Procs, pc'[q] \in {"replace", "rewrite"}
      PROVE  Storied(op'[q].rows, said', pulled')
  <2>1. pc[q] \in {"replace", "rewrite"} /\ op'[q] = op[q]
    BY <1>1 DEF Locked
  <2>2. Storied(op[q].rows, said, pulled)
    BY <2>1 DEF RowsInv
  <2>3. Storied(op[q].rows, said, pulled')
    BY <2>2, StoriedGrows
  <2> QED BY <2>1, <2>3
<1> QED BY <1>1 DEF RowsInv

LEMMA PeerRetold ==
    ASSUME NEW w \in Nat, NEW s \in Seq(Upto(w)), NEW S \in [Ids -> Bodies \cup {"none"}],
           Told(s, S), NEW i \in Ids, NEW k \in Bodies,
           S[i] = "none" \/ (k \in Statuses /\ S[i] \in Statuses)
    PROVE  Told(s, [S EXCEPT ![i] = k])
<1>1. PICK V : V = [S EXCEPT ![i] = k]
    OBVIOUS
<1>2. V[i] = k /\ \A x \in Ids : x # i => V[x] = S[x]
    BY <1>1
<1>3. Told(s, V)
  <2> SUFFICES ASSUME NEW r \in ToSet(s)
               PROVE  /\ r.kind = "decision" => V[r.id] = "decision"
                      /\ r.kind \in Statuses => V[r.id] \in Statuses
    BY DEF Told
  <2>1. r.id \in Ids
    <3>1. r \in Upto(w)
      BY SerialsOf
    <3> QED BY <3>1 DEF Upto
  <2>2. /\ r.kind = "decision" => S[r.id] = "decision"
        /\ r.kind \in Statuses => S[r.id] \in Statuses
    BY DEF Told
  <2>3. CASE r.id = i
    BY <1>2, <2>2, <2>3 DEF Statuses
  <2>4. CASE r.id # i
    BY <1>2, <2>1, <2>2, <2>4
  <2> QED BY <2>3, <2>4
<1> QED BY <1>1, <1>3

LEMMA AppendWriteRows ==
    ASSUME Basic, SaidInv, NEW p \in Procs, AppendWrite(p)
    PROVE  RowsInv'
<1>1. /\ pc[p] = "append" /\ writes < MaxWrites /\ lock = NoProc
      /\ UNCHANGED <<peer, pulled>> /\ pc' = [pc EXCEPT ![p] = "trim"]
    BY DEF AppendWrite, Acquire
<1>2. PICK c : op' = [op EXCEPT ![p] = c]
    BY DEF AppendWrite
<1>3. pc'[p] = "trim" /\ \A q \in Procs : q # p => pc'[q] \notin Locked
    BY <1>1, <1>2, After
<1>4. Storied(log, said, pulled) /\ Told(peer, said)
    BY DEF SaidInv, RowsInv
<1>5. CASE open
  <2>1. log' = log /\ said' = said
    BY <1>5 DEF AppendWrite
  <2> QED BY <1>1, <1>3, <1>4, <2>1, RowsAlone
<1>6. CASE ~ open
  <2>1. PICK i, k, e : i = op[p].id /\ k = op[p].kind /\ e = NewRow(p, k)
    OBVIOUS
  <2>2. k \in Bodies /\ k \in Kinds \cup Damages
    BY <2>1, CallOf DEF Kinds
  <2>3. /\ writes \in Nat /\ writes + 1 \in Nat /\ writes <= writes + 1
        /\ i \in Ids /\ e \in Upto(writes + 1) /\ e.id = i /\ e.kind = k
    BY <1>1, <2>1, <2>2, NewRowIs
  <2>4. log' = Append(log, e) /\ said' = [said EXCEPT ![i] = k]
    BY <1>6, <2>1 DEF AppendWrite
  <2>5. said[i] = "none" \/ (k \in Statuses /\ said[i] \in Statuses)
    BY <1>1, <2>1 DEF SaidInv, AppendsInv, Fits
  <2>6. said \in [Ids -> Bodies \cup {"none"}]
    BY DEF Basic, FileInv
  <2>7. log \in Seq(Upto(writes + 1)) /\ peer \in Seq(Upto(writes + 1))
    BY <2>3, HistoryGrows DEF Basic
  <2>8. \A r \in Upto(writes + 1) : r.id \in Ids
    BY DEF Upto
  <2>9. Storied(log', said', pulled')
    <3>1. Storied(Append(log, e), [said EXCEPT ![i] = k], pulled)
      BY <1>4, <2>2, <2>3, <2>5, <2>6, <2>7, <2>8, StoriedRetold
    <3> QED BY <1>1, <2>4, <3>1
  <2>10. Told(peer', said')
    <3>1. Told(peer, [said EXCEPT ![i] = k])
      BY <1>4, <2>2, <2>3, <2>5, <2>6, <2>7, PeerRetold
    <3> QED BY <1>1, <2>4, <3>1
  <2> QED BY <1>3, <2>9, <2>10, RowsAlone
<1> QED BY <1>5, <1>6

LEMMA AppendTornRows ==
    ASSUME Basic, RowsInv, NEW p \in Procs, AppendTorn(p)
    PROVE  RowsInv'
<1>1. UNCHANGED <<peer, said, pulled>>
    BY DEF AppendTorn, history
<1>2. /\ writes \in Nat /\ writes + 1 \in Nat /\ writes <= writes + 1
      /\ log \in Seq(Upto(writes)) /\ log \in Seq(Upto(writes + 1))
  <2>1. writes \in Nat /\ writes + 1 \in Nat /\ writes <= writes + 1
    BY LimitsAssumption DEF Basic, FileInv
  <2> QED BY <2>1, HistoryGrows DEF Basic, FileInv
<1>3. Storied(log, said, pulled) /\ Told(peer, said)
    BY DEF RowsInv
<1>4. Storied(log', said, pulled)
  <2>1. PICK k \in Damages :
             \/ /\ ~ open /\ log' = Append(log, NewRow(p, k)) /\ NewRow(p, k) \in Upto(writes + 1)
                /\ NewRow(p, k).kind = k
             \/ /\ open /\ Len(log) \in Nat \ {0} /\ log[Len(log)].kind \in Damages
                /\ \E e \in Upto(writes) :
                     /\ e.kind \in Damages
                     /\ log' = [log EXCEPT ![Len(log)] = e]
    BY TornIs
  <2>2. CASE ~ open
    <3>1. PICK e \in Upto(writes + 1) : log' = Append(log, e) /\ e.kind \in Damages
      BY <2>1, <2>2
    <3>2. e.kind # "decision" /\ e.kind \notin Statuses
      BY <3>1 DEF Damages, Statuses
    <3>3. Storied(Append(log, e), said, pulled)
      BY <1>2, <1>3, <3>2, StoriedAppend
    <3> QED BY <3>1, <3>3
  <2>3. CASE open
    <3>1. PICK e \in Upto(writes) : e.kind \in Damages /\ log' = [log EXCEPT ![Len(log)] = e]
      BY <2>1, <2>3
    <3>2. PICK u, i : u = log' /\ i = Len(log)
      OBVIOUS
    <3>3. i \in 1..Len(log) /\ u = [log EXCEPT ![i] = e] /\ e \in Upto(writes)
          /\ log[i].kind \in Damages /\ e.kind \in Damages
      BY <2>1, <2>3, <3>1, <3>2
    <3>4. Swapped(u, log, i, e)
      BY <1>2, <3>3, ReplacedIs
    <3>5. Storied(u, said, pulled)
      BY <1>2, <1>3, <3>3, <3>4, StoriedSwapped
    <3> QED BY <3>2, <3>5
  <2> QED BY <2>2, <2>3
<1>5. \A q \in Procs : pc'[q] \in Locked => pc'[q] = pc[q] /\ op'[q] = op[q]
    BY RestStages
<1> QED BY <1>1, <1>3, <1>4, <1>5, RowsQuiet

LEMMA TrimReadRows ==
    ASSUME Basic, RowsInv, NEW p \in Procs, TrimRead(p)
    PROVE  RowsInv'
<1>1. /\ pc[p] = "trim" /\ pc' = [pc EXCEPT ![p] = "replace"] /\ lock' = lock
      /\ UNCHANGED <<log, peer, said, pulled>>
    BY DEF TrimRead, history
<1>2. PICK kept, J : kept = Kept(log) /\ J = Json(log)
    OBVIOUS
<1>3. PICK c \in Calls(writes) : /\ c.rows = kept
                                 /\ op' = [op EXCEPT ![p] = c]
                                 /\ kept \in Seq(Upto(writes)) /\ ToSet(kept) \subseteq ToSet(log)
                                 /\ Inherits(kept, log, J)
    BY <1>2, TrimReadIs
<1>4. lock = p
    BY <1>1, HolderIs DEF Locked
<1>5. /\ pc'[p] = "replace" /\ op'[p] = c
      /\ \A q \in Procs : q # p => pc'[q] \notin Locked
    BY <1>1, <1>3, <1>4, After
<1>6. Storied(log, said, pulled) /\ Told(peer, said)
    BY DEF RowsInv
<1>7. Storied(kept, said, pulled)
  <2>1. \A x \in ToSet(log) : x.kind \in Statuses => x \in J
    BY <1>2 DEF Json, Statuses
  <2>2. log \in Seq(Upto(writes))
    BY DEF Basic, FileInv
  <2> QED BY <1>3, <1>6, <2>1, <2>2, StoriedPicked
<1> QED BY <1>1, <1>3, <1>5, <1>6, <1>7, RowsAlone

LEMMA ForgetReadRows ==
    ASSUME Basic, RowsInv, NEW p \in Procs, ForgetRead(p)
    PROVE  RowsInv'
<1>1. /\ lock = NoProc /\ pc' = [pc EXCEPT ![p] = "rewrite"]
      /\ UNCHANGED <<log, peer, said, pulled>>
    BY DEF ForgetRead, Acquire, history
<1>2. PICK i \in Ids, c \in Calls(writes), kept \in Seq(Upto(writes)) :
             /\ c.rows = kept
             /\ op' = [op EXCEPT ![p] = c]
             /\ ToSet(kept) = ToSet(log) \ Victims(i)
             /\ Inherits(kept, log, ToSet(log) \ Victims(i))
    BY ForgetReadIs
<1>3. /\ pc'[p] = "rewrite" /\ op'[p] = c
      /\ \A q \in Procs : q # p => pc'[q] \notin Locked
    BY <1>1, <1>2, After
<1>4. Storied(log, said, pulled) /\ Told(peer, said)
    BY DEF RowsInv
<1>5. Storied(kept, said, pulled)
  <2>1. PICK J : J = ToSet(log) \ Victims(i)
    OBVIOUS
  <2>2. ASSUME NEW r \in ToSet(kept), NEW x \in ToSet(log),
               r.kind = "failure", x.id = r.id, x.kind \in Statuses
        PROVE  x \in J
    <3>1. r \in ToSet(log) /\ r \notin Victims(i)
      BY <1>2
    <3>2. r.id # i
      BY <2>2, <3>1 DEF Victims, Bodies, Statuses
    <3> QED BY <2>1, <2>2, <3>2 DEF Victims
  <2>3. log \in Seq(Upto(writes)) /\ kept \in Seq(Upto(writes))
        /\ Inherits(kept, log, J) /\ ToSet(kept) \subseteq ToSet(log)
    BY <1>2, <2>1 DEF Basic, FileInv
  <2> QED BY <1>4, <2>2, <2>3, StoriedPicked
<1> QED BY <1>1, <1>2, <1>3, <1>4, <1>5, RowsAlone

LEMMA TrimEndsRows ==
    ASSUME Basic, RowsInv, NEW p \in Procs, TrimNone(p) \/ TrimReplace(p) \/ TrimFails(p)
    PROVE  RowsInv'
<1>1. /\ pc[p] \in {"trim", "replace"}
      /\ pc' = [pc EXCEPT ![p] = "idle"] /\ op' = [op EXCEPT ![p] = NoOp]
      /\ UNCHANGED <<peer, said, pulled>>
    BY DEF TrimNone, TrimReplace, TrimFails, Acknowledge, Release, Leave, history
<1>2. lock = p
    BY <1>1, HolderIs DEF Locked
<1>3. pc'[p] = "idle" /\ \A q \in Procs : q # p => pc'[q] \notin Locked
    BY <1>1, <1>2, After
<1>4. Storied(log', said', pulled')
  <2>1. CASE TrimNone(p) \/ TrimFails(p)
    BY <1>1, <2>1 DEF TrimNone, TrimFails, RowsInv, history
  <2>2. CASE TrimReplace(p)
    BY <1>1, <2>2 DEF TrimReplace, RowsInv
  <2> QED BY <2>1, <2>2
<1>5. Told(peer', said')
    BY <1>1 DEF RowsInv
<1> QED BY <1>3, <1>4, <1>5, RowsAlone

LEMMA ForgetRewriteRows ==
    ASSUME Basic, RowsInv, NEW p \in Procs, ForgetRewrite(p)
    PROVE  RowsInv'
<1>1. PICK tomb : tomb = NewRow(p, "tombstone")
    OBVIOUS
<1>2. /\ pc[p] = "rewrite" /\ lock = p /\ Release(p)
      /\ tomb \in Upto(writes + 1) /\ tomb.kind = "tombstone"
      /\ op[p].rows \in Seq(Upto(writes + 1))
      /\ log' = Append(op[p].rows, tomb)
      /\ UNCHANGED <<peer, said, pulled>>
    BY <1>1, ForgetRewriteIs
<1>3. pc' = [pc EXCEPT ![p] = "idle"] /\ op' = [op EXCEPT ![p] = NoOp]
    BY <1>2 DEF Release, Leave
<1>4. pc'[p] = "idle" /\ \A q \in Procs : q # p => pc'[q] \notin Locked
    BY <1>2, <1>3, After
<1>5. Storied(op[p].rows, said, pulled) /\ Told(peer, said)
    BY <1>2 DEF RowsInv
<1>6. tomb.kind # "decision" /\ tomb.kind \notin Statuses
    BY <1>2 DEF Statuses
<1>7. Storied(Append(op[p].rows, tomb), said, pulled)
    BY <1>2, <1>5, <1>6, StoriedAppend
<1>8. Storied(log', said', pulled') /\ Told(peer', said')
    BY <1>2, <1>5, <1>7
<1> QED BY <1>4, <1>8, RowsAlone

LEMMA RestRows ==
    ASSUME Basic, RowsInv,
           \/ \E p \in Procs : AppendRead(p) \/ Die(p)
           \/ PeerCopies \/ UnionMerge \/ UNCHANGED vars
    PROVE  RowsInv'
<1>1. said' = said
    BY DEF AppendRead, Die, PeerCopies, UnionMerge, vars, history
<1>2. \A q \in Procs : pc'[q] \in Locked => pc'[q] = pc[q] /\ op'[q] = op[q]
    BY RestStages
<1>3. Storied(log, said, pulled) /\ Told(log, said) /\ Told(peer, said)
    BY DEF RowsInv, Storied
<1>4. CASE UnionMerge
  <2>1. PICK S \in SUBSET ToSet(peer), back \in Seq(Upto(writes)) :
         /\ ToSet(back) = S /\ pulled' = pulled \cup {r.n : r \in S}
         /\ ToSet(log') = ToSet(log) \cup S
         /\ log' = back \o log \/ log' = log \o back
    BY <1>4, MergeIs
  <2>2. PICK u, P : u = log' /\ P = pulled'
    OBVIOUS
  <2>3. /\ pulled \subseteq P /\ \A r \in ToSet(back) : r.n \in P
        /\ u = back \o log \/ u = log \o back
        /\ back \in Seq(Upto(writes)) /\ log \in Seq(Upto(writes))
    BY <2>1, <2>2 DEF Basic, FileInv
  <2>4. Storied(log, said, P) /\ Told(back, said)
    <3>1. Storied(log, said, P)
      BY <1>3, <2>3, StoriedGrows
    <3> QED BY <1>3, <2>1, <3>1 DEF Told
  <2>5. ToSet(u) = ToSet(log) \cup ToSet(back)
    BY <2>1, <2>2
  <2>6. Storied(u, said, P)
    BY <2>3, <2>4, <2>5, StoriedMerged
  <2>7. Storied(log', said, pulled') /\ pulled \subseteq pulled' /\ Told(peer', said)
    BY <1>3, <1>4, <2>2, <2>3, <2>6 DEF UnionMerge
  <2> QED BY <1>1, <1>2, <2>7, RowsQuiet
<1>5. CASE ~ UnionMerge
  <2>1. log' = log /\ pulled' = pulled /\ peer' \in {peer, log}
    BY <1>5 DEF AppendRead, Die, PeerCopies, vars, history
  <2>2. Storied(log', said, pulled') /\ pulled \subseteq pulled' /\ Told(peer', said)
    BY <1>3, <2>1
  <2> QED BY <1>1, <1>2, <2>2, RowsQuiet
<1> QED BY <1>4, <1>5

-----------------------------------------------------------------------------
(* Who appends what *)

\* The readers' rows are in the file, and none is torn.
LEMMA ParsedIs ==
    ASSUME Basic, NEW s, s = Parsed(log), s # <<>>, NEW J, J = Json(log)
    PROVE  /\ s \in Seq(Upto(writes)) /\ ToSet(s) = ToSet(log) \cap J
           /\ Inherits(s, log, J)
           /\ \A r \in ToSet(s) : r.kind \in Kinds
<1>1. s = Only(log, J) /\ ~ \E r \in ToSet(log) : r.kind = "mangled"
    BY DEF Parsed
<1>2. log \in Seq(Upto(writes)) /\ writes \in Nat
    BY LimitsAssumption DEF Basic, FileInv
<1>3. s \in Seq(Upto(writes)) /\ ToSet(s) = ToSet(log) \cap J /\ Inherits(s, log, J)
    BY <1>1, <1>2, OnlyIs
<1>4. ASSUME NEW r \in ToSet(s) PROVE r.kind \in Kinds
  <2>1. r \in ToSet(log) /\ r.kind # "torn" /\ r.kind # "mangled"
    BY <1>1, <1>3 DEF Json
  <2>2. r \in Upto(writes)
    BY <1>2, <2>1, SerialsOf
  <2> QED BY <2>1, <2>2 DEF Upto, Damages
<1> QED BY <1>3, <1>4

\* A step that starts no append, and says nothing.
LEMMA AppendsQuiet ==
    ASSUME AppendsInv, said' = said,
           \A q \in Procs : pc'[q] = "append" => pc[q] = "append" /\ op'[q] = op[q]
    PROVE  AppendsInv'
<1>1. \A q \in Procs : pc'[q] = "append" => Fits(op'[q], said')
    BY DEF AppendsInv
<1>2. ASSUME NEW p \in Procs, NEW q \in Procs, pc'[p] = "append", pc'[q] = "append", p # q,
             op'[p].id = op'[q].id
      PROVE  said'[op'[p].id] \in Statuses
    BY <1>2 DEF AppendsInv
<1> QED BY <1>1, <1>2 DEF AppendsInv

LEMMA AppendReadAppends ==
    ASSUME Basic, SaidInv, NEW p \in Procs, AppendRead(p)
    PROVE  AppendsInv'
<1>1. pc' = [pc EXCEPT ![p] = "append"] /\ said' = said
    BY DEF AppendRead, history
<1>2. PICK i \in Ids, k \in Bodies :
        /\ i \in FreshIds \/ (k \in Statuses /\ i \in KnownFailures)
        /\ op' = [op EXCEPT ![p] = [NoOp EXCEPT !.id = i, !.kind = k]]
    BY DEF AppendRead
<1>3. PICK c : c = [NoOp EXCEPT !.id = i, !.kind = k]
    OBVIOUS
<1>4. c.id = i /\ c.kind = k
    BY <1>3 DEF NoOp
<1>5. /\ op'[p] = c /\ \A q \in Procs : q # p => pc'[q] = pc[q] /\ op'[q] = op[q]
    BY <1>1, <1>2, <1>3, After, ZenonT(30)
<1>6. CASE i \in FreshIds
  <2>1. said[i] = "none" /\ \A q \in Procs : op[q].id # i
    BY <1>6 DEF FreshIds
  <2>2. \A q \in Procs : pc'[q] = "append" => Fits(op'[q], said')
    <3> TAKE q \in Procs
    <3>1. CASE q = p
      BY <1>1, <1>4, <1>5, <2>1, <3>1 DEF Fits
    <3>2. CASE q # p
      BY <1>1, <1>5, <3>2 DEF SaidInv, AppendsInv
    <3> QED BY <3>1, <3>2
  <2>3. ASSUME NEW a \in Procs, NEW b \in Procs, pc'[a] = "append", pc'[b] = "append", a # b,
               op'[a].id = op'[b].id
        PROVE  said'[op'[a].id] \in Statuses
    <3>1. a # p /\ b # p
      BY <1>4, <1>5, <2>1, <2>3
    <3> QED BY <1>1, <1>5, <2>3, <3>1 DEF SaidInv, AppendsInv
  <2> QED BY <2>2, <2>3 DEF AppendsInv
<1>7. CASE k \in Statuses /\ i \in KnownFailures
  <2>1. said[i] \in Statuses
    <3>1. PICK s, J : s = Parsed(log) /\ J = Json(log)
      OBVIOUS
    <3>2. PICK r \in ToSet(s) : r.id = i /\ r.kind \in Statuses
      BY <1>7, <3>1 DEF KnownFailures
    <3>3. s # <<>>
      <4>1. ToSet(<<>>) = {}
        BY DEF ToSet
      <4> QED BY <3>2, <4>1
    <3>4. r \in ToSet(log)
      BY <3>1, <3>2, <3>3, ParsedIs
    <3> QED BY <3>2, <3>4 DEF SaidInv, RowsInv, Storied, Told
  <2>2. \A q \in Procs : pc'[q] = "append" => Fits(op'[q], said')
    <3> TAKE q \in Procs
    <3>1. CASE q = p
      BY <1>1, <1>4, <1>5, <1>7, <2>1, <3>1 DEF Fits
    <3>2. CASE q # p
      BY <1>1, <1>5, <3>2 DEF SaidInv, AppendsInv
    <3> QED BY <3>1, <3>2
  <2>3. ASSUME NEW a \in Procs, NEW b \in Procs, pc'[a] = "append", pc'[b] = "append", a # b,
               op'[a].id = op'[b].id
        PROVE  said'[op'[a].id] \in Statuses
    <3>1. CASE a = p \/ b = p
      BY <1>1, <1>4, <1>5, <2>1, <2>3, <3>1
    <3>2. CASE a # p /\ b # p
      BY <1>1, <1>5, <2>3, <3>2 DEF SaidInv, AppendsInv
    <3> QED BY <3>1, <3>2
  <2> QED BY <2>2, <2>3 DEF AppendsInv
<1> QED BY <1>2, <1>6, <1>7

LEMMA AppendWriteAppends ==
    ASSUME Basic, SaidInv, NEW p \in Procs, AppendWrite(p)
    PROVE  AppendsInv'
<1>1. pc[p] = "append" /\ pc' = [pc EXCEPT ![p] = "trim"]
    BY DEF AppendWrite
<1>2. PICK c : op' = [op EXCEPT ![p] = c]
    BY DEF AppendWrite
<1>3. /\ pc'[p] = "trim" /\ \A q \in Procs : q # p => pc'[q] = pc[q] /\ op'[q] = op[q]
    BY <1>1, <1>2, After
<1>4. ASSUME NEW q \in Procs, pc'[q] = "append"
      PROVE  q # p /\ pc[q] = "append" /\ op'[q] = op[q]
    BY <1>3, <1>4
<1>5. CASE open
  <2>1. said' = said
    BY <1>5 DEF AppendWrite
  <2> QED BY <1>4, <2>1, AppendsQuiet DEF SaidInv
<1>6. CASE ~ open
  <2>1. PICK i, k : i = op[p].id /\ k = op[p].kind
    OBVIOUS
  <2>2. said' = [said EXCEPT ![i] = k]
    BY <1>6, <2>1 DEF AppendWrite
  <2>3. i \in Ids /\ said \in [Ids -> Bodies \cup {"none"}]
        /\ \A q \in Procs : pc[q] = "append" => op[q].id \in Ids
    BY <1>1, <2>1 DEF Basic, FileInv, CallInv
  <2>4. said'[i] = k /\ \A x \in Ids : x # i => said'[x] = said[x]
    BY <2>2, <2>3
  <2>5. said[i] = "none" \/ (k \in Statuses /\ said[i] \in Statuses)
    BY <1>1, <2>1 DEF SaidInv, AppendsInv, Fits
  <2>6. said[i] \in Statuses => k \in Statuses
    BY <2>5 DEF Statuses
  <2>7. ASSUME NEW q \in Procs, pc'[q] = "append", op[q].id = i
        PROVE  said[i] \in Statuses
    <3>1. q # p /\ pc[q] = "append"
      BY <1>4, <2>7
    <3> QED BY <1>1, <2>1, <2>7, <3>1 DEF SaidInv, AppendsInv
  <2>8. ASSUME NEW q \in Procs, pc'[q] = "append" PROVE Fits(op'[q], said')
    <3>1. q # p /\ pc[q] = "append" /\ op'[q] = op[q] /\ op[q].id \in Ids
      BY <1>4, <2>3, <2>8
    <3>2. Fits(op[q], said)
      BY <3>1 DEF SaidInv, AppendsInv
    <3>3. CASE op[q].id = i
      <4>1. said[i] \in Statuses /\ k \in Statuses
        BY <2>6, <2>7, <2>8, <3>3
      <4>2. op[q].kind \in Statuses
        BY <3>2, <3>3, <4>1 DEF Fits, Statuses
      <4> QED BY <2>4, <3>1, <3>3, <4>1, <4>2 DEF Fits
    <3>4. CASE op[q].id # i
      BY <2>4, <3>1, <3>2, <3>4 DEF Fits
    <3> QED BY <3>3, <3>4
  <2>9. ASSUME NEW a \in Procs, NEW b \in Procs, pc'[a] = "append", pc'[b] = "append", a # b,
               op'[a].id = op'[b].id
        PROVE  said'[op'[a].id] \in Statuses
    <3>1. pc[a] = "append" /\ op'[a] = op[a] /\ op[a].id \in Ids
          /\ pc[b] = "append" /\ op'[b] = op[b]
      BY <1>4, <2>3, <2>9
    <3>2. said[op[a].id] \in Statuses
      BY <2>9, <3>1 DEF SaidInv, AppendsInv
    <3>3. CASE op[a].id = i
      BY <2>4, <2>6, <3>1, <3>2, <3>3
    <3>4. CASE op[a].id # i
      BY <2>4, <3>1, <3>2, <3>4
    <3> QED BY <3>3, <3>4
  <2> QED BY <2>8, <2>9 DEF AppendsInv
<1> QED BY <1>5, <1>6

LEMMA RestAppends ==
    ASSUME Basic, SaidInv,
           \/ \E p \in Procs : \/ AppendTorn(p) \/ TrimNone(p) \/ TrimRead(p) \/ TrimFails(p)
                               \/ TrimReplace(p) \/ ForgetRead(p) \/ ForgetRewrite(p) \/ Die(p)
           \/ PeerCopies \/ UnionMerge \/ UNCHANGED vars
    PROVE  AppendsInv'
<1>1. said' = said
    BY DEF AppendTorn, TrimNone, TrimRead, TrimFails, TrimReplace, ForgetRead, ForgetRewrite, Die,
           PeerCopies, UnionMerge, vars, history
<1>2. \A q \in Procs : pc'[q] = "append" => pc[q] = "append" /\ op'[q] = op[q]
  <2>1. CASE PeerCopies \/ UnionMerge \/ UNCHANGED vars
    BY <2>1 DEF PeerCopies, UnionMerge, vars
  <2>2. ASSUME NEW p \in Procs,
               \/ AppendTorn(p) \/ TrimNone(p) \/ TrimRead(p) \/ TrimFails(p)
               \/ TrimReplace(p) \/ ForgetRead(p) \/ ForgetRewrite(p) \/ Die(p)
        PROVE  \A q \in Procs : pc'[q] = "append" => pc[q] = "append" /\ op'[q] = op[q]
    <3>1. PICK stage \in {"idle", "replace", "rewrite"} : \E c :
             pc' = [pc EXCEPT ![p] = stage] /\ op' = [op EXCEPT ![p] = c]
      <4>1. CASE AppendTorn(p) \/ TrimNone(p) \/ TrimFails(p) \/ TrimReplace(p)
                 \/ ForgetRewrite(p) \/ Die(p)
        BY <4>1 DEF AppendTorn, TrimNone, TrimFails, TrimReplace, ForgetRewrite, Die,
                    Acknowledge, Release, Leave
      <4>2. CASE TrimRead(p)
        <5>1. PICK kept : kept = Kept(log)
          OBVIOUS
        <5> QED BY <4>2, <5>1, TrimReadIs DEF TrimRead
      <4>3. CASE ForgetRead(p)
        BY <4>3, ForgetReadIs DEF ForgetRead
      <4> QED BY <2>2, <4>1, <4>2, <4>3
    <3>2. PICK c : pc' = [pc EXCEPT ![p] = stage] /\ op' = [op EXCEPT ![p] = c]
      BY <3>1
    <3>3. pc'[p] = stage /\ \A q \in Procs : q # p => pc'[q] = pc[q] /\ op'[q] = op[q]
      BY <3>2, After
    <3> QED BY <3>1, <3>3
  <2> QED BY <2>1, <2>2
<1> QED BY <1>1, <1>2, AppendsQuiet DEF SaidInv

LEMMA SaidInvariant == Spec => []SaidInv
<1>1. Init => SaidInv
  <2> SUFFICES ASSUME Init PROVE SaidInv
    OBVIOUS
  <2>1. log = <<>> /\ peer = <<>> /\ \A p \in Procs : pc[p] = "idle"
    BY DEF Init
  <2>2. ToSet(<<>>) = {} /\ Len(<<>>) = 0
    BY DEF ToSet
  <2>3. Storied(log, said, pulled) /\ Told(peer, said)
    BY <2>1, <2>2 DEF Storied, Told, Followed
  <2> QED BY <2>1, <2>3 DEF SaidInv, RowsInv, AppendsInv
<1>2. Basic /\ SaidInv /\ [Next]_vars => SaidInv'
  <2> SUFFICES ASSUME Basic, SaidInv, [Next]_vars PROVE RowsInv' /\ AppendsInv'
    BY DEF SaidInv
  <2>1. RowsInv
    BY DEF SaidInv
  <2>2. RowsInv'
    BY <2>1, AppendWriteRows, AppendTornRows, TrimReadRows, TrimEndsRows, ForgetReadRows,
       ForgetRewriteRows, RestRows DEF Next
  <2>3. AppendsInv'
    BY AppendReadAppends, AppendWriteAppends, RestAppends DEF Next
  <2> QED BY <2>2, <2>3
<1> QED BY <1>1, <1>2, BasicInvariant, PTL DEF Spec

\* What the newest record of a failure retires is surfaced by no older record,
\* unless a merge put that one back (live_decision_records, "last write wins").
THEOREM RetiredStays == Spec => []RetiredStaysRetired
<1>1. ASSUME Basic, SaidInv PROVE RetiredStaysRetired
  <2> SUFFICES ASSUME NEW r \in Surfaced(FALSE), said[r.id] = "retired", r.n \notin pulled
               PROVE  FALSE
    BY DEF RetiredStaysRetired
  <2>1. PICK s, J : s = Parsed(log) /\ J = Json(log)
    OBVIOUS
  <2>2. PICK k \in DOMAIN s :
          /\ r = s[k] /\ s[k].kind # "tombstone"
          /\ s[k].kind \in Statuses =>
              /\ \A m \in k + 1 .. Len(s) : s[m].id = s[k].id => s[m].kind \notin Statuses
              /\ s[k].kind # "retired"
    BY <2>1 DEF Surfaced, Live
  <2>3. s # <<>>
    <3>1. DOMAIN <<>> = {}
      OBVIOUS
    <3> QED BY <2>2, <3>1
  <2>4. /\ s \in Seq(Upto(writes)) /\ ToSet(s) = ToSet(log) \cap J /\ Inherits(s, log, J)
        /\ \A x \in ToSet(s) : x.kind \in Kinds
    BY <1>1, <2>1, <2>3, ParsedIs
  <2>5. DOMAIN s = 1..Len(s) /\ Len(s) \in Nat /\ r \in ToSet(s)
    BY <2>2, <2>4, LenProperties DEF ToSet
  <2>6. Storied(s, said, pulled)
    <3>1. \A x \in ToSet(log) : x.kind \in Statuses => x \in J
      BY <2>1 DEF Json, Statuses
    <3>2. log \in Seq(Upto(writes)) /\ Storied(log, said, pulled)
      BY <1>1 DEF Basic, FileInv, SaidInv, RowsInv
    <3> QED BY <2>4, <3>1, <3>2, StoriedPicked
  <2>7. r.kind # "decision"
    BY <2>5, <2>6 DEF Storied, Told
  <2>8. r.kind = "failure"
    BY <2>2, <2>4, <2>5, <2>7 DEF Kinds, Bodies, Statuses
  <2>9. PICK m \in 1..Len(s) : k < m /\ s[m].id = s[k].id /\ s[m].kind \in Statuses
    BY <2>2, <2>5, <2>6, <2>8 DEF Storied, Followed
  <2>10. m \in k + 1 .. Len(s) /\ s[k].kind \in Statuses
    BY <2>2, <2>5, <2>8, <2>9 DEF Statuses
  <2> QED BY <2>2, <2>9, <2>10
<1> QED BY <1>1, BasicInvariant, SaidInvariant, PTL
=============================================================================
