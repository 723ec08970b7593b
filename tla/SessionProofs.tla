--------------------------- MODULE SessionProofs ----------------------------
(***************************************************************************)
(* The desktop session, for every volume, every table of accounts and any   *)
(* number of rounds and faults of the disk.                                 *)
(*                                                                          *)
(* A file on the volume is an entry, and every operation of kernel.c ends   *)
(* in few kinds of change to the entries: none, new directories on the way  *)
(* (Extends), one file written (Wrote).  Operations on windows and menus    *)
(* leave volume, icons and accounts alone (Quiet); a save, a creation and a *)
(* deletion end in a refresh of the icons (Refreshed).  The invariant says  *)
(* that the volume names no path twice, that lists and icons belong to the  *)
(* directories they were read from and the selection to an entry of them,   *)
(* that no window is open at the login screen, and what every file holds.   *)
(***************************************************************************)
EXTENDS Session, FiniteSetTheorems, SequenceTheorems, WellFoundedInduction, TLAPS

-----------------------------------------------------------------------------
(* Volumes.                                                                 *)

IsSeq(q) == \E S : q \in Seq(S)
IsEntry(e) == DOMAIN e = {"path", "dir", "data"} /\ e.dir \in BOOLEAN /\ e.data \in DOMAIN Parse
Unique(v) == \A i, j \in 1 .. Len(v) : v[i].path = v[j].path => i = j

\* A volume: entries, no two of them under one path.
Volume(v) == IsSeq(v) /\ (\A i \in 1 .. Len(v) : IsEntry(v[i])) /\ Unique(v)

\* File p holds d.
Holds(v, p, d) == \E i \in 1 .. Len(v) : v[i].path = p /\ ~v[i].dir /\ v[i].data = d

\* All files of v are in w, with what they hold; and w has no others.
SameFiles(v, w) == \A p : (IsFile(w, p) <=> IsFile(v, p)) /\ \A d : Holds(v, p, d) => Holds(w, p, d)

LEMMA LenOf == ASSUME NEW q, IsSeq(q) PROVE Len(q) \in Nat /\ DOMAIN q = 1 .. Len(q)
<1>1. PICK S : q \in Seq(S)
  BY DEF IsSeq
<1> QED
  BY <1>1, LenProperties

LEMMA AppendTo ==
  ASSUME NEW q, IsSeq(q), NEW e
  PROVE  /\ IsSeq(Append(q, e)) /\ Len(Append(q, e)) = Len(q) + 1 /\ Append(q, e)[Len(q) + 1] = e
         /\ \A i \in 1 .. Len(q) : Append(q, e)[i] = q[i]
<1>1. PICK S : q \in Seq(S)
  BY DEF IsSeq
<1> DEFINE T == S \cup {e}
<1>2. q \in Seq(T) /\ e \in T
  BY <1>1, SeqMonotonic
<1> HIDE DEF T
<1>3. /\ Append(q, e) \in Seq(T) /\ Len(Append(q, e)) = Len(q) + 1 /\ Append(q, e)[Len(q) + 1] = e
      /\ \A i \in 1 .. Len(q) : Append(q, e)[i] = q[i]
  BY <1>2, AppendProperties
<1> QED
  BY <1>3 DEF IsSeq

LEMMA Joined ==
  ASSUME NEW q, IsSeq(q), NEW m, IsSeq(m)
  PROVE  /\ IsSeq(q \o m) /\ Len(q \o m) = Len(q) + Len(m)
         /\ \A i \in 1 .. Len(q) : (q \o m)[i] = q[i]
         /\ \A i \in 1 .. Len(q) + Len(m) : i > Len(q) => (q \o m)[i] = m[i - Len(q)] /\ i - Len(q) \in 1 .. Len(m)
<1>1. PICK S : q \in Seq(S)
  BY DEF IsSeq
<1>2. PICK T : m \in Seq(T)
  BY DEF IsSeq
<1> DEFINE U == S \cup T
<1>3. q \in Seq(U) /\ m \in Seq(U)
  BY <1>1, <1>2, SeqMonotonic
<1> HIDE DEF U
<1>4. /\ q \o m \in Seq(U) /\ Len(q \o m) = Len(q) + Len(m)
      /\ \A i \in 1 .. Len(q) + Len(m) : (q \o m)[i] = IF i <= Len(q) THEN q[i] ELSE m[i - Len(q)]
  BY <1>3, ConcatProperties
<1>5. Len(q) \in Nat /\ Len(m) \in Nat
  BY LenOf
<1> QED
  BY <1>4, <1>5 DEF IsSeq

\* The first k elements.
LEMMA FirstOf ==
  ASSUME NEW q, IsSeq(q), NEW k \in 0 .. Len(q)
  PROVE  IsSeq(SubSeq(q, 1, k)) /\ Len(SubSeq(q, 1, k)) = k
<1>1. PICK S : q \in Seq(S)
  BY DEF IsSeq
<1>2. Len(q) \in Nat /\ \A i \in 1 .. Len(q) : q[i] \in S
  BY <1>1, LenOf, ElementOfSeq
<1>3. \A i \in 1 .. k : q[i] \in S
  BY <1>2
<1>4. SubSeq(q, 1, k) \in Seq(S) /\ Len(SubSeq(q, 1, k)) = IF 1 <= k THEN k - 1 + 1 ELSE 0
  BY <1>2, <1>3, SubSeqProperties
<1> QED
  BY <1>2, <1>4 DEF IsSeq

\* A path without its last element.
LEMMA FrontOf ==
  ASSUME NEW q, IsSeq(q), Len(q) > 0
  PROVE  IsSeq(Front(q)) /\ Len(Front(q)) = Len(q) - 1
<1>1. Len(q) \in Nat /\ Len(q) - 1 \in 0 .. Len(q)
  BY LenOf
<1> QED
  BY <1>1, FirstOf DEF Front

LEMMA FunIsSeq ==
  ASSUME NEW n \in Nat, NEW f, f = [i \in 1 .. n |-> f[i]]
  PROVE  IsSeq(f) /\ Len(f) = n
<1> DEFINE S == {f[i] : i \in 1 .. n}
<1>1. f \in [1 .. n -> S]
  OBVIOUS
<1> HIDE DEF S
<1>2. f \in Seq(S) /\ Len(f) = n
  BY <1>1, SeqDef
<1> QED
  BY <1>2 DEF IsSeq

\* The last k of a set that has one is in it.
LEMMA LastOne ==
  ASSUME NEW n \in Nat, NEW T \in SUBSET (1 .. n)
  PROVE  /\ Max({0} \cup T) \in 0 .. n /\ \A k \in T : k <= Max({0} \cup T)
<1> DEFINE U == {0} \cup T
           W == {n - k : k \in U}
<1>1. U \in SUBSET (0 .. n) /\ 0 \in U
  OBVIOUS
<1>2. W \in SUBSET Nat /\ W # {}
  BY <1>1
<1>3. PICK w \in W : \A x \in W : w <= x
  <2> HIDE DEF W
  <2>1. PICK w \in W : \A x \in W : ~(<<x, w>> \in OpToRel(<, Nat))
    BY <1>2, NatLessThanWellFounded, WFMin
  <2>2. \A x \in W : ~(x < w) /\ x \in Nat /\ w \in Nat
    BY <1>2, <2>1 DEF OpToRel
  <2> QED
    BY <2>2
<1>4. PICK k \in U : w = n - k
  OBVIOUS
<1>5. \A j \in U : j <= k
  <2> SUFFICES ASSUME NEW j \in U PROVE j <= k
    OBVIOUS
  <2>1. n - k <= n - j
    BY <1>3, <1>4
  <2> QED
    BY <1>1, <2>1
<1> HIDE DEF U
<1>6. \E x \in U : \A y \in U : x >= y
  BY <1>1, <1>5
<1>7. Max(U) \in U /\ \A y \in U : Max(U) >= y
  BY <1>6 DEF Max
<1>8. \A j \in T : j \in U
  BY DEF U
<1>9. Max(U) \in 0 .. n /\ \A j \in T : j <= Max(U)
  BY <1>1, <1>7, <1>8
<1> QED
  BY <1>9 DEF U

\* A volume grows by entries under new paths.
LEMMA Grown ==
  ASSUME NEW v, Volume(v), NEW m, IsSeq(m), \A i \in 1 .. Len(m) : IsEntry(m[i]), Unique(m),
         \A i \in 1 .. Len(v), j \in 1 .. Len(m) : v[i].path # m[j].path
  PROVE  /\ Volume(v \o m)
         /\ \A p, d : Holds(v, p, d) => Holds(v \o m, p, d)
         /\ \A p : IsFile(v \o m, p) <=> IsFile(v, p) \/ IsFile(m, p)
<1> DEFINE w == v \o m
<1>1. Len(v) \in Nat /\ Len(m) \in Nat /\ IsSeq(v)
  BY LenOf DEF Volume
<1>2. /\ IsSeq(w) /\ Len(w) = Len(v) + Len(m)
      /\ \A i \in 1 .. Len(v) : w[i] = v[i]
      /\ \A i \in 1 .. Len(v) + Len(m) : i > Len(v) => w[i] = m[i - Len(v)] /\ i - Len(v) \in 1 .. Len(m)
  BY <1>1, Joined
<1> HIDE DEF w
<1>3. \A i \in 1 .. Len(m) : Len(v) + i \in 1 .. Len(w) /\ w[Len(v) + i] = m[i]
  <2> SUFFICES ASSUME NEW i \in 1 .. Len(m) PROVE Len(v) + i \in 1 .. Len(w) /\ w[Len(v) + i] = m[i]
    OBVIOUS
  <2>1. Len(v) + i \in 1 .. Len(v) + Len(m) /\ Len(v) + i > Len(v) /\ (Len(v) + i) - Len(v) = i
    BY <1>1
  <2> QED
    BY <1>2, <2>1
<1>4. \A i \in 1 .. Len(w) : i \in 1 .. Len(v) \/ (i > Len(v) /\ i - Len(v) \in 1 .. Len(m) /\ w[i] = m[i - Len(v)])
  BY <1>1, <1>2
<1>5. \A i \in 1 .. Len(v) : i \in 1 .. Len(w)
  BY <1>1, <1>2
<1>6. \A i \in 1 .. Len(w) : IsEntry(w[i])
  BY <1>2, <1>4 DEF Volume
<1>7. Unique(w)
  <2> SUFFICES ASSUME NEW i \in 1 .. Len(w), NEW j \in 1 .. Len(w), w[i].path = w[j].path PROVE i = j
    BY DEF Unique
  <2>1. CASE i \in 1 .. Len(v) /\ j \in 1 .. Len(v)
    BY <1>2, <2>1 DEF Volume, Unique
  <2>2. CASE i \in 1 .. Len(v) /\ j \notin 1 .. Len(v)
    BY <1>2, <1>4, <2>2
  <2>3. CASE i \notin 1 .. Len(v) /\ j \in 1 .. Len(v)
    BY <1>2, <1>4, <2>3
  <2>4. CASE i \notin 1 .. Len(v) /\ j \notin 1 .. Len(v)
    <3>1. i - Len(v) = j - Len(v)
      BY <1>4, <2>4 DEF Unique
    <3> QED
      BY <1>1, <1>2, <3>1
  <2> QED
    BY <2>1, <2>2, <2>3, <2>4
<1>8. \A p, d : Holds(v, p, d) => Holds(w, p, d)
  BY <1>2, <1>5 DEF Holds
<1>9. ASSUME NEW p PROVE IsFile(w, p) <=> IsFile(v, p) \/ IsFile(m, p)
  <2>1. IsFile(v, p) => IsFile(w, p)
    BY <1>2, <1>5 DEF IsFile
  <2>2. IsFile(m, p) => IsFile(w, p)
    BY <1>3 DEF IsFile
  <2>3. IsFile(w, p) => IsFile(v, p) \/ IsFile(m, p)
    BY <1>2, <1>4 DEF IsFile
  <2> QED
    BY <2>1, <2>2, <2>3
<1>10. Volume(w)
  BY <1>2, <1>6, <1>7 DEF Volume
<1> QED
  BY <1>8, <1>9, <1>10 DEF w

\* The entries m are directories, new in v, each once, with paths of at most n
\* names.
NewDirs(v, m, n) ==
  /\ IsSeq(m) /\ (\A i \in 1 .. Len(m) : IsEntry(m[i]) /\ m[i].dir = TRUE) /\ Unique(m)
  /\ \A i \in 1 .. Len(v), j \in 1 .. Len(m) : v[i].path # m[j].path
  /\ \A j \in 1 .. Len(m) : IsSeq(m[j].path) /\ Len(m[j].path) <= n

\* What is missing of a path is that.
LEMMA MissingIs ==
  ASSUME NEW v, Volume(v), NEW p, IsSeq(p), ~Blocked(v, p), NEW m, m = Missing(v, p)
  PROVE  NewDirs(v, m, Len(p))
<1>1. Len(p) \in Nat
  BY LenOf
<1> DEFINE T == {k \in 1 .. Len(p) : IsDir(v, SubSeq(p, 1, k))}
<1>2. Max({0} \cup T) \in 0 .. Len(p) /\ \A k \in T : k <= Max({0} \cup T)
  BY <1>1, LastOne
<1>3. PICK t \in 0 .. Len(p) : t = There(v, p) /\ \A k \in T : k <= t
  BY <1>2 DEF There
<1>4. PICK n \in Nat : n = Len(p) - t
  BY <1>1
<1>5. m = [k \in 1 .. n |-> [path |-> SubSeq(p, 1, t + k), dir |-> TRUE, data |-> Zero]]
  BY <1>3, <1>4 DEF Missing
<1>6. IsSeq(m) /\ Len(m) = n
  BY <1>5, FunIsSeq
<1>7. \A k \in 1 .. n : t + k \in 1 .. Len(p) /\ t + k \in 0 .. Len(p) /\ t + k > t
  BY <1>1, <1>4
<1>8. \A k \in 1 .. n : /\ m[k].path = SubSeq(p, 1, t + k) /\ Len(m[k].path) = t + k /\ IsSeq(m[k].path)
                        /\ m[k].dir = TRUE /\ m[k].data = Zero /\ DOMAIN m[k] = {"path", "dir", "data"}
  <2> SUFFICES ASSUME NEW k \in 1 .. n
               PROVE  /\ m[k].path = SubSeq(p, 1, t + k) /\ Len(m[k].path) = t + k /\ IsSeq(m[k].path)
                      /\ m[k].dir = TRUE /\ m[k].data = Zero /\ DOMAIN m[k] = {"path", "dir", "data"}
    OBVIOUS
  <2>1. m[k] = [path |-> SubSeq(p, 1, t + k), dir |-> TRUE, data |-> Zero]
    BY <1>5
  <2>2. IsSeq(SubSeq(p, 1, t + k)) /\ Len(SubSeq(p, 1, t + k)) = t + k
    BY <1>7, FirstOf
  <2> QED
    BY <2>1, <2>2
<1>9. \A k \in 1 .. n : IsEntry(m[k])
  BY <1>8, SessionAssumption DEF IsEntry
<1>10. Unique(m)
  <2> SUFFICES ASSUME NEW i \in 1 .. n, NEW j \in 1 .. n, m[i].path = m[j].path PROVE i = j
    BY <1>6 DEF Unique
  <2>1. t + i = t + j
    BY <1>8
  <2> QED
    BY <1>4, <2>1
<1>11. ASSUME NEW i \in 1 .. Len(v), NEW j \in 1 .. n PROVE v[i].path # m[j].path
  <2>1. t + j \notin T
    BY <1>3, <1>7
  <2>2. ~IsDir(v, SubSeq(p, 1, t + j)) /\ ~IsFile(v, SubSeq(p, 1, t + j))
    BY <1>7, <2>1 DEF Blocked
  <2>3. v[i].dir \in BOOLEAN
    BY DEF Volume, IsEntry
  <2> QED
    BY <1>8, <2>2, <2>3 DEF IsDir, IsFile
<1>12. \A j \in 1 .. n : Len(m[j].path) <= Len(p)
  BY <1>7, <1>8, <1>1
<1> QED
  BY <1>6, <1>8, <1>9, <1>10, <1>11, <1>12 DEF NewDirs

\* Making directories keeps the files.
LEMMA MakeDirsKeeps ==
  ASSUME NEW v, Volume(v), NEW p, IsSeq(p)
  PROVE  Volume(MakeDirs(v, p)) /\ SameFiles(v, MakeDirs(v, p))
<1>1. CASE Blocked(v, p)
  BY <1>1 DEF MakeDirs, SameFiles
<1>2. CASE ~Blocked(v, p)
  <2>1. PICK m : m = Missing(v, p)
    OBVIOUS
  <2>2. /\ IsSeq(m) /\ (\A i \in 1 .. Len(m) : IsEntry(m[i]) /\ m[i].dir = TRUE) /\ Unique(m)
        /\ \A i \in 1 .. Len(v), j \in 1 .. Len(m) : v[i].path # m[j].path
    <3>1. NewDirs(v, m, Len(p))
      BY <1>2, <2>1, MissingIs
    <3> QED
      BY <3>1 DEF NewDirs
  <2>3. MakeDirs(v, p) = v \o m
    BY <1>2, <2>1 DEF MakeDirs
  <2>4. \A q : ~IsFile(m, q)
    BY <2>2 DEF IsFile
  <2>5. /\ Volume(v \o m)
        /\ \A q, d : Holds(v, q, d) => Holds(v \o m, q, d)
        /\ \A q : IsFile(v \o m, q) <=> IsFile(v, q) \/ IsFile(m, q)
    BY <2>2, Grown
  <2> QED
    BY <2>3, <2>4, <2>5 DEF SameFiles
<1> QED
  BY <1>1, <1>2

\* What a file holds can be read at its index.
LEMMA HoldsIs ==
  ASSUME NEW v, Volume(v), NEW p
  PROVE  /\ \A d : Holds(v, p, d) <=> IsFile(v, p) /\ DataAt(v, p) = d
         /\ IsFile(v, p) => /\ Index(v, p) \in 1 .. Len(v) /\ v[Index(v, p)].path = p /\ ~v[Index(v, p)].dir
                            /\ DataAt(v, p) \in DOMAIN Parse
<1>1. ASSUME NEW i \in 1 .. Len(v), v[i].path = p PROVE Index(v, p) = i
  <2>1. Index(v, p) \in 1 .. Len(v) /\ v[Index(v, p)].path = p
    BY <1>1 DEF Index
  <2> QED
    BY <1>1, <2>1 DEF Volume, Unique
<1>2. IsFile(v, p) => Index(v, p) \in 1 .. Len(v) /\ v[Index(v, p)].path = p /\ ~v[Index(v, p)].dir
  BY <1>1 DEF IsFile
<1>3. \A d : Holds(v, p, d) <=> IsFile(v, p) /\ DataAt(v, p) = d
  BY <1>1, <1>2 DEF Holds, IsFile, DataAt
<1>4. IsFile(v, p) => DataAt(v, p) \in DOMAIN Parse
  BY <1>2 DEF DataAt, Volume, IsEntry
<1> QED
  BY <1>2, <1>3, <1>4

LEMMA EmptyIsSeq == IsSeq(<<>>) /\ Len(<<>>) = 0
<1>1. <<>> \in Seq({}) /\ Len(<<>>) = 0
  BY EmptySeq
<1> QED
  BY <1>1 DEF IsSeq

\* w is v with d in file p, and what the other files held.
Wrote(v, w, p, d) == Volume(w) /\ Holds(w, p, d) /\ \A q, x : q # p /\ Holds(v, q, x) => Holds(w, q, x)

\* Only entries under p are new or changed, and only in what they hold.
OnlyAt(v, w, p) ==
  /\ Len(w) \in Nat /\ Len(v) <= Len(w)
  /\ \A i \in 1 .. Len(v) : w[i].path = v[i].path /\ w[i].dir = v[i].dir /\ (v[i].path # p => w[i] = v[i])
  /\ \A i \in 1 .. Len(w) : i > Len(v) => w[i].path = p

\* One file is written.
LEMMA FileWritten ==
  ASSUME NEW v, Volume(v), NEW p, ~IsDir(v, p), NEW d \in DOMAIN Parse,
         NEW w, w = IF IsFile(v, p) THEN [v EXCEPT ![Index(v, p)].data = d]
                    ELSE Append(v, [path |-> p, dir |-> FALSE, data |-> d])
  PROVE  Wrote(v, w, p, d) /\ OnlyAt(v, w, p)
<1>1. IsSeq(v) /\ Len(v) \in Nat /\ \A i \in 1 .. Len(v) : IsEntry(v[i])
  BY LenOf DEF Volume
<1>2. CASE IsFile(v, p)
  <2>1. PICK n \in 1 .. Len(v) : n = Index(v, p) /\ v[n].path = p /\ ~v[n].dir
    BY <1>2, HoldsIs
  <2>2. PICK e : e = [v[n] EXCEPT !.data = d]
    OBVIOUS
  <2>3. w = [v EXCEPT ![n] = e]
    BY <1>2, <2>1, <2>2
  <2>4. IsEntry(e) /\ e.path = p /\ ~e.dir /\ e.data = d /\ e.dir = v[n].dir
    <3>1. DOMAIN v[n] = {"path", "dir", "data"} /\ v[n].dir \in BOOLEAN
      BY <1>1 DEF IsEntry
    <3>2. DOMAIN e = {"path", "dir", "data"} /\ e.path = p /\ e.dir = v[n].dir /\ e.data = d
      BY <2>1, <2>2, <3>1
    <3> QED
      BY <2>1, <3>1, <3>2 DEF IsEntry
  <2>5. PICK S : v \in Seq(S)
    BY <1>1 DEF IsSeq
  <2> DEFINE T == S \cup {e}
  <2>6. v \in Seq(T) /\ e \in T
    BY <2>5, SeqMonotonic
  <2> HIDE DEF T
  <2>7. w \in Seq(T) /\ Len(w) = Len(v) /\ \A j \in 1 .. Len(v) : w[j] = IF j = n THEN e ELSE v[j]
    <3>1. PICK x : x = [v EXCEPT ![n] = e]
      OBVIOUS
    <3>2. x \in Seq(T) /\ Len(x) = Len(v) /\ \A j \in 1 .. Len(v) : x[j] = IF j = n THEN e ELSE v[j]
      BY ONLY <2>6, <3>1, ExceptSeq
    <3> QED
      BY <2>3, <3>1, <3>2
  <2>8. IsSeq(w)
    BY <2>7 DEF IsSeq
  <2>9. \A j \in 1 .. Len(v) : IsEntry(w[j]) /\ w[j].path = v[j].path /\ w[j].dir = v[j].dir
    BY <1>1, <2>1, <2>4, <2>7
  <2>10. Volume(w)
    BY <2>7, <2>8, <2>9 DEF Volume, Unique
  <2>11. Holds(w, p, d)
    BY <2>4, <2>7 DEF Holds
  <2>12. \A q, x : q # p /\ Holds(v, q, x) => Holds(w, q, x)
    BY <2>1, <2>7 DEF Holds
  <2>13. OnlyAt(v, w, p)
    BY <1>1, <2>1, <2>7, <2>9 DEF OnlyAt
  <2> QED
    BY <2>10, <2>11, <2>12, <2>13 DEF Wrote
<1>3. CASE ~IsFile(v, p)
  <2>1. PICK e : e = [path |-> p, dir |-> FALSE, data |-> d]
    OBVIOUS
  <2>2. IsEntry(e) /\ e.path = p /\ ~e.dir /\ e.data = d
    BY <2>1 DEF IsEntry
  <2>3. w = Append(v, e)
    BY <1>3, <2>1
  <2>4. IsSeq(w) /\ Len(w) = Len(v) + 1 /\ w[Len(v) + 1] = e /\ \A i \in 1 .. Len(v) : w[i] = v[i]
    BY <1>1, <2>3, AppendTo
  <2>5. \A i \in 1 .. Len(w) : i \in 1 .. Len(v) \/ i = Len(v) + 1
    BY <1>1, <2>4
  <2>6. \A i \in 1 .. Len(v) : i \in 1 .. Len(w)
    BY <1>1, <2>4
  <2>7. \A i \in 1 .. Len(v) : v[i].path # p
    <3>1. \A i \in 1 .. Len(v) : v[i].dir \in BOOLEAN
      BY <1>1 DEF IsEntry
    <3> QED
      BY <1>3, <3>1 DEF IsFile, IsDir
  <2>8. \A i \in 1 .. Len(w) : IsEntry(w[i])
    BY <1>1, <2>2, <2>4, <2>5
  <2>9. Unique(w)
    BY <2>2, <2>4, <2>5, <2>7 DEF Volume, Unique
  <2>10. Holds(w, p, d)
    <3>1. Len(v) + 1 \in 1 .. Len(w)
      BY <1>1, <2>4
    <3> QED
      BY <2>2, <2>4, <3>1 DEF Holds
  <2>11. \A q, x : q # p /\ Holds(v, q, x) => Holds(w, q, x)
    BY <2>4, <2>6 DEF Holds
  <2>12. OnlyAt(v, w, p)
    <3>1. Len(w) \in Nat /\ Len(v) <= Len(w)
      BY <1>1, <2>4
    <3>2. \A i \in 1 .. Len(w) : i > Len(v) => w[i].path = p
      BY <1>1, <2>2, <2>4, <2>5
    <3> QED
      BY <2>4, <3>1, <3>2 DEF OnlyAt
  <2> QED
    BY <2>4, <2>8, <2>9, <2>10, <2>11, <2>12 DEF Volume, Wrote
<1> QED
  BY <1>2, <1>3

-----------------------------------------------------------------------------
(* The globals.                                                             *)

Fields == {"vol", "mounted", "on", "users", "user", "ddir", "pdir", "login", "lsel", "pw", "focus", "started",
           "icons", "isel", "chosen", "np", "fw", "front", "picker", "prompt", "ctx", "launch", "litems", "right",
           "lostusers", "seen", "late"}

\* t is s but for the fields in F.
Touch(s, t, F) == DOMAIN t = Fields /\ \A f \in Fields \ F : t[f] = s[f]

\* The editor's document, the explorer's list, the icons.
Np(s) == DOMAIN s.np = {"open", "min", "path", "name", "text"} /\ IsSeq(s.np.path) /\ s.np.text \in DOMAIN Parse
Fw(s) ==
  /\ DOMAIN s.fw = {"open", "min", "path", "focus", "sel", "items", "listed", "chosen"}
  /\ IsSeq(s.fw.path) /\ s.fw.sel \in Nat /\ IsSeq(s.fw.items)
  /\ s.fw.sel \in 1 .. Len(s.fw.items) => s.fw.chosen = Append(s.fw.listed, s.fw.items[s.fw.sel].name)
Icons(s) ==
  /\ IsSeq(s.icons) /\ s.isel \in 0 .. Len(s.icons)
  /\ s.isel > 0 => s.chosen = Append(s.ddir, s.icons[s.isel].name)
  /\ ~s.mounted => s.icons = <<>>
Targets == {"none", "desktop", "np", "fw"}
Rest(s) ==
  DOMAIN s.prompt = {"active", "ready", "mode", "buf"} /\ s.picker \in {"none", "TXT", "WAV"} /\ s.ctx \in Targets

Core(s) == DOMAIN s = Fields /\ Volume(s.vol) /\ IsSeq(s.ddir) /\ Np(s) /\ Fw(s) /\ Icons(s) /\ Rest(s)

\* The icons are those of the user's directory.
Shown(s) ==
  s.mounted /\ ~s.late => (s.icons = <<>> /\ s.seen = 0) \/ s.icons = Listing(s.vol, s.ddir, s.seen)

\* A step in windows and menus, which leaves volume, icons and accounts alone.
InWindows == {"np", "fw", "front", "picker", "prompt", "ctx", "launch", "litems", "right"}
Quiet(s, t) == Touch(s, t, InWindows) /\ Np(t) /\ Fw(t) /\ Rest(t)

LEMMA QuietCore ==
  ASSUME NEW s, Core(s), NEW t, Quiet(s, t)
  PROVE  /\ Core(t) /\ (Shown(s) => Shown(t)) /\ t.vol = s.vol
         /\ t.on = s.on /\ t.users = s.users /\ t.lsel = s.lsel /\ t.login = s.login /\ t.started = s.started
         /\ t.lostusers = s.lostusers /\ t.ddir = s.ddir /\ t.mounted = s.mounted
<1>1. /\ t.vol = s.vol /\ t.on = s.on /\ t.users = s.users /\ t.lsel = s.lsel /\ t.login = s.login /\ t.started = s.started
      /\ t.lostusers = s.lostusers /\ t.ddir = s.ddir /\ t.mounted = s.mounted
      /\ t.icons = s.icons /\ t.isel = s.isel /\ t.chosen = s.chosen /\ DOMAIN t = Fields
      /\ t.seen = s.seen /\ t.late = s.late
  BY DEF Quiet, Touch, Fields, InWindows
<1>2. Core(t)
  BY <1>1 DEF Core, Quiet, Icons
<1>3. Shown(s) => Shown(t)
  BY <1>1 DEF Shown
<1> QED
  BY <1>1, <1>2, <1>3

LEMMA QuietTrans ==
  ASSUME NEW s, NEW t, Quiet(s, t), NEW u, Quiet(t, u) PROVE Quiet(s, u)
BY DEF Quiet, Touch

LEMMA QuietRefl == ASSUME NEW s, Core(s) PROVE Quiet(s, s)
BY DEF Quiet, Touch, Core

\* A window, a menu or a button is touched.
LEMMA SetField ==
  ASSUME NEW s, Core(s), NEW x
  PROVE  /\ Quiet(s, [s EXCEPT !.front = x]) /\ Quiet(s, [s EXCEPT !.launch = x])
         /\ x \in Targets => Quiet(s, [s EXCEPT !.ctx = x])
         /\ Quiet(s, [s EXCEPT !.litems = x]) /\ Quiet(s, [s EXCEPT !.right = x])
         /\ x \in {"none", "TXT", "WAV"} => Quiet(s, [s EXCEPT !.picker = x])
         /\ DOMAIN x = {"active", "ready", "mode", "buf"} => Quiet(s, [s EXCEPT !.prompt = x])
<1>1. DOMAIN s = Fields
  BY DEF Core
<1>2. Quiet(s, [s EXCEPT !.front = x])
  BY <1>1 DEF Quiet, Touch, Core, Np, Fw, Rest, Fields, InWindows
<1>3. x \in Targets => Quiet(s, [s EXCEPT !.ctx = x])
  BY <1>1 DEF Quiet, Touch, Core, Np, Fw, Rest, Fields, InWindows
<1>4. Quiet(s, [s EXCEPT !.launch = x])
  BY <1>1 DEF Quiet, Touch, Core, Np, Fw, Rest, Fields, InWindows
<1>5. Quiet(s, [s EXCEPT !.litems = x])
  BY <1>1 DEF Quiet, Touch, Core, Np, Fw, Rest, Fields, InWindows
<1>6. Quiet(s, [s EXCEPT !.right = x])
  BY <1>1 DEF Quiet, Touch, Core, Np, Fw, Rest, Fields, InWindows
<1>7. x \in {"none", "TXT", "WAV"} => Quiet(s, [s EXCEPT !.picker = x])
  BY <1>1 DEF Quiet, Touch, Core, Np, Fw, Rest, Fields, InWindows
<1>8. DOMAIN x = {"active", "ready", "mode", "buf"} => Quiet(s, [s EXCEPT !.prompt = x])
  BY <1>1 DEF Quiet, Touch, Core, Np, Fw, Rest, Fields, InWindows
<1> QED
  BY <1>2, <1>3, <1>4, <1>5, <1>6, <1>7, <1>8

\* Another explorer, or another editor.
LEMMA ExplorerQuiet ==
  ASSUME NEW s, Core(s), NEW t, Touch(s, t, {"fw", "front", "launch"}), Fw(t) PROVE Quiet(s, t)
BY DEF Quiet, Touch, Core, Np, Rest, Fields, InWindows

LEMMA EditorQuiet ==
  ASSUME NEW s, Core(s), NEW t, Touch(s, t, {"np", "front", "launch"}), Np(t) PROVE Quiet(s, t)
BY DEF Quiet, Touch, Core, Fw, Rest, Fields, InWindows

-----------------------------------------------------------------------------
(* The explorer.                                                            *)

LEMMA ListingIsSeq == ASSUME NEW v, Volume(v), NEW d, NEW n PROVE IsSeq(Listing(v, d, n))
<1>1. PICK f : f = [i \in {j \in 1 .. Len(v) : Shows(v[j], d) /\ Nth(v, d, j) <= n} |->
                      [name |-> Last(v[i].path), dir |-> v[i].dir]]
  OBVIOUS
<1>2. Len(v) \in Nat
  BY LenOf DEF Volume
<1>3. DOMAIN f \in SUBSET (1 .. Len(v))
  BY <1>1
<1>4. Cardinality(DOMAIN f) \in Nat
  <2>1. IsFiniteSet(1 .. Len(v))
    BY <1>2, FS_Interval
  <2>2. IsFiniteSet(DOMAIN f)
    BY <1>3, <2>1, FS_Subset
  <2> QED
    BY <2>2, FS_CardinalityType
<1>5. PICK q : q = InOrder(f)
  OBVIOUS
<1>6. q = [k \in 1 .. Cardinality(DOMAIN f) |-> q[k]]
  BY <1>5 DEF InOrder
<1>7. IsSeq(q)
  BY <1>4, <1>6, FunIsSeq
<1> QED
  BY <1>1, <1>5, <1>7 DEF Listing

\* Only the list and what is chosen in it.
SameWindow(s, t) == t.fw.open = s.fw.open /\ t.fw.min = s.fw.min /\ t.fw.focus = s.fw.focus

LEMMA RefreshList ==
  ASSUME NEW s, DOMAIN s = Fields, Volume(s.vol), Fw(s), NEW t, t = filewin_refresh_list(s)
  PROVE  Touch(s, t, {"fw"}) /\ Fw(t) /\ SameWindow(s, t) /\ t.fw.path = s.fw.path
<1> DEFINE a == [s EXCEPT !.fw.items = <<>>]
<1>1. DOMAIN s.fw = {"open", "min", "path", "focus", "sel", "items", "listed", "chosen"}
  BY DEF Fw
<1>2. /\ Touch(s, a, {"fw"}) /\ DOMAIN a.fw = DOMAIN s.fw /\ a.fw.items = <<>>
      /\ \A f \in DOMAIN s.fw \ {"items"} : a.fw[f] = s.fw[f]
  BY <1>1 DEF Touch, Fields
<1>3. CASE ~Listable(s, s.fw.path)
  <2>1. t = a
    BY <1>3 DEF filewin_refresh_list
  <2> HIDE DEF a
  <2>2. Fw(a)
    <3>1. IsSeq(a.fw.items) /\ Len(a.fw.items) = 0
      BY <1>2, EmptyIsSeq
    <3> QED
      BY <1>1, <1>2, <3>1 DEF Fw
  <2> QED
    BY <1>1, <1>2, <2>1, <2>2 DEF SameWindow
<1>4. CASE Listable(s, s.fw.path)
  <2>1. PICK l : l = Listing(s.vol, s.fw.path, io.list) /\ IsSeq(l)
    BY ListingIsSeq
  <2>2. t = [a EXCEPT !.fw.items = l, !.fw.sel = 0, !.fw.listed = s.fw.path, !.fw.chosen = <<>>]
    BY <1>4, <2>1 DEF filewin_refresh_list
  <2>3. PICK r : r = s.fw.path
    OBVIOUS
  <2> HIDE DEF a
  <2>4. /\ Touch(s, t, {"fw"}) /\ DOMAIN t.fw = DOMAIN s.fw /\ t.fw.items = l /\ t.fw.sel = 0 /\ t.fw.path = r
        /\ t.fw.open = s.fw.open /\ t.fw.min = s.fw.min /\ t.fw.focus = s.fw.focus
    <3>1. DOMAIN a = Fields /\ DOMAIN a.fw = DOMAIN s.fw /\ a.fw.path = r /\ SameWindow(s, a)
      BY <1>1, <1>2, <2>3 DEF Touch, SameWindow
    <3>2. Touch(a, t, {"fw"})
      BY <2>2, <3>1 DEF Touch, Fields
    <3>3. PICK g : g = [a.fw EXCEPT !.items = l, !.sel = 0, !.listed = s.fw.path, !.chosen = <<>>]
      OBVIOUS
    <3>4. t.fw = g
      BY <2>2, <3>1, <3>3 DEF Fields
    <3>5. /\ DOMAIN g = DOMAIN s.fw /\ g.items = l /\ g.sel = 0 /\ g.path = r
          /\ g.open = s.fw.open /\ g.min = s.fw.min /\ g.focus = s.fw.focus
      BY <1>1, <3>1, <3>3 DEF SameWindow
    <3>6. Touch(s, t, {"fw"})
      BY <1>2, <3>2 DEF Touch
    <3> QED
      BY <3>4, <3>5, <3>6
  <2>5. Fw(t)
    BY <1>1, <2>1, <2>3, <2>4 DEF Fw
  <2> QED
    BY <2>3, <2>4, <2>5 DEF SameWindow
<1> QED
  BY <1>3, <1>4

LEMMA SetPath ==
  ASSUME NEW s, Core(s), NEW p, IsSeq(p), NEW t, t = filewin_set_path(s, p)
  PROVE  Touch(s, t, {"fw"}) /\ Fw(t) /\ SameWindow(s, t) /\ t.fw.path = p /\ Quiet(s, t)
<1>1. PICK a : a = [s EXCEPT !.fw.path = p, !.fw.sel = 0, !.fw.chosen = <<>>]
  OBVIOUS
<1>2. DOMAIN s = Fields /\ DOMAIN s.fw = {"open", "min", "path", "focus", "sel", "items", "listed", "chosen"}
  BY DEF Core, Fw
<1>3. /\ Touch(s, a, {"fw"}) /\ DOMAIN a.fw = DOMAIN s.fw /\ a.fw.items = s.fw.items /\ a.fw.sel = 0 /\ a.fw.path = p
      /\ SameWindow(s, a)
  BY <1>1, <1>2 DEF Touch, Fields, SameWindow
<1>4. Fw(a)
  BY <1>2, <1>3 DEF Core, Fw
<1>5. DOMAIN a = Fields /\ a.vol = s.vol
  BY <1>3 DEF Touch, Fields
<1>6. Volume(a.vol)
  BY <1>5 DEF Core
<1>7. t = filewin_refresh_list(a)
  BY <1>1 DEF filewin_set_path
<1>8. Touch(a, t, {"fw"}) /\ Fw(t) /\ SameWindow(a, t) /\ t.fw.path = a.fw.path
  BY <1>4, <1>5, <1>6, <1>7, RefreshList
<1>9. Touch(s, t, {"fw"}) /\ SameWindow(s, t) /\ t.fw.path = p
  BY <1>3, <1>8 DEF Touch, SameWindow
<1>10. Quiet(s, t)
  <2>1. Touch(s, t, {"fw", "front", "launch"})
    BY <1>9 DEF Touch
  <2> QED
    BY <1>8, <2>1, ExplorerQuiet
<1> QED
  BY <1>8, <1>9, <1>10

LEMMA RefreshQuiet == ASSUME NEW s, Core(s) PROVE Quiet(s, filewin_refresh_list(s))
<1>1. PICK t : t = filewin_refresh_list(s)
  OBVIOUS
<1>2. Touch(s, t, {"fw"}) /\ Fw(t)
  BY <1>1, RefreshList DEF Core
<1>3. Touch(s, t, {"fw", "front", "launch"})
  BY <1>2 DEF Touch
<1> QED
  BY <1>1, <1>2, <1>3, ExplorerQuiet

LEMMA BaseIsSeq == IsSeq(Base)
<1>1. <<"PARANOS">> \in Seq({"PARANOS"})
  OBVIOUS
<1> QED
  BY <1>1 DEF IsSeq, Base

LEMMA GoUp == ASSUME NEW s, Core(s) PROVE Quiet(s, filewin_go_up(s))
<1>1. CASE Len(s.fw.path) <= 1
  <2>1. filewin_go_up(s) = filewin_set_path(s, Base)
    BY <1>1 DEF filewin_go_up
  <2> QED
    BY <2>1, BaseIsSeq, SetPath
<1>2. CASE ~(Len(s.fw.path) <= 1)
  <2>1. PICK r : r = Front(s.fw.path)
    OBVIOUS
  <2>2. IsSeq(r)
    <3>1. IsSeq(s.fw.path) /\ Len(s.fw.path) \in Nat
      BY LenOf DEF Core, Fw
    <3>2. Len(s.fw.path) > 0
      BY <1>2, <3>1
    <3> QED
      BY <2>1, <3>1, <3>2, FrontOf
  <2>3. PICK a : a = [s EXCEPT !.fw.path = r]
    OBVIOUS
  <2>4. filewin_go_up(s) = filewin_refresh_list(a)
    BY <1>2, <2>1, <2>3 DEF filewin_go_up
  <2>5. DOMAIN s = Fields /\ DOMAIN s.fw = {"open", "min", "path", "focus", "sel", "items", "listed", "chosen"}
    BY DEF Core, Fw
  <2>6. /\ Touch(s, a, {"fw", "front", "launch"}) /\ DOMAIN a.fw = DOMAIN s.fw /\ a.fw.path = r
        /\ \A f \in DOMAIN s.fw \ {"path"} : a.fw[f] = s.fw[f]
    BY <2>3, <2>5 DEF Touch, Fields
  <2>7. Fw(a)
    BY <2>2, <2>5, <2>6 DEF Core, Fw
  <2>8. Quiet(s, a)
    BY <2>6, <2>7, ExplorerQuiet
  <2>9. Quiet(a, filewin_refresh_list(a))
    BY <2>8, QuietCore, RefreshQuiet
  <2> QED
    BY <2>4, <2>8, <2>9, QuietTrans
<1> QED
  BY <1>1, <1>2

\* Only flags of the explorer or of the editor.
SameList(s, t) ==
  /\ DOMAIN t.fw = DOMAIN s.fw /\ t.fw.path = s.fw.path /\ t.fw.sel = s.fw.sel /\ t.fw.items = s.fw.items
  /\ t.fw.listed = s.fw.listed /\ t.fw.chosen = s.fw.chosen
SameText(s, t) == DOMAIN t.np = DOMAIN s.np /\ t.np.path = s.np.path /\ t.np.text = s.np.text

LEMMA FlagsQuiet ==
  ASSUME NEW s, Core(s), NEW t, Touch(s, t, {"fw", "front", "launch"}), SameList(s, t) PROVE Quiet(s, t)
<1>1. Fw(t)
  BY DEF SameList, Core, Fw
<1> QED
  BY <1>1, ExplorerQuiet

LEMMA TextQuiet ==
  ASSUME NEW s, Core(s), NEW t, Touch(s, t, {"np", "front", "launch"}), SameText(s, t) PROVE Quiet(s, t)
<1>1. Np(t)
  BY DEF SameText, Core, Np
<1> QED
  BY <1>1, EditorQuiet

LEMMA Domains ==
  ASSUME NEW s, Core(s)
  PROVE  /\ DOMAIN s = Fields /\ DOMAIN s.fw = {"open", "min", "path", "focus", "sel", "items", "listed", "chosen"}
         /\ DOMAIN s.np = {"open", "min", "path", "name", "text"}
         /\ DOMAIN s.prompt = {"active", "ready", "mode", "buf"}
BY DEF Core, Fw, Np, Rest

\* An explorer that is opened shows the user's directory.
LEMMA OpenExplorer ==
  ASSUME NEW s, Core(s), NEW t, t = filewin_open(s)
  PROVE  /\ Quiet(s, t) /\ Touch(s, t, {"fw", "front"})
         /\ s.fw.open = FALSE => t.fw.open = TRUE /\ t.fw.min = FALSE /\ t.fw.path = s.ddir
<1>1. CASE s.fw.open /\ ~s.fw.min
  <2>1. t = s
    BY <1>1 DEF filewin_open
  <2> QED
    BY <1>1, <2>1, QuietRefl, Domains DEF Touch
<1>2. CASE ~(s.fw.open /\ ~s.fw.min)
  <2>1. PICK a : a = [s EXCEPT !.fw.open = TRUE, !.fw.min = FALSE, !.fw.focus = FALSE]
    OBVIOUS
  <2>2. PICK b : b = filewin_set_path(a, s.ddir)
    OBVIOUS
  <2>3. t = [b EXCEPT !.front = "fw"]
    BY <1>2, <2>1, <2>2 DEF filewin_open
  <2>4. Touch(s, a, {"fw"}) /\ SameList(s, a) /\ a.fw.open = TRUE /\ a.fw.min = FALSE
    BY <2>1, Domains DEF Touch, Fields, SameList
  <2>5. Touch(s, a, {"fw", "front", "launch"})
    BY <2>4 DEF Touch
  <2>6. Quiet(s, a)
    BY <2>4, <2>5, FlagsQuiet
  <2>7. Core(a) /\ IsSeq(s.ddir)
    BY <2>6, QuietCore DEF Core
  <2>8. Touch(a, b, {"fw"}) /\ SameWindow(a, b) /\ b.fw.path = s.ddir /\ Quiet(a, b)
    BY <2>2, <2>7, SetPath
  <2>9. Core(b) /\ Quiet(s, b)
    BY <2>6, <2>7, <2>8, QuietCore, QuietTrans
  <2>10. Quiet(s, t)
    <3>1. Quiet(b, [b EXCEPT !.front = "fw"])
      BY <2>9, SetField
    <3> QED
      BY <2>3, <2>9, <3>1, QuietTrans
  <2>11. t.fw = b.fw /\ Touch(b, t, {"front"})
    BY <2>3, <2>9, Domains DEF Touch, Fields
  <2>12. Touch(s, t, {"fw", "front"})
    BY <2>4, <2>8, <2>11 DEF Touch
  <2> QED
    BY <2>4, <2>8, <2>10, <2>11, <2>12 DEF SameWindow
<1> QED
  BY <1>1, <1>2

LEMMA PickerCancel == ASSUME NEW s, Core(s) PROVE Quiet(s, file_picker_cancel(s))
BY SetField DEF file_picker_cancel

LEMMA CloseExplorer == ASSUME NEW s, Core(s) PROVE Quiet(s, filewin_close(s))
<1>1. PICK a : a = [s EXCEPT !.fw.open = FALSE, !.fw.min = FALSE]
  OBVIOUS
<1>2. Touch(s, a, {"fw", "front", "launch"}) /\ SameList(s, a)
  BY <1>1, Domains DEF Touch, Fields, SameList
<1>3. Quiet(s, a) /\ Core(a)
  BY <1>2, FlagsQuiet, QuietCore
<1>4. filewin_close(s) = file_picker_cancel(a)
  BY <1>1 DEF filewin_close
<1> QED
  BY <1>3, <1>4, PickerCancel, QuietTrans

LEMMA PickerStart ==
  ASSUME NEW s, Core(s), NEW x \in {"TXT", "WAV"} PROVE Quiet(s, file_picker_start(s, x))
<1>1. PICK a : a = [s EXCEPT !.picker = x]
  OBVIOUS
<1>2. Quiet(s, a) /\ Core(a)
  <2>1. Quiet(s, a)
    BY <1>1, SetField
  <2> QED
    BY <2>1, QuietCore
<1>3. PICK b : b = IF a.fw.open THEN a ELSE filewin_open(a)
  OBVIOUS
<1>4. Quiet(a, b)
  <2>1. PICK o : o = filewin_open(a)
    OBVIOUS
  <2>2. Quiet(a, o) /\ Quiet(a, a)
    BY <1>2, <2>1, OpenExplorer, QuietRefl
  <2> QED
    BY <1>3, <2>1, <2>2
<1>5. Core(b) /\ Quiet(s, b) /\ IsSeq(b.ddir)
  BY <1>2, <1>4, QuietCore, QuietTrans DEF Core
<1>6. PICK c : c = filewin_set_path(b, b.ddir)
  OBVIOUS
<1>7. Quiet(b, c) /\ Core(c)
  <2>1. Quiet(b, c)
    BY <1>5, <1>6, SetPath
  <2> QED
    BY <1>5, <2>1, QuietCore
<1>8. PICK t : t = [c EXCEPT !.fw.focus = FALSE, !.front = "fw"]
  OBVIOUS
<1>9. Touch(c, t, {"fw", "front", "launch"}) /\ SameList(c, t)
  BY <1>7, <1>8, Domains DEF Touch, Fields, SameList
<1>10. Quiet(c, t)
  BY <1>7, <1>9, FlagsQuiet
<1>11. file_picker_start(s, x) = t
  BY <1>1, <1>3, <1>6, <1>8 DEF file_picker_start
<1> QED
  BY <1>5, <1>7, <1>10, <1>11, QuietTrans

LEMMA Select ==
  ASSUME NEW s, Core(s), NEW i \in 1 .. Len(s.fw.items), NEW t, t = filewin_select(s, i)
  PROVE  Quiet(s, t) /\ t.fw.items = s.fw.items /\ t.fw.path = s.fw.path
<1>1. PICK c : c = Append(s.fw.listed, s.fw.items[i].name)
  OBVIOUS
<1>2. t = [s EXCEPT !.fw.sel = i, !.fw.chosen = c]
  BY <1>1 DEF filewin_select
<1>3. IsSeq(s.fw.items) /\ Len(s.fw.items) \in Nat
  BY LenOf DEF Core, Fw
<1>4. /\ Touch(s, t, {"fw", "front", "launch"}) /\ DOMAIN t.fw = DOMAIN s.fw /\ t.fw.sel = i /\ t.fw.chosen = c
      /\ t.fw.items = s.fw.items /\ t.fw.listed = s.fw.listed /\ t.fw.path = s.fw.path
  <2>1. PICK g : g = [s.fw EXCEPT !.sel = i, !.chosen = c]
    OBVIOUS
  <2>2. t.fw = g /\ Touch(s, t, {"fw", "front", "launch"})
    BY <1>2, <2>1, Domains DEF Touch, Fields
  <2> QED
    BY <2>1, <2>2, Domains
<1>5. Fw(t)
  <2>1. i \in Nat
    BY <1>3
  <2> QED
    BY <1>1, <1>4, <2>1 DEF Core, Fw
<1> QED
  BY <1>4, <1>5, ExplorerQuiet

LEMMA MoveInList ==
  ASSUME NEW s, Core(s), NEW d \in Int PROVE Quiet(s, filewin_move_selection(s, d))
<1>1. Len(s.fw.items) \in Nat /\ s.fw.sel \in Nat
  BY LenOf DEF Core, Fw
<1>2. PICK n \in Nat : n = Len(s.fw.items)
  BY <1>1
<1>3. PICK a \in Int : a = (IF s.fw.sel = 0 THEN 1 ELSE s.fw.sel) + d
  BY <1>1
<1>4. PICK i : i = IF a < 1 THEN 1 ELSE IF a > n THEN n ELSE a
  OBVIOUS
<1>5. CASE n = 0
  BY <1>2, <1>5, QuietRefl DEF filewin_move_selection
<1>6. CASE n # 0
  <2>1. i \in 1 .. Len(s.fw.items)
    BY <1>2, <1>4, <1>6
  <2>2. filewin_move_selection(s, d) = filewin_select(s, i)
    BY <1>2, <1>3, <1>4, <1>6 DEF filewin_move_selection
  <2> QED
    BY <2>1, <2>2, Select
<1> QED
  BY <1>5, <1>6
-----------------------------------------------------------------------------
(* The editor, the prompt and the menus.                                    *)

LEMMA NameDocument ==
  ASSUME NEW s, DOMAIN s = Fields, Np(s), NEW p, IsSeq(p), NEW t, t = notepad_set_path_and_name(s, p)
  PROVE  Touch(s, t, {"np"}) /\ Np(t)
<1>1. DOMAIN s.np = {"open", "min", "path", "name", "text"}
  BY DEF Np
<1>2. PICK n : n = Title[Last(p)]
  OBVIOUS
<1>3. t = [s EXCEPT !.np.path = p, !.np.name = n]
  BY <1>2 DEF notepad_set_path_and_name
<1>4. PICK g : g = [s.np EXCEPT !.path = p, !.name = n]
  OBVIOUS
<1>5. t.np = g /\ Touch(s, t, {"np"})
  BY <1>1, <1>3, <1>4 DEF Touch, Fields
<1>6. DOMAIN g = DOMAIN s.np /\ g.path = p /\ g.text = s.np.text
  BY <1>1, <1>4
<1> QED
  BY <1>1, <1>5, <1>6 DEF Np

LEMMA OpenPath == ASSUME NEW s, Core(s), NEW p, IsSeq(p) PROVE Quiet(s, notepad_open_path(s, p))
<1>1. PICK a : a = notepad_set_path_and_name(s, p)
  OBVIOUS
<1>2. PICK d : d = IF s.mounted /\ io.r /\ IsFile(s.vol, p) THEN DataAt(s.vol, p) ELSE Zero
  OBVIOUS
<1>3. PICK t : t = [a EXCEPT !.np.open = TRUE, !.np.min = FALSE, !.np.text = d, !.front = "np"]
  OBVIOUS
<1>4. t = notepad_open_path(s, p)
  BY <1>1, <1>2, <1>3 DEF notepad_open_path
<1>5. d \in DOMAIN Parse
  BY <1>2, HoldsIs, SessionAssumption DEF Core
<1>6. Touch(s, a, {"np"}) /\ Np(a)
  BY <1>1, NameDocument DEF Core
<1>7. PICK g : g = [a.np EXCEPT !.open = TRUE, !.min = FALSE, !.text = d]
  OBVIOUS
<1>8. DOMAIN a = Fields /\ DOMAIN a.np = {"open", "min", "path", "name", "text"}
  BY <1>6 DEF Touch, Np
<1>9. t.np = g /\ Touch(a, t, {"np", "front"})
  BY <1>3, <1>7, <1>8 DEF Touch, Fields
<1>10. DOMAIN g = DOMAIN a.np /\ g.path = a.np.path /\ g.text = d
  BY <1>7, <1>8
<1>11. Np(t)
  BY <1>5, <1>6, <1>8, <1>9, <1>10 DEF Np
<1>12. Touch(s, t, {"np", "front", "launch"})
  BY <1>6, <1>9 DEF Touch
<1> QED
  BY <1>4, <1>11, <1>12, EditorQuiet

LEMMA OpenName == ASSUME NEW s, Core(s), NEW n PROVE Quiet(s, notepad_open(s, n))
<1>1. IsSeq(Append(s.ddir, n))
  BY AppendTo DEF Core
<1> QED
  BY <1>1, OpenPath DEF notepad_open

LEMMA NewDocument == ASSUME NEW s, Core(s) PROVE Quiet(s, notepad_new(s))
<1>1. PICK p : p = Append(s.ddir, "UNTITLED.TXT")
  OBVIOUS
<1>2. IsSeq(p)
  BY <1>1, AppendTo DEF Core
<1>3. PICK n : n = Title["UNTITLED.TXT"]
  OBVIOUS
<1>4. PICK t : t = [s EXCEPT !.np.text = Zero, !.np.name = n, !.np.path = p]
  OBVIOUS
<1>5. PICK g : g = [s.np EXCEPT !.text = Zero, !.name = n, !.path = p]
  OBVIOUS
<1>6. t.np = g /\ Touch(s, t, {"np", "front", "launch"})
  BY <1>4, <1>5, Domains DEF Touch, Fields
<1>7. DOMAIN g = DOMAIN s.np /\ g.path = p /\ g.text = Zero
  BY <1>5, Domains
<1>8. Np(t)
  BY <1>2, <1>6, <1>7, Domains, SessionAssumption DEF Np
<1>9. t = notepad_new(s)
  BY <1>1, <1>3, <1>4 DEF notepad_new
<1> QED
  BY <1>6, <1>8, <1>9, EditorQuiet

LEMMA CloseEditor == ASSUME NEW s, Core(s) PROVE Quiet(s, notepad_close(s))
<1>1. PICK t : t = notepad_close(s)
  OBVIOUS
<1>2. Touch(s, t, {"np", "front", "launch"}) /\ SameText(s, t)
  BY <1>1, Domains DEF Touch, Fields, SameText, notepad_close
<1> QED
  BY <1>1, <1>2, TextQuiet

LEMMA StartPrompt == ASSUME NEW s, Core(s), NEW m, NEW b PROVE Quiet(s, start_name_prompt(s, m, b))
<1>1. PICK r : r = [active |-> TRUE, ready |-> FALSE, mode |-> m, buf |-> b]
  OBVIOUS
<1>2. DOMAIN r = {"active", "ready", "mode", "buf"}
  BY <1>1
<1>3. Quiet(s, [s EXCEPT !.prompt = r])
  BY <1>2, SetField
<1> QED
  BY <1>1, <1>3 DEF start_name_prompt

\* The prompt, the context menu and the buttons.
LEMMA PromptQuiet ==
  ASSUME NEW s, Core(s), NEW t, Touch(s, t, {"prompt", "ctx", "right"}), DOMAIN t.prompt = DOMAIN s.prompt,
         t.ctx \in Targets
  PROVE  Quiet(s, t)
BY Domains DEF Quiet, Touch, Core, Np, Fw, Rest, Fields, InWindows

LEMMA PromptEnds == ASSUME NEW s, Core(s) PROVE Quiet(s, EndPrompt(s))
<1>1. PICK t : t = EndPrompt(s)
  OBVIOUS
<1>2. Touch(s, t, {"prompt", "ctx", "right"}) /\ DOMAIN t.prompt = DOMAIN s.prompt /\ t.ctx \in Targets
  BY <1>1, Domains DEF Touch, Fields, EndPrompt, Targets
<1> QED
  BY <1>1, <1>2, PromptQuiet

LEMMA ToggleLaunch ==
  ASSUME NEW s, Core(s), NEW t, t = launch_toggle(s) PROVE Quiet(s, t) /\ t.np = s.np /\ t.fw = s.fw
<1>1. PICK x : x = ~s.launch
  OBVIOUS
<1>2. PICK a : a = [s EXCEPT !.launch = x]
  OBVIOUS
<1>3. Quiet(s, a) /\ Core(a)
  <2>1. Quiet(s, a)
    BY <1>2, SetField
  <2> QED
    BY <2>1, QuietCore
<1>4. \A y : Quiet(a, [a EXCEPT !.litems = y])
  BY <1>3, SetField
<1>5. \E y : t = a \/ t = [a EXCEPT !.litems = y]
  BY <1>1, <1>2 DEF launch_toggle
<1>6. Quiet(s, t)
  BY <1>3, <1>4, <1>5, QuietTrans
<1>7. t.np = s.np /\ t.fw = s.fw
  BY <1>2, <1>3, <1>5, Domains DEF Fields
<1> QED
  BY <1>6, <1>7

LEMMA DoubleClickQuiet ==
  ASSUME NEW s, Core(s), NEW i \in 1 .. Len(s.fw.items) PROVE Quiet(s, DoubleClick(s, i))
<1>1. PICK it : it = s.fw.items[i]
  OBVIOUS
<1>2. PICK p : p = Append(s.fw.path, it.name)
  OBVIOUS
<1>3. IsSeq(p)
  BY <1>2, AppendTo DEF Core, Fw
<1>4. PICK a : a = IF s.picker = "TXT" THEN notepad_open_path(s, p) ELSE [s EXCEPT !.front = "other"]
  OBVIOUS
<1>5. Quiet(s, [s EXCEPT !.front = "other"])
  BY SetField
<1>6. Quiet(s, a) /\ Core(a)
  <2>1. Quiet(s, a)
    BY <1>3, <1>4, <1>5, OpenPath
  <2> QED
    BY <2>1, QuietCore
<1>7. PICK b : b = file_picker_cancel(a)
  OBVIOUS
<1>8. Quiet(a, b) /\ Core(b)
  <2>1. Quiet(a, b)
    BY <1>6, <1>7, PickerCancel
  <2> QED
    BY <1>6, <2>1, QuietCore
<1>9. PICK c : c = [b EXCEPT !.fw.open = FALSE]
  OBVIOUS
<1>10. Touch(b, c, {"fw", "front", "launch"}) /\ SameList(b, c)
  BY <1>8, <1>9, Domains DEF Touch, Fields, SameList
<1>11. Quiet(s, c)
  BY <1>6, <1>8, <1>10, FlagsQuiet, QuietTrans
<1>12. Quiet(s, filewin_set_path(s, p))
  BY <1>3, SetPath
<1>13. Quiet(s, s) /\ Quiet(s, notepad_open(s, it.name))
  BY QuietRefl, OpenName
<1>14. \/ DoubleClick(s, i) \in {c, s, filewin_set_path(s, p), notepad_open(s, it.name)}
       \/ DoubleClick(s, i) = [s EXCEPT !.front = "other"]
  BY <1>1, <1>2, <1>4, <1>7, <1>9 DEF DoubleClick
<1> QED
  BY <1>5, <1>11, <1>12, <1>13, <1>14
-----------------------------------------------------------------------------
(* Directories that a step makes, and files that it writes.                 *)

\* The lists of directories with at least n names are the same.
SameLists(v, w, n) == \A d, k : Len(d) \in Nat /\ Len(d) >= n => Listing(w, d, k) = Listing(v, d, k)

\* w is v with directories whose paths have at most n names.
Extends(v, w, n) == Volume(w) /\ SameFiles(v, w) /\ SameLists(v, w, n)

LEMMA ExtendsTrans ==
  ASSUME NEW n, NEW v, NEW w, Extends(v, w, n), NEW u, Extends(w, u, n) PROVE Extends(v, u, n)
BY DEF Extends, SameFiles, SameLists

LEMMA ExtendsRefl == ASSUME NEW n, NEW v, Volume(v) PROVE Extends(v, v, n)
BY DEF Extends, SameFiles, SameLists

\* Equal lists have equal entries.
LEMMA SameListing ==
  ASSUME NEW v, NEW w, NEW d, NEW n, Len(v) \in Nat, Len(w) \in Nat, Len(v) <= Len(w),
         \A i \in 1 .. Len(v) : /\ Shows(w[i], d) <=> Shows(v[i], d)
                                /\ w[i].path = v[i].path /\ w[i].dir = v[i].dir,
         \A i \in 1 .. Len(w) : i > Len(v) => ~Shows(w[i], d)
  PROVE  Listing(w, d, n) = Listing(v, d, n)
<1>0. ASSUME NEW i \in 1 .. Len(v) PROVE Nth(w, d, i) = Nth(v, d, i)
  <2>1. \A k \in 1 .. i : In(w[k], d) <=> In(v[k], d)
    <3>1. \A k \in 1 .. i : k \in 1 .. Len(v)
      OBVIOUS
    <3> QED
      BY <3>1 DEF In
  <2>2. {k \in 1 .. i : In(w[k], d)} = {k \in 1 .. i : In(v[k], d)}
    BY <2>1
  <2> QED
    BY <2>2 DEF Nth
<1>1. PICK A : A = {j \in 1 .. Len(v) : Shows(v[j], d) /\ Nth(v, d, j) <= n}
  OBVIOUS
<1>2. PICK B : B = {j \in 1 .. Len(w) : Shows(w[j], d) /\ Nth(w, d, j) <= n}
  OBVIOUS
<1>3. A = B
  <2>1. \A j \in 1 .. Len(v) : j \in 1 .. Len(w) /\ (Shows(w[j], d) <=> Shows(v[j], d))
    OBVIOUS
  <2>2. \A j \in 1 .. Len(w) : Shows(w[j], d) => j \in 1 .. Len(v)
    OBVIOUS
  <2> QED
    BY <1>0, <1>1, <1>2, <2>1, <2>2
<1>4. [i \in A |-> [name |-> Last(v[i].path), dir |-> v[i].dir]]
        = [i \in B |-> [name |-> Last(w[i].path), dir |-> w[i].dir]]
  BY <1>1, <1>3
<1> QED
  BY <1>1, <1>2, <1>4 DEF Listing

LEMMA MakeDirsExtends ==
  ASSUME NEW v, Volume(v), NEW p, IsSeq(p), NEW n \in Nat, Len(p) <= n
  PROVE  Extends(v, MakeDirs(v, p), n) /\ \A q : IsSeq(q) /\ Len(q) > Len(p) /\ IsDir(MakeDirs(v, p), q) => IsDir(v, q)
<1>1. Volume(MakeDirs(v, p)) /\ SameFiles(v, MakeDirs(v, p))
  BY MakeDirsKeeps
<1>2. CASE Blocked(v, p)
  BY <1>2, ExtendsRefl DEF MakeDirs
<1>3. CASE ~Blocked(v, p)
  <2>1. PICK m : m = Missing(v, p)
    OBVIOUS
  <2>2. NewDirs(v, m, Len(p))
    BY <1>3, <2>1, MissingIs
  <2>3. PICK w : w = v \o m
    OBVIOUS
  <2>4. MakeDirs(v, p) = w
    BY <1>3, <2>1, <2>3 DEF MakeDirs
  <2>5. IsSeq(v) /\ IsSeq(m) /\ Len(v) \in Nat /\ Len(m) \in Nat /\ Len(p) \in Nat
    BY <2>2, LenOf DEF Volume, NewDirs
  <2>6. /\ Len(w) = Len(v) + Len(m)
        /\ \A i \in 1 .. Len(v) : w[i] = v[i]
        /\ \A i \in 1 .. Len(v) + Len(m) : i > Len(v) => w[i] = m[i - Len(v)] /\ i - Len(v) \in 1 .. Len(m)
    BY <2>3, <2>5, Joined
  <2>7. \A i \in 1 .. Len(w) : i > Len(v) => Len(w[i].path) \in Nat /\ Len(w[i].path) <= Len(p)
    <3>1. \A j \in 1 .. Len(m) : Len(m[j].path) \in Nat /\ Len(m[j].path) <= Len(p)
      BY <2>2, LenOf DEF NewDirs
    <3> QED
      BY <2>6, <3>1
  <2>8. ASSUME NEW d, NEW k, Len(d) \in Nat, Len(d) >= n PROVE Listing(w, d, k) = Listing(v, d, k)
    <3>1. \A i \in 1 .. Len(w) : i > Len(v) => ~Shows(w[i], d)
      BY <2>5, <2>7, <2>8 DEF Shows, In
    <3>2. Len(w) \in Nat /\ Len(v) <= Len(w)
      BY <2>5, <2>6
    <3> QED
      BY <2>5, <2>6, <3>1, <3>2, SameListing
  <2>9. ASSUME NEW q, IsSeq(q), Len(q) > Len(p), IsDir(w, q) PROVE IsDir(v, q)
    <3>1. PICK i \in 1 .. Len(w) : w[i].path = q /\ w[i].dir
      BY <2>9 DEF IsDir
    <3>2. ~(i > Len(v))
      BY <2>5, <2>7, <2>9, <3>1
    <3>3. i \in 1 .. Len(v)
      BY <2>5, <2>6, <3>2
    <3> QED
      BY <2>6, <3>1, <3>3 DEF IsDir
  <2> QED
    BY <1>1, <2>4, <2>8, <2>9 DEF Extends, SameLists
<1> QED
  BY <1>2, <1>3

LEMMA WriteDoes ==
  ASSUME NEW s, DOMAIN s = Fields, Volume(s.vol), NEW p, IsSeq(p), Len(p) > 0, Writable(s, p),
         NEW d \in DOMAIN Parse, NEW t, t = Write(s, p, d)
  PROVE  /\ Touch(s, t, {"vol"}) /\ Wrote(s.vol, t.vol, p, d)
         /\ SameLists(s.vol, t.vol, Len(p))
<1>1. PICK v : v = MakeDirs(s.vol, Front(p))
  OBVIOUS
<1>2. PICK w : w = IF IsFile(v, p) THEN [v EXCEPT ![Index(v, p)].data = d]
                   ELSE Append(v, [path |-> p, dir |-> FALSE, data |-> d])
  OBVIOUS
<1>3. t = [s EXCEPT !.vol = w]
  BY <1>1, <1>2 DEF Write
<1>4. Touch(s, t, {"vol"}) /\ t.vol = w
  BY <1>3 DEF Touch, Fields
<1>5. IsSeq(Front(p)) /\ Len(Front(p)) \in Nat /\ Len(p) \in Nat /\ Len(p) > Len(Front(p))
  BY FrontOf, LenOf
<1>6. Extends(s.vol, v, Len(Front(p))) /\ ~IsDir(v, p)
  BY <1>1, <1>5, MakeDirsExtends DEF Writable, Reaches
<1>7. Volume(v) /\ SameFiles(s.vol, v)
  BY <1>6 DEF Extends
<1>8. Wrote(v, w, p, d) /\ OnlyAt(v, w, p)
  BY <1>2, <1>6, <1>7, FileWritten
<1>9. \A q, x : Holds(s.vol, q, x) => Holds(v, q, x)
  BY <1>7 DEF SameFiles
<1>10. ASSUME NEW e, NEW k, Len(e) \in Nat, Len(e) >= Len(p) PROVE Listing(w, e, k) = Listing(s.vol, e, k)
  <2>1. Listing(v, e, k) = Listing(s.vol, e, k)
    BY <1>5, <1>6, <1>10 DEF Extends, SameLists
  <2>2. \A x : x.path = p => ~Shows(x, e)
    BY <1>5, <1>10 DEF Shows, In
  <2>3. Len(v) \in Nat
    BY <1>7, LenOf DEF Volume
  <2>4. \A i \in 1 .. Len(v) : Shows(w[i], e) <=> Shows(v[i], e)
    BY <1>8, <2>2 DEF OnlyAt
  <2>5. \A i \in 1 .. Len(w) : i > Len(v) => ~Shows(w[i], e)
    BY <1>8, <2>2 DEF OnlyAt
  <2>6. Listing(w, e, k) = Listing(v, e, k)
    BY <1>8, <2>3, <2>4, <2>5, SameListing DEF OnlyAt
  <2> QED
    BY <2>1, <2>6
<1> QED
  BY <1>4, <1>8, <1>9, <1>10 DEF Wrote, SameLists

\* Directories up to the user's.
Ensured(s, t) == Touch(s, t, {"vol"}) /\ Extends(s.vol, t.vol, 4)

LEMMA EnsuredTrans ==
  ASSUME NEW s, NEW t, Ensured(s, t), NEW u, Ensured(t, u) PROVE Ensured(s, u)
<1>1. Extends(s.vol, u.vol, 4)
  BY ExtendsTrans DEF Ensured
<1>2. Touch(s, u, {"vol"})
  BY DEF Ensured, Touch
<1> QED
  BY <1>1, <1>2 DEF Ensured

LEMMA EnsuredType ==
  ASSUME NEW s, NEW t, Ensured(s, t) PROVE DOMAIN t = Fields /\ Volume(t.vol) /\ SameFiles(s.vol, t.vol)
BY DEF Ensured, Touch, Extends

\* A path of n names.
Path(q, n) == IsSeq(q) /\ Len(q) = n

LEMMA EnsureOne ==
  ASSUME NEW s, DOMAIN s = Fields, Volume(s.vol), NEW n \in 0 .. 4, NEW p, Path(p, n),
         NEW t, t = EnsureDir(s, p)
  PROVE  Ensured(s, t)
<1>1. CASE s.mounted /\ io.w # "none"
  <2>1. PICK v : v = MakeDirs(s.vol, p)
    OBVIOUS
  <2>2. t = [s EXCEPT !.vol = v]
    BY <1>1, <2>1 DEF EnsureDir
  <2>3. Extends(s.vol, v, 4)
    <3>1. IsSeq(p) /\ Len(p) <= 4 /\ 4 \in Nat
      BY DEF Path
    <3> QED
      BY <2>1, <3>1, MakeDirsExtends
  <2>4. Touch(s, t, {"vol"}) /\ t.vol = v
    BY <2>2 DEF Touch, Fields
  <2> QED
    BY <2>3, <2>4 DEF Ensured
<1>2. CASE ~(s.mounted /\ io.w # "none")
  <2>1. t = s
    BY <1>2 DEF EnsureDir
  <2> QED
    BY <2>1, ExtendsRefl DEF Ensured, Touch
<1> QED
  BY <1>1, <1>2

LEMMA OneMore ==
  ASSUME NEW n, NEW q, Path(q, n), NEW e, NEW r, r = q \o <<e>> PROVE Path(r, n + 1)
<1>1. <<e>> \in Seq({e}) /\ Len(<<e>>) = 1
  OBVIOUS
<1>2. IsSeq(<<e>>)
  BY <1>1 DEF IsSeq
<1>3. IsSeq(q \o <<e>>) /\ Len(q \o <<e>>) = Len(q) + Len(<<e>>)
  BY <1>2, Joined DEF Path
<1> QED
  BY <1>1, <1>3 DEF Path

\* How long the paths are.
LEMMA Paths ==
  ASSUME NEW u
  PROVE  /\ Path(Base, 1) /\ Path(UsersDir, 2) /\ Path(WallDir, 2) /\ Path(UserFile, 3) /\ Path(UserDir(u), 3)
         /\ Path(Desk(u), 4) /\ Path(Prog(u), 4)
<1>1. Path(Base, 1)
  BY BaseIsSeq DEF Base, Path
<1>2. 1 + 1 = 2 /\ 2 + 1 = 3 /\ 3 + 1 = 4
  OBVIOUS
<1>3. Path(UsersDir, 1 + 1) /\ Path(WallDir, 1 + 1)
  BY <1>1, OneMore DEF UsersDir, WallDir
<1>4. Path(UserFile, 2 + 1) /\ Path(UserDir(u), 2 + 1)
  BY <1>2, <1>3, OneMore DEF UserFile, UserDir
<1>5. Path(Desk(u), 3 + 1) /\ Path(Prog(u), 3 + 1)
  BY <1>2, <1>4, OneMore DEF Desk, Prog
<1> QED
  BY <1>1, <1>2, <1>3, <1>4, <1>5

LEMMA EnsureUser ==
  ASSUME NEW s, DOMAIN s = Fields, Volume(s.vol), NEW u
  PROVE  Ensured(s, ensure_user_dirs_on_disk(s, u))
<1>0. /\ Path(Base, 1) /\ Path(UsersDir, 2) /\ Path(WallDir, 2) /\ Path(UserDir(u), 3) /\ Path(Desk(u), 4) /\ Path(Prog(u), 4)
      /\ 1 \in 0 .. 4 /\ 2 \in 0 .. 4 /\ 3 \in 0 .. 4 /\ 4 \in 0 .. 4
  BY Paths
<1>1. PICK a : a = EnsureDir(s, Base)
  OBVIOUS
<1>2. PICK b : b = EnsureDir(a, UsersDir)
  OBVIOUS
<1>3. PICK c : c = EnsureDir(b, WallDir)
  OBVIOUS
<1>4. PICK d : d = EnsureDir(c, UserDir(u))
  OBVIOUS
<1>5. PICK e : e = EnsureDir(d, Desk(u))
  OBVIOUS
<1>6. PICK f : f = EnsureDir(e, Prog(u))
  OBVIOUS
<1>7. f = ensure_user_dirs_on_disk(s, u)
  BY <1>1, <1>2, <1>3, <1>4, <1>5, <1>6 DEF ensure_user_dirs_on_disk
<1>8. Ensured(s, a)
  BY <1>1, EnsureOne, <1>0
<1>9. Ensured(a, b)
  BY <1>2, <1>8, EnsuredType, EnsureOne, <1>0
<1>10. Ensured(b, c)
  BY <1>3, <1>9, EnsuredType, EnsureOne, <1>0
<1>11. Ensured(c, d)
  BY <1>4, <1>10, EnsuredType, EnsureOne, <1>0
<1>12. Ensured(d, e)
  BY <1>5, <1>11, EnsuredType, EnsureOne, <1>0
<1>13. Ensured(e, f)
  BY <1>6, <1>12, EnsuredType, EnsureOne, <1>0
<1>14. Ensured(s, c)
  BY <1>8, <1>9, <1>10, EnsuredTrans
<1>15. Ensured(c, f)
  BY <1>11, <1>12, <1>13, EnsuredTrans
<1> QED
  BY <1>7, <1>14, <1>15, EnsuredTrans
-----------------------------------------------------------------------------
(* The icons: refresh and mount.                                            *)

\* Everything but the icons is in order.
Frame(s) == DOMAIN s = Fields /\ Volume(s.vol) /\ IsSeq(s.ddir) /\ Np(s) /\ Fw(s) /\ Rest(s)

OnDesk == {"vol", "icons", "isel", "chosen", "mounted", "seen", "late"}

\* A refresh: the same files, and their icons.
Refreshed(s, t) == Core(t) /\ Shown(t) /\ Touch(s, t, OnDesk) /\ SameFiles(s.vol, t.vol)

LEMMA CoreParts == ASSUME NEW s PROVE Core(s) <=> Frame(s) /\ Icons(s)
BY DEF Core, Frame

LEMMA FrameKept ==
  ASSUME NEW s, Frame(s), NEW t, Touch(s, t, OnDesk), Volume(t.vol) PROVE Frame(t)
BY DEF Frame, Touch, Fields, OnDesk, Np, Fw, Rest

LEMMA EnsuredFrame ==
  ASSUME NEW s, Frame(s), NEW t, Ensured(s, t)
  PROVE  Frame(t) /\ (Icons(s) => Icons(t)) /\ Touch(s, t, OnDesk) /\ t.mounted = s.mounted /\ SameFiles(s.vol, t.vol)
<1>1. Touch(s, t, {"vol"}) /\ Volume(t.vol) /\ SameFiles(s.vol, t.vol)
  BY DEF Ensured, Extends
<1>2. Touch(s, t, OnDesk)
  BY <1>1 DEF Touch, OnDesk
<1>3. t.mounted = s.mounted /\ t.icons = s.icons /\ t.isel = s.isel /\ t.chosen = s.chosen /\ t.ddir = s.ddir
  BY <1>1 DEF Touch, Fields
<1>4. Icons(s) => Icons(t)
  BY <1>3 DEF Icons
<1> QED
  BY <1>1, <1>2, <1>3, <1>4, FrameKept

LEMMA SameTrans == ASSUME NEW u, NEW v, SameFiles(u, v), NEW w, SameFiles(v, w) PROVE SameFiles(u, w)
BY DEF SameFiles

LEMMA SameRefl == ASSUME NEW v PROVE SameFiles(v, v)
BY DEF SameFiles

LEMMA RefreshDoes ==
  ASSUME NEW s, Frame(s), ~s.mounted => Icons(s), NEW t, t = desktop_refresh_from_path(s)
  PROVE  Refreshed(s, t) /\ t.mounted = s.mounted
<1>1. CASE ~s.mounted
  <2>1. t = s
    BY <1>1 DEF desktop_refresh_from_path
  <2>2. Core(s) /\ Shown(s) /\ Touch(s, s, OnDesk)
    BY <1>1, CoreParts DEF Shown, Touch, Frame
  <2> QED
    BY <2>1, <2>2, SameRefl DEF Refreshed
<1>2. CASE s.mounted
  <2>1. PICK a : a = ensure_user_dirs_on_disk(s, s.user)
    OBVIOUS
  <2>2. Ensured(s, a)
    BY <2>1, EnsureUser DEF Frame
  <2>3. Frame(a) /\ Touch(s, a, OnDesk) /\ a.mounted = s.mounted /\ SameFiles(s.vol, a.vol)
    BY <2>2, EnsuredFrame
  <2>0. PICK n : n = IF Listable(a, a.ddir) THEN io.list ELSE 0
    OBVIOUS
  <2>4. PICK b : b = [a EXCEPT !.chosen = <<>>, !.seen = n, !.late = FALSE]
    OBVIOUS
  <2>5. DOMAIN a = Fields
    BY <2>3 DEF Frame
  <2>6. /\ Touch(a, b, {"chosen", "seen", "late"}) /\ b.vol = a.vol /\ b.ddir = a.ddir /\ b.mounted = a.mounted
        /\ b.seen = n
    BY <2>4, <2>5 DEF Touch, Fields
  <2>7. PICK l : l = IF Listable(a, a.ddir) THEN Listing(a.vol, a.ddir, n) ELSE <<>>
    OBVIOUS
  <2>8. IsSeq(l) /\ Len(l) \in Nat /\ ((l = <<>> /\ n = 0) \/ l = Listing(a.vol, a.ddir, n))
    <3>1. IsSeq(l)
      BY <2>3, <2>7, ListingIsSeq, EmptyIsSeq DEF Frame
    <3> QED
      BY <2>0, <2>7, <3>1, LenOf
  <2>9. t = [b EXCEPT !.icons = l, !.isel = 0]
    BY <1>2, <2>0, <2>1, <2>4, <2>7 DEF desktop_refresh_from_path, desktop_set_items
  <2>10. Touch(b, t, {"icons", "isel"}) /\ t.icons = l /\ t.isel = 0
    BY <2>6, <2>9 DEF Touch, Fields
  <2>11. t.vol = a.vol /\ t.ddir = a.ddir /\ t.mounted = a.mounted /\ t.seen = n
    BY <2>6, <2>10 DEF Touch, Fields
  <2>12. Touch(a, t, OnDesk)
    BY <2>6, <2>10 DEF Touch, OnDesk
  <2>13. Touch(s, t, OnDesk)
    BY <2>3, <2>12 DEF Touch
  <2>14. Icons(t)
    BY <1>2, <2>3, <2>8, <2>10, <2>11 DEF Icons
  <2>15. Frame(t)
    BY <2>3, <2>11, <2>12, FrameKept DEF Frame
  <2>16. Shown(t)
    BY <2>8, <2>10, <2>11 DEF Shown
  <2> QED
    BY <2>3, <2>11, <2>13, <2>14, <2>15, <2>16, CoreParts DEF Refreshed
<1> QED
  BY <1>1, <1>2

LEMMA RefreshedTrans ==
  ASSUME NEW s, NEW t, Touch(s, t, OnDesk), SameFiles(s.vol, t.vol), NEW u, Refreshed(t, u)
  PROVE  Refreshed(s, u)
<1>1. Touch(s, u, OnDesk)
  BY DEF Refreshed, Touch
<1> QED
  BY <1>1, SameTrans DEF Refreshed

LEMMA MountDoes ==
  ASSUME NEW s, Frame(s), NEW t, t = Mount(s)
  PROVE  Refreshed(s, t) /\ t.mounted = TRUE
<1>1. PICK m : m = [s EXCEPT !.mounted = TRUE]
  OBVIOUS
<1>2. Touch(s, m, {"mounted"}) /\ m.mounted = TRUE /\ m.vol = s.vol
  BY <1>1 DEF Touch, Fields, Frame
<1>3. Touch(s, m, OnDesk)
  BY <1>2 DEF Touch, OnDesk
<1>4. Frame(m)
  BY <1>2, <1>3, FrameKept DEF Frame
<1>5. PICK a : a = ensure_user_dirs_on_disk(m, m.user)
  OBVIOUS
<1>6. Ensured(m, a)
  BY <1>4, <1>5, EnsureUser DEF Frame
<1>7. Frame(a) /\ Touch(m, a, OnDesk) /\ a.mounted = m.mounted /\ SameFiles(m.vol, a.vol)
  BY <1>4, <1>6, EnsuredFrame
<1>8. t = desktop_refresh_from_path(a)
  BY <1>1, <1>5 DEF Mount
<1>9. a.mounted = TRUE
  BY <1>2, <1>7
<1>10. Refreshed(a, t) /\ t.mounted = a.mounted
  BY <1>7, <1>8, <1>9, RefreshDoes
<1>11. Touch(s, a, OnDesk) /\ SameFiles(s.vol, a.vol)
  BY <1>2, <1>3, <1>7 DEF Touch
<1> QED
  BY <1>9, <1>10, <1>11, RefreshedTrans

LEMMA RefreshedRefl == ASSUME NEW s, Core(s), Shown(s) PROVE Refreshed(s, s)
BY SameRefl DEF Refreshed, Touch, Core

\* Mounting a second time does nothing.
LEMMA EnsureMounted ==
  ASSUME NEW s, Core(s), Shown(s), NEW t, t = ensure_volume_mounted(s)
  PROVE  Refreshed(s, t) /\ ensure_volume_mounted(t) = t
<1>1. CASE s.mounted \/ ~io.r
  <2>1. t = s
    BY <1>1 DEF ensure_volume_mounted
  <2> QED
    BY <2>1, RefreshedRefl
<1>2. CASE ~(s.mounted \/ ~io.r)
  <2>1. t = Mount(s)
    BY <1>2 DEF ensure_volume_mounted
  <2>2. Refreshed(s, t) /\ t.mounted = TRUE
    BY <2>1, CoreParts, MountDoes
  <2>3. ensure_volume_mounted(t) = t
    BY <2>2 DEF ensure_volume_mounted
  <2> QED
    BY <2>2, <2>3
<1> QED
  BY <1>1, <1>2

LEMMA SelectIcon ==
  ASSUME NEW s, Core(s), NEW i \in 1 .. Len(s.icons), NEW t, t = desktop_set_selection(s, i)
  PROVE  Core(t) /\ Touch(s, t, {"isel", "chosen"}) /\ t.icons = s.icons /\ (Shown(s) => Shown(t))
<1>1. PICK c : c = Append(s.ddir, s.icons[i].name)
  OBVIOUS
<1>2. t = [s EXCEPT !.isel = i, !.chosen = c]
  BY <1>1 DEF desktop_set_selection
<1>3. Touch(s, t, {"isel", "chosen"}) /\ t.isel = i /\ t.chosen = c
  BY <1>2, Domains DEF Touch, Fields
<1>4. /\ t.icons = s.icons /\ t.ddir = s.ddir /\ t.mounted = s.mounted /\ t.vol = s.vol /\ t.seen = s.seen
      /\ t.late = s.late
  BY <1>3 DEF Touch, Fields
<1>5. Touch(s, t, OnDesk)
  BY <1>3 DEF Touch, OnDesk
<1>6. Frame(t)
  BY <1>4, <1>5, CoreParts, FrameKept DEF Core
<1>7. IsSeq(s.icons) /\ Len(s.icons) \in Nat
  BY LenOf DEF Core, Icons
<1>8. Icons(t)
  BY <1>1, <1>3, <1>4, <1>7 DEF Core, Icons
<1>9. Shown(s) => Shown(t)
  BY <1>4 DEF Shown
<1> QED
  BY <1>3, <1>4, <1>6, <1>8, <1>9, CoreParts

LEMMA MoveIcon ==
  ASSUME NEW s, Core(s), Shown(s), NEW d \in Int, NEW t, t = desktop_move_selection(s, d)
  PROVE  Core(t) /\ Shown(t) /\ Touch(s, t, {"isel", "chosen"})
<1>1. Len(s.icons) \in Nat /\ s.isel \in Nat
  BY LenOf DEF Core, Icons
<1>2. PICK n \in Nat : n = Len(s.icons)
  BY <1>1
<1>3. PICK a \in Int : a = (IF s.isel = 0 THEN 1 ELSE s.isel) + d
  BY <1>1
<1>4. PICK i : i = IF a < 1 THEN 1 ELSE IF a > n THEN n ELSE a
  OBVIOUS
<1>5. CASE n = 0
  <2>1. t = s
    BY <1>2, <1>5 DEF desktop_move_selection
  <2> QED
    BY <2>1, Domains DEF Touch
<1>6. CASE n # 0
  <2>1. i \in 1 .. Len(s.icons)
    BY <1>2, <1>4, <1>6
  <2>2. t = desktop_set_selection(s, i)
    BY <1>2, <1>3, <1>4, <1>6 DEF desktop_move_selection
  <2> QED
    BY <2>1, <2>2, SelectIcon
<1> QED
  BY <1>5, <1>6
-----------------------------------------------------------------------------
(* Saving, creating, and what the menus do.                                 *)

\* The session goes on: nobody logs in or out, and no account changes.
SameLogin(s, t) ==
  /\ t.on = s.on /\ t.users = s.users /\ t.lsel = s.lsel /\ t.login = s.login /\ t.started = s.started
  /\ t.lostusers = s.lostusers
Calm(s, t) == Core(t) /\ Shown(t) /\ SameLogin(s, t)
\* ... and every file holds what it held.
Still(s, t) == Calm(s, t) /\ SameFiles(s.vol, t.vol)
\* ... or, if c, file p holds d now and the others what they held.
Saves(s, t, c, p, d) == Calm(s, t) /\ IF c THEN Wrote(s.vol, t.vol, p, d) ELSE SameFiles(s.vol, t.vol)

LEMMA QuietStill == ASSUME NEW s, Core(s), Shown(s), NEW t, Quiet(s, t) PROVE Still(s, t)
BY QuietCore, SameRefl DEF Still, Calm, SameLogin

LEMMA StillTrans == ASSUME NEW s, NEW t, Still(s, t), NEW u, Still(t, u) PROVE Still(s, u)
BY SameTrans DEF Still, Calm, SameLogin

LEMMA RefreshedStill == ASSUME NEW s, NEW t, Refreshed(s, t) PROVE Still(s, t)
<1>1. SameLogin(s, t)
  BY DEF Refreshed, Touch, Fields, OnDesk, SameLogin
<1> QED
  BY <1>1 DEF Refreshed, Still, Calm

LEMMA WroteTrans ==
  ASSUME NEW u, NEW v, NEW w, NEW x, NEW p, NEW d, SameFiles(u, v), Wrote(v, w, p, d), SameFiles(w, x), Volume(x)
  PROVE  Wrote(u, x, p, d)
BY DEF SameFiles, Wrote

\* A write and the refresh after it; the editor may have been pointed at the
\* file in between.
LEMMA WriteRefreshed ==
  ASSUME NEW s, Core(s), s.mounted, NEW p, IsSeq(p), Len(p) > 0, Writable(s, p), NEW d \in DOMAIN Parse,
         NEW a, a = Write(s, p, d)
  PROVE  /\ Frame(a) /\ a.mounted = s.mounted /\ Wrote(s.vol, a.vol, p, d) /\ SameLogin(s, a)
         /\ Np(a) /\ DOMAIN a = Fields
<1>1. Touch(s, a, {"vol"}) /\ Wrote(s.vol, a.vol, p, d)
  BY WriteDoes DEF Core
<1>2. Touch(s, a, OnDesk)
  BY <1>1 DEF Touch, OnDesk
<1>3. Frame(a)
  BY <1>1, <1>2, CoreParts, FrameKept DEF Wrote
<1>4. a.mounted = s.mounted /\ SameLogin(s, a)
  BY <1>1 DEF Touch, Fields, SameLogin
<1> QED
  BY <1>1, <1>3, <1>4 DEF Frame

\* A write that fails: the file at its path is torn, or every file is as it was.
LEMMA SpoilDoes ==
  ASSUME NEW s, Core(s), NEW p, IsSeq(p), Len(p) > 0, NEW t, t = Spoil(s, p)
  PROVE  /\ Core(t) /\ (Shown(s) => Shown(t)) /\ Touch(s, t, {"vol", "late"})
         /\ Spoils(s, p) => Wrote(s.vol, t.vol, p, Torn)
         /\ ~Spoils(s, p) => SameFiles(s.vol, t.vol)
<1>1. DOMAIN s = Fields /\ Volume(s.vol)
  BY Domains DEF Core
<1>2. CASE Spoils(s, p)
  <2>1. PICK v : v = s.vol
    OBVIOUS
  <2>2. PICK w : w = [v EXCEPT ![Index(v, p)].data = Torn]
    OBVIOUS
  <2>3. t = [s EXCEPT !.vol = w]
    BY <1>2, <2>1, <2>2 DEF Spoil
  <2>4. Touch(s, t, {"vol"}) /\ t.vol = w
    BY <1>1, <2>3 DEF Touch, Fields
  <2>5. Volume(v) /\ IsFile(v, p) /\ ~IsDir(v, p) /\ DataAt(v, p) # Zero
    BY <1>1, <1>2, <2>1 DEF Spoils, Reaches
  <2>6. Torn \in DOMAIN Parse /\ Torn # Zero
    BY SessionAssumption DEF Torn, Zero
  <2>7. Wrote(v, w, p, Torn) /\ OnlyAt(v, w, p)
    BY <2>2, <2>5, <2>6, FileWritten
  <2>8. ASSUME NEW d, NEW n PROVE Listing(w, d, n) = Listing(v, d, n)
    <3>1. PICK j \in 1 .. Len(v) : j = Index(v, p) /\ v[j].path = p /\ ~v[j].dir
      BY <2>5, HoldsIs
    <3>2. v[j].data # Zero
      BY <2>5, <3>1 DEF DataAt
    <3>3. IsSeq(v) /\ Len(v) \in Nat /\ DOMAIN v = 1 .. Len(v) /\ IsEntry(v[j])
      BY <2>5, LenOf DEF Volume
    <3>4. w = [v EXCEPT ![j] = [v[j] EXCEPT !.data = Torn]]
      BY <2>2, <3>1
    <3>5. w[j].data = Torn /\ w[j].path = v[j].path /\ w[j].dir = v[j].dir
      BY <3>3, <3>4 DEF IsEntry
    <3>6. \A i \in 1 .. Len(v) : i # j => w[i] = v[i]
      BY <3>3, <3>4
    <3>7. Len(w) = Len(v)
      <4>1. PICK S : v \in Seq(S)
        BY <3>3 DEF IsSeq
      <4>2. PICK e : e = [v[j] EXCEPT !.data = Torn]
        OBVIOUS
      <4> DEFINE T == S \cup {e}
      <4>3. v \in Seq(T) /\ e \in T
        BY <4>1, SeqMonotonic
      <4> HIDE DEF T
      <4>4. w = [v EXCEPT ![j] = e]
        BY <3>4, <4>2
      <4>5. PICK x : x = [v EXCEPT ![j] = e]
        OBVIOUS
      <4>6. Len(x) = Len(v)
        BY ONLY <4>3, <4>5, j \in 1 .. Len(v), ExceptSeq
      <4> QED
        BY <4>4, <4>5, <4>6
    <3>8. Shows(w[j], d) <=> Shows(v[j], d)
      BY <2>6, <3>2, <3>5 DEF Shows, In
    <3>9. \A i \in 1 .. Len(v) : /\ Shows(w[i], d) <=> Shows(v[i], d)
                                 /\ w[i].path = v[i].path /\ w[i].dir = v[i].dir
      BY <3>5, <3>6, <3>8
    <3>10. Len(w) \in Nat /\ Len(v) <= Len(w) /\ \A i \in 1 .. Len(w) : i > Len(v) => ~Shows(w[i], d)
      BY <3>3, <3>7
    <3> QED
      BY <3>3, <3>9, <3>10, SameListing
  <2>9. /\ t.icons = s.icons /\ t.isel = s.isel /\ t.chosen = s.chosen /\ t.ddir = s.ddir /\ t.mounted = s.mounted
        /\ t.np = s.np /\ t.fw = s.fw /\ t.prompt = s.prompt /\ t.picker = s.picker /\ t.ctx = s.ctx
        /\ t.seen = s.seen /\ t.late = s.late /\ DOMAIN t = Fields
    BY <2>4 DEF Touch, Fields
  <2>10. Core(t)
    BY <2>4, <2>7, <2>9 DEF Core, Np, Fw, Icons, Rest, Wrote
  <2>11. Shown(s) => Shown(t)
    BY <2>1, <2>4, <2>8, <2>9 DEF Shown
  <2>12. Touch(s, t, {"vol", "late"})
    BY <2>4 DEF Touch
  <2> QED
    BY <1>2, <2>1, <2>4, <2>7, <2>10, <2>11, <2>12
<1>3. CASE ~Spoils(s, p) /\ Reaches(s, p) /\ MakeDirs(s.vol, Front(p)) # s.vol
  <2>1. PICK v : v = MakeDirs(s.vol, Front(p))
    OBVIOUS
  <2>2. t = [s EXCEPT !.vol = v, !.late = TRUE]
    BY <1>3, <2>1 DEF Spoil
  <2>3. Touch(s, t, {"vol", "late"}) /\ t.vol = v /\ t.late = TRUE
    BY <1>1, <2>2 DEF Touch, Fields
  <2>4. Volume(v) /\ SameFiles(s.vol, v)
    BY <1>1, <2>1, FrontOf, MakeDirsKeeps
  <2>5. /\ t.icons = s.icons /\ t.isel = s.isel /\ t.chosen = s.chosen /\ t.ddir = s.ddir /\ t.mounted = s.mounted
        /\ t.np = s.np /\ t.fw = s.fw /\ t.prompt = s.prompt /\ t.picker = s.picker /\ t.ctx = s.ctx
        /\ DOMAIN t = Fields
    BY <2>3 DEF Touch, Fields
  <2>6. Core(t)
    BY <2>3, <2>4, <2>5 DEF Core, Np, Fw, Icons, Rest
  <2> QED
    BY <1>3, <2>3, <2>4, <2>6 DEF Shown
<1>4. CASE ~Spoils(s, p) /\ ~(Reaches(s, p) /\ MakeDirs(s.vol, Front(p)) # s.vol)
  <2>1. t = s
    BY <1>4 DEF Spoil
  <2> QED
    BY <1>1, <1>4, <2>1, SameRefl DEF Touch
<1> QED
  BY <1>2, <1>3, <1>4

\* In the terms of a save.
LEMMA SpoilSaves ==
  ASSUME NEW s, Core(s), Shown(s), NEW p, IsSeq(p), Len(p) > 0, ~Writable(s, p), NEW t, t = Spoil(s, p), NEW d
  PROVE  Saves(s, t, Changes(s, p), p, Outcome(s, p, d))
<1>1. /\ Core(t) /\ Shown(t) /\ Touch(s, t, {"vol", "late"})
      /\ Spoils(s, p) => Wrote(s.vol, t.vol, p, Torn)
      /\ ~Spoils(s, p) => SameFiles(s.vol, t.vol)
  BY SpoilDoes
<1>2. Calm(s, t)
  BY <1>1 DEF Calm, SameLogin, Touch, Fields
<1>3. Outcome(s, p, d) = Torn /\ (Changes(s, p) <=> Spoils(s, p))
  BY DEF Outcome, Changes
<1> QED
  BY <1>1, <1>2, <1>3 DEF Saves

LEMMA StillSaves ==
  ASSUME NEW s, NEW a, Still(s, a), NEW t, NEW c, NEW p, NEW d, Saves(a, t, c, p, d)
  PROVE  Saves(s, t, c, p, d)
<1>1. Calm(s, t)
  BY DEF Still, Saves, Calm, SameLogin
<1>2. Volume(t.vol)
  BY DEF Saves, Calm, Core
<1>3. CASE c
  BY <1>1, <1>2, <1>3, WroteTrans, SameRefl DEF Saves, Still
<1>4. CASE ~c
  BY <1>1, <1>4, SameTrans DEF Saves, Still
<1> QED
  BY <1>3, <1>4

LEMMA SavePathIs == ASSUME NEW s, Core(s), NEW n PROVE IsSeq(SavePath(s, n)) /\ Len(SavePath(s, n)) > 0
<1>1. PICK p : p = IF s.np.path # <<>> THEN s.np.path ELSE s.ddir
  OBVIOUS
<1>2. PICK d : d = IF Len(p) <= 1 THEN s.ddir ELSE Front(p)
  OBVIOUS
<1>3. IsSeq(p) /\ Len(p) \in Nat
  BY <1>1, LenOf DEF Core, Np
<1>4. IsSeq(d)
  <2>1. CASE Len(p) <= 1
    BY <1>2, <2>1 DEF Core
  <2>2. CASE ~(Len(p) <= 1)
    <3>1. Len(p) > 0
      BY <1>3, <2>2
    <3> QED
      BY <1>2, <1>3, <2>2, <3>1, FrontOf
  <2> QED
    BY <2>1, <2>2
<1>5. SavePath(s, n) = Append(d, sanitize_txt_name[n])
  BY <1>1, <1>2 DEF SavePath
<1>6. IsSeq(Append(d, sanitize_txt_name[n])) /\ Len(Append(d, sanitize_txt_name[n])) = Len(d) + 1 /\ Len(d) \in Nat
  BY <1>4, AppendTo, LenOf
<1> QED
  BY <1>5, <1>6

LEMMA SaveDataIs == ASSUME NEW s, Np(s) PROVE SaveData(s) \in DOMAIN Parse /\ SaveData(s) # Zero
BY SessionAssumption DEF SaveData, Np, Zero, NL

\* When a save changes a file, under which path, and what is there then.
SaveTaken(s, n) == LET a == ensure_volume_mounted(s) IN n # "" /\ Changes(a, SavePath(a, n))
SavedAt(s, n)   == SavePath(ensure_volume_mounted(s), n)
SavedAs(s, n)   == Outcome(ensure_volume_mounted(s), SavedAt(s, n), SaveData(s))

LEMMA SaveDoes ==
  ASSUME NEW s, Core(s), Shown(s), NEW n, NEW t, t = notepad_save_current(s, n)
  PROVE  Saves(s, t, SaveTaken(s, n), SavedAt(s, n), SavedAs(s, n))
<1>1. PICK a : a = ensure_volume_mounted(s)
  OBVIOUS
<1>2. Refreshed(s, a)
  BY <1>1, EnsureMounted
<1>3. Still(s, a) /\ Core(a)
  BY <1>2, RefreshedStill DEF Refreshed
<1>4. PICK p : p = SavePath(a, n)
  OBVIOUS
<1>5. IsSeq(p) /\ Len(p) > 0
  BY <1>3, <1>4, SavePathIs
<1>6. /\ SaveTaken(s, n) <=> n # "" /\ Changes(a, p)
      /\ SavedAt(s, n) = p /\ SavedAs(s, n) = Outcome(a, p, SaveData(s))
  BY <1>1, <1>4 DEF SaveTaken, SavedAt, SavedAs
<1>7. CASE ~a.mounted \/ n = ""
  <2>1. t = a
    BY <1>1, <1>4, <1>7 DEF notepad_save_current
  <2>2. ~SaveTaken(s, n)
    BY <1>6, <1>7 DEF Changes, Writable, Spoils, Reaches
  <2> QED
    BY <1>3, <2>1, <2>2 DEF Saves, Still
<1>9. CASE a.mounted /\ n # "" /\ ~Writable(a, p)
  <2>1. t = Spoil(a, p)
    BY <1>1, <1>4, <1>9 DEF notepad_save_current
  <2>2. Shown(a)
    BY <1>2 DEF Refreshed
  <2>3. PICK d : d = SaveData(s)
    OBVIOUS
  <2>4. Saves(a, t, Changes(a, p), p, Outcome(a, p, d))
    BY <1>3, <1>5, <1>9, <2>1, <2>2, SpoilSaves
  <2>5. Saves(s, t, Changes(a, p), p, Outcome(a, p, d))
    BY <1>3, <2>4, StillSaves
  <2> QED
    BY <1>6, <1>9, <2>3, <2>5 DEF Saves
<1>8. CASE a.mounted /\ n # "" /\ Writable(a, p)
  <2>1. PICK d \in DOMAIN Parse : d = SaveData(s)
    BY SaveDataIs DEF Core
  <2>2. PICK b : b = Write(a, p, d)
    OBVIOUS
  <2>3. /\ Frame(b) /\ b.mounted = a.mounted /\ Wrote(a.vol, b.vol, p, d) /\ SameLogin(a, b) /\ Np(b) /\ DOMAIN b = Fields
    BY <1>3, <1>5, <1>8, <2>2, WriteRefreshed
  <2>4. PICK c : c = notepad_set_path_and_name(b, p)
    OBVIOUS
  <2>5. Touch(b, c, {"np"}) /\ Np(c)
    BY <1>5, <2>3, <2>4, NameDocument
  <2>6. Frame(c) /\ c.mounted = b.mounted /\ c.vol = b.vol /\ SameLogin(b, c)
    <3>1. /\ DOMAIN c = Fields /\ c.mounted = b.mounted /\ c.vol = b.vol /\ SameLogin(b, c) /\ c.ddir = b.ddir
          /\ c.fw = b.fw /\ c.prompt = b.prompt /\ c.picker = b.picker /\ c.ctx = b.ctx
      BY <2>5 DEF Touch, Fields, SameLogin
    <3> QED
      BY <2>3, <2>5, <3>1 DEF Frame, Fw, Rest
  <2>7. t = desktop_refresh_from_path(c)
    BY <1>1, <1>4, <1>8, <2>1, <2>2, <2>4 DEF notepad_save_current
  <2>8. Refreshed(c, t)
    BY <1>8, <2>3, <2>6, <2>7, RefreshDoes
  <2>9. Still(c, t)
    BY <2>8, RefreshedStill
  <2>10. Calm(s, t)
    BY <1>3, <2>3, <2>6, <2>9 DEF Still, Calm, SameLogin
  <2>11. Wrote(s.vol, t.vol, p, d)
    <3>1. SameFiles(s.vol, a.vol) /\ SameFiles(b.vol, t.vol) /\ Volume(t.vol)
      BY <1>3, <2>6, <2>9 DEF Still, Calm, Core
    <3> QED
      BY <2>3, <3>1, WroteTrans
  <2> QED
    BY <1>6, <1>8, <2>1, <2>10, <2>11 DEF Saves, Changes, Outcome
<1> QED
  BY <1>7, <1>8, <1>9

\* What follows a save in windows changes nothing of it.
LEMMA SavesQuiet ==
  ASSUME NEW s, NEW t, NEW c, NEW p, NEW d, Saves(s, t, c, p, d), NEW u, Quiet(t, u)
  PROVE  Saves(s, u, c, p, d)
<1>1. Core(t) /\ Shown(t) /\ SameLogin(s, t)
  BY DEF Saves, Calm
<1>2. Core(u) /\ Shown(u) /\ SameLogin(t, u) /\ u.vol = t.vol
  BY <1>1, QuietCore DEF SameLogin
<1> QED
  BY <1>1, <1>2 DEF Saves, Calm, SameLogin

\* The same of a creation.
CreateTaken(s) == LET a == ensure_volume_mounted(s) IN Changes(a, Append(a.ddir, PromptName(s)))
CreatedAt(s)   == Append(ensure_volume_mounted(s).ddir, PromptName(s))
CreatedAs(s)   == Outcome(ensure_volume_mounted(s), CreatedAt(s), NL)

LEMMA CreateDoes ==
  ASSUME NEW s, Core(s), Shown(s), NEW t, t = create_txt_file_from_prompt(s)
  PROVE  Saves(s, t, CreateTaken(s), CreatedAt(s), CreatedAs(s))
<1>1. PICK a : a = ensure_volume_mounted(s)
  OBVIOUS
<1>2. Refreshed(s, a)
  BY <1>1, EnsureMounted
<1>3. Still(s, a) /\ Core(a)
  BY <1>2, RefreshedStill DEF Refreshed
<1>4. PICK p : p = Append(a.ddir, PromptName(s))
  OBVIOUS
<1>5. IsSeq(p) /\ Len(p) > 0
  <2>1. IsSeq(p) /\ Len(p) = Len(a.ddir) + 1 /\ Len(a.ddir) \in Nat
    BY <1>3, <1>4, AppendTo, LenOf DEF Core
  <2> QED
    BY <2>1
<1>6. /\ CreateTaken(s) <=> Changes(a, p)
      /\ CreatedAt(s) = p /\ CreatedAs(s) = Outcome(a, p, NL)
  BY <1>1, <1>4 DEF CreateTaken, CreatedAt, CreatedAs
<1>7. CASE ~a.mounted
  <2>1. t = EndPrompt(a)
    BY <1>1, <1>4, <1>7 DEF create_txt_file_from_prompt
  <2>2. Saves(s, a, CreateTaken(s), CreatedAt(s), CreatedAs(s))
    <3>1. ~CreateTaken(s)
      BY <1>6, <1>7 DEF Changes, Writable, Spoils, Reaches
    <3> QED
      BY <1>3, <3>1 DEF Saves, Still
  <2>3. Quiet(a, t)
    BY <1>3, <2>1, PromptEnds
  <2> QED
    BY <2>2, <2>3, SavesQuiet
<1>9. CASE a.mounted /\ ~Writable(a, p)
  <2>1. PICK b : b = Spoil(a, p)
    OBVIOUS
  <2>2. t = EndPrompt(b)
    BY <1>1, <1>4, <1>9, <2>1 DEF create_txt_file_from_prompt
  <2>3. Shown(a)
    BY <1>2 DEF Refreshed
  <2>4. Saves(a, b, Changes(a, p), p, Outcome(a, p, NL))
    BY <1>3, <1>5, <1>9, <2>1, <2>3, SpoilSaves
  <2>5. Saves(s, b, Changes(a, p), p, Outcome(a, p, NL))
    BY <1>3, <2>4, StillSaves
  <2>6. Saves(s, b, CreateTaken(s), CreatedAt(s), CreatedAs(s))
    BY <1>6, <2>5 DEF Saves
  <2>7. Quiet(b, t)
    BY <2>2, <2>5, PromptEnds DEF Saves, Calm
  <2> QED
    BY <2>6, <2>7, SavesQuiet
<1>8. CASE a.mounted /\ Writable(a, p)
  <2>1. PICK b : b = Write(a, p, NL)
    OBVIOUS
  <2>2. /\ Frame(b) /\ b.mounted = a.mounted /\ Wrote(a.vol, b.vol, p, NL) /\ SameLogin(a, b)
    <3>1. NL \in DOMAIN Parse
      BY SessionAssumption
    <3> QED
      BY <1>3, <1>5, <1>8, <2>1, <3>1, WriteRefreshed
  <2>3. PICK c : c = desktop_refresh_from_path(b)
    OBVIOUS
  <2>4. Refreshed(b, c)
    BY <1>8, <2>2, <2>3, RefreshDoes
  <2>5. Still(b, c)
    BY <2>4, RefreshedStill
  <2>6. Calm(s, c)
    BY <1>3, <2>2, <2>5 DEF Still, Calm, SameLogin
  <2>7. Wrote(s.vol, c.vol, p, NL)
    <3>1. SameFiles(s.vol, a.vol) /\ SameFiles(b.vol, c.vol) /\ Volume(c.vol)
      BY <1>3, <2>5 DEF Still, Calm, Core
    <3> QED
      BY <2>2, <3>1, WroteTrans
  <2>8. Saves(s, c, CreateTaken(s), CreatedAt(s), CreatedAs(s))
    BY <1>6, <1>8, <2>6, <2>7 DEF Saves, Changes, Outcome
  <2>9. PICK e : e = notepad_open(c, PromptName(s))
    OBVIOUS
  <2>10. Quiet(c, e) /\ Core(e)
    <3>1. Core(c)
      BY <2>6 DEF Calm
    <3>2. Quiet(c, e)
      BY <2>9, <3>1, OpenName
    <3> QED
      BY <3>1, <3>2, QuietCore
  <2>11. t = EndPrompt(e)
    BY <1>1, <1>4, <1>8, <2>1, <2>3, <2>9 DEF create_txt_file_from_prompt
  <2>12. Quiet(c, t)
    BY <2>10, <2>11, PromptEnds, QuietTrans
  <2> QED
    BY <2>8, <2>12, SavesQuiet
<1> QED
  BY <1>7, <1>8, <1>9

LEMMA CommitDoes ==
  ASSUME NEW s, Core(s), Shown(s), NEW n, n = sanitize_txt_name[s.prompt.buf], NEW t, t = name_prompt_commit(s)
  PROVE  /\ s.prompt.mode = "create" => Saves(s, t, CreateTaken(s), CreatedAt(s), CreatedAs(s))
         /\ s.prompt.mode # "create" => Saves(s, t, SaveTaken(s, n), SavedAt(s, n), SavedAs(s, n))
<1>1. CASE s.prompt.mode = "create"
  BY <1>1, CreateDoes DEF name_prompt_commit
<1>2. CASE s.prompt.mode # "create"
  <2>1. PICK a : a = ensure_volume_mounted(s)
    OBVIOUS
  <2>2. Refreshed(s, a) /\ ensure_volume_mounted(a) = a
    BY <2>1, EnsureMounted
  <2>3. Still(s, a) /\ Core(a) /\ Shown(a)
    BY <2>2, RefreshedStill DEF Refreshed
  <2>4. PICK b : b = notepad_save_current(a, n)
    OBVIOUS
  <2>5. Saves(a, b, SaveTaken(a, n), SavedAt(a, n), SavedAs(a, n))
    BY <2>3, <2>4, SaveDoes
  <2>6. (SaveTaken(a, n) <=> SaveTaken(s, n)) /\ SavedAt(a, n) = SavedAt(s, n)
    BY <2>1, <2>2 DEF SaveTaken, SavedAt
  <2>7. SavedAs(a, n) = SavedAs(s, n)
    <3>1. a.np = s.np
      BY <2>2 DEF Refreshed, Touch, Fields, OnDesk
    <3>2. SaveData(a) = SaveData(s)
      BY <3>1 DEF SaveData
    <3> QED
      BY <2>1, <2>2, <2>6, <3>2 DEF SavedAs
  <2>8. Saves(s, b, SaveTaken(s, n), SavedAt(s, n), SavedAs(s, n))
    <3>1. Saves(s, b, SaveTaken(a, n), SavedAt(a, n), SavedAs(a, n))
      BY <2>3, <2>5, StillSaves
    <3> QED
      BY <2>6, <2>7, <3>1 DEF Saves
  <2>9. t = EndPrompt(b)
    BY <1>2, <2>1, <2>4 DEF name_prompt_commit
  <2>10. Quiet(b, t)
    BY <2>8, <2>9, PromptEnds DEF Saves, Calm
  <2> QED
    BY <1>2, <2>8, <2>10, SavesQuiet
<1> QED
  BY <1>1, <1>2

Items == {"new_txt", "refresh_desktop", "np_new", "np_open", "np_save", "np_save_as", "np_close",
          "file_open", "file_up", "file_refresh"}

LEMMA FileOpenQuiet == ASSUME NEW s, Core(s) PROVE Quiet(s, Do(s, "file_open"))
<1>1. CASE s.fw.sel \notin 1 .. Len(s.fw.items)
  BY <1>1, QuietRefl DEF Do
<1>2. CASE s.fw.sel \in 1 .. Len(s.fw.items)
  <2>1. PICK it : it = s.fw.items[s.fw.sel]
    OBVIOUS
  <2>2. PICK p : p = Append(s.fw.path, it.name)
    OBVIOUS
  <2>3. IsSeq(p)
    BY <2>2, AppendTo DEF Core, Fw
  <2>4. Do(s, "file_open") = IF it.dir THEN filewin_set_path(s, p)
                             ELSE IF Ext[it.name] = "TXT" THEN notepad_open(s, it.name) ELSE s
    BY <1>2, <2>1, <2>2 DEF Do
  <2>5. Quiet(s, filewin_set_path(s, p)) /\ Quiet(s, notepad_open(s, it.name)) /\ Quiet(s, s)
    BY <2>3, SetPath, OpenName, QuietRefl
  <2> QED
    BY <2>4, <2>5
<1> QED
  BY <1>1, <1>2

LEMMA DoDoes ==
  ASSUME NEW s, Core(s), Shown(s), NEW act \in Items, NEW t, t = Do(s, act)
  PROVE  /\ act # "np_save" => Still(s, t)
         /\ act = "np_save" => Saves(s, t, SaveTaken(s, s.np.name), SavedAt(s, s.np.name), SavedAs(s, s.np.name))
<1>1. CASE act = "np_save"
  <2>1. t = notepad_save_current(s, s.np.name)
    BY <1>1 DEF Do
  <2> QED
    BY <1>1, <2>1, SaveDoes
<1>2. CASE act = "refresh_desktop"
  <2>1. t = desktop_refresh_from_path(s)
    BY <1>2 DEF Do
  <2>2. Refreshed(s, t)
    BY <2>1, CoreParts, RefreshDoes
  <2> QED
    BY <1>2, <2>2, RefreshedStill
<1>3. CASE act \in Items \ {"np_save", "refresh_desktop"}
  <2>1. CASE act = "new_txt"
    BY <2>1, StartPrompt, QuietStill DEF Do
  <2>2. CASE act = "np_new"
    BY <2>2, NewDocument, QuietStill DEF Do
  <2>3. CASE act = "np_open"
    BY <2>3, PickerStart, QuietStill DEF Do
  <2>4. CASE act = "np_save_as"
    BY <2>4, StartPrompt, QuietStill DEF Do
  <2>5. CASE act = "np_close"
    BY <2>5, CloseEditor, QuietStill DEF Do
  <2>6. CASE act = "file_refresh"
    BY <2>6, RefreshQuiet, QuietStill DEF Do
  <2>7. CASE act = "file_up"
    BY <2>7, GoUp, QuietStill DEF Do
  <2>8. CASE act = "file_open"
    BY <2>8, FileOpenQuiet, QuietStill
  <2> QED
    BY <1>3, <2>1, <2>2, <2>3, <2>4, <2>5, <2>6, <2>7, <2>8 DEF Items
<1> QED
  BY <1>1, <1>2, <1>3

-----------------------------------------------------------------------------
(* The invariant.                                                           *)

\* There is an account to log in with.
Accounts(s) == s.on => IsSeq(s.users) /\ s.users # <<>> /\ s.lsel \in 1 .. Len(s.users)
\* At the login screen no window is open.
AtLogin(s) == s.login => s.started = FALSE /\ s.np.open = FALSE /\ s.fw.open = FALSE
Whole(s) == Core(s) /\ Shown(s) /\ Accounts(s) /\ AtLogin(s)

\* Delete may empty p.
Aimed(p) == p \in {ss.chosen, ss.fw.chosen} \/ (ss.fw.open /\ ss.front = "fw" /\ ss.fw.path # ss.fw.listed)

\* What a round may do to the files.
Files ==
  \/ SameFiles(ss.vol, ss'.vol) /\ saved' = saved
  \/ \E p, d : Wrote(ss.vol, ss'.vol, p, d) /\ Keeps(p, d) /\ (d = Zero => Aimed(p))

\* What a login leaves: the directories of the user who logged in, in the
\* icons and in the explorer, and a closed editor.
ShowsOwn(t, u) ==
  /\ t.ddir = Desk(u) /\ t.pdir = Prog(u)
  /\ t.fw.open /\ ~t.fw.min /\ t.fw.path = Desk(u) /\ ~t.np.open

\* A round: the state is whole again, and who logs in sees what is theirs.
Moved ==
  /\ Whole(ss') /\ ss'.lostusers = ss.lostusers /\ Files
  /\ ss.login /\ ~ss'.login => ShowsOwn(ss', Upper[ss.users[ss.lsel].name])

LEMMA CalmMoves ==
  ASSUME Whole(ss), NEW t, Calm(ss, t), ss' = t, Files,
         ss.login => t.np.open = ss.np.open /\ t.fw.open = ss.fw.open
  PROVE  Moved
<1>1. Core(t) /\ Shown(t) /\ SameLogin(ss, t)
  BY DEF Calm
<1>2. Accounts(t)
  BY <1>1 DEF Whole, Accounts, SameLogin
<1>3. AtLogin(t)
  BY <1>1 DEF Whole, AtLogin, SameLogin
<1>4. t.lostusers = ss.lostusers /\ t.login = ss.login
  BY <1>1 DEF SameLogin
<1> QED
  BY <1>1, <1>2, <1>3, <1>4 DEF Moved, Whole

LEMMA StillMoves ==
  ASSUME Whole(ss), NEW t, Still(ss, t), Step(t), ss.login => t.np.open = ss.np.open /\ t.fw.open = ss.fw.open
  PROVE  Moved
<1>1. ss' = t /\ saved' = saved /\ Calm(ss, t) /\ SameFiles(ss.vol, t.vol)
  BY DEF Step, Still
<1>2. Files
  BY <1>1 DEF Files
<1> QED
  BY <1>1, <1>2, CalmMoves

LEMMA QuietMoves ==
  ASSUME Whole(ss), ~ss.login, NEW t, Quiet(ss, t), Step(t) PROVE Moved
<1>1. Still(ss, t)
  BY QuietStill DEF Whole
<1> QED
  BY <1>1, StillMoves

LEMMA SavesMoves ==
  ASSUME Whole(ss), ~ss.login, NEW t, NEW c, NEW p, NEW d, Saves(ss, t, c, p, d), ss' = t,
         IF c THEN Keeps(p, d) ELSE saved' = saved, d # Zero
  PROVE  Moved
<1>1. Calm(ss, t)
  BY DEF Saves
<1>2. Files
  <2>1. CASE c
    <3>1. Wrote(ss.vol, ss'.vol, p, d) /\ Keeps(p, d)
      BY <2>1 DEF Saves
    <3> QED
      BY <3>1 DEF Files
  <2>2. CASE ~c
    BY <2>2 DEF Saves, Files
  <2> QED
    BY <2>1, <2>2
<1> QED
  BY <1>1, <1>2, CalmMoves

LEMMA DeleteMoves == ASSUME Whole(ss), KeyDelete PROVE Moved
<1>1. PICK inlist : inlist = (ss.fw.open /\ ss.front = "fw")
  OBVIOUS
<1>2. PICK it : it = IF inlist THEN ss.fw.items[ss.fw.sel] ELSE ss.icons[ss.isel]
  OBVIOUS
<1>3. PICK d : d = IF inlist THEN ss.fw.path ELSE ss.ddir
  OBVIOUS
<1>4. PICK p : p = Append(d, it.name)
  OBVIOUS
<1>5. PICK gone : gone = Write(ss, p, Zero)
  OBVIOUS
<1>6. PICK q : q = IF inlist THEN filewin_refresh_list(gone) ELSE gone
  OBVIOUS
<1>7. PICK t : t = desktop_refresh_from_path(q)
  OBVIOUS
<1>8. /\ ss.mounted /\ ss' = IF ~Writable(ss, p) THEN Spoil(ss, p) ELSE t
      /\ IF Changes(ss, p) THEN Keeps(p, Outcome(ss, p, Zero)) ELSE saved' = saved
      /\ IF inlist THEN ss.fw.sel \in 1 .. Len(ss.fw.items) ELSE ss.isel > 0
  BY <1>1, <1>2, <1>3, <1>4, <1>5, <1>6, <1>7 DEF KeyDelete
<1>9. Core(ss) /\ IsSeq(d)
  BY <1>3 DEF Whole, Core, Fw
<1>10. IsSeq(p) /\ Len(p) > 0
  <2>1. IsSeq(p) /\ Len(p) = Len(d) + 1 /\ Len(d) \in Nat
    BY <1>4, <1>9, AppendTo, LenOf
  <2> QED
    BY <2>1
<1>11. Zero \in DOMAIN Parse
  BY SessionAssumption
<1>12. Aimed(p)
  <2>1. CASE inlist
    <3>1. ss.fw.chosen = Append(ss.fw.listed, it.name)
      BY <1>2, <1>8, <1>9, <2>1 DEF Core, Fw
    <3> QED
      BY <1>1, <1>3, <1>4, <2>1, <3>1 DEF Aimed
  <2>2. CASE ~inlist
    <3>1. ss.chosen = Append(ss.ddir, it.name)
      BY <1>2, <1>8, <1>9, <2>2 DEF Core, Icons
    <3> QED
      BY <1>3, <1>4, <2>2, <3>1 DEF Aimed
  <2> QED
    BY <2>1, <2>2
<1>13. CASE ~Writable(ss, p)
  <2>1. PICK x : x = Spoil(ss, p)
    OBVIOUS
  <2>2. Shown(ss)
    BY DEF Whole
  <2>3. /\ Core(x) /\ Shown(x) /\ Touch(ss, x, {"vol", "late"})
        /\ Spoils(ss, p) => Wrote(ss.vol, x.vol, p, Torn)
        /\ ~Spoils(ss, p) => SameFiles(ss.vol, x.vol)
    BY <1>9, <1>10, <2>1, <2>2, SpoilDoes
  <2>4. SameLogin(ss, x) /\ x.np = ss.np /\ x.fw = ss.fw
    BY <2>3 DEF Touch, Fields, SameLogin
  <2>5. Calm(ss, x) /\ ss' = x
    BY <1>8, <1>13, <2>1, <2>3, <2>4 DEF Calm
  <2>6. (Changes(ss, p) <=> Spoils(ss, p)) /\ Outcome(ss, p, Zero) = Torn /\ Torn # Zero
    BY <1>13 DEF Changes, Outcome, Torn, Zero
  <2>7. Files
    <3>1. CASE Spoils(ss, p)
      <4>1. Wrote(ss.vol, ss'.vol, p, Torn) /\ Keeps(p, Torn)
        BY <1>8, <2>3, <2>5, <2>6, <3>1
      <4> QED
        BY <2>6, <4>1 DEF Files
    <3>2. CASE ~Spoils(ss, p)
      BY <1>8, <2>3, <2>5, <2>6, <3>2 DEF Files
    <3> QED
      BY <3>1, <3>2
  <2> QED
    BY <2>4, <2>5, <2>7, CalmMoves
<1>14. CASE Writable(ss, p)
  <2>1. /\ Frame(gone) /\ gone.mounted = ss.mounted /\ Wrote(ss.vol, gone.vol, p, Zero) /\ SameLogin(ss, gone)
         /\ DOMAIN gone = Fields
    BY <1>5, <1>8, <1>14, <1>9, <1>10, <1>11, WriteRefreshed
  <2>2. Touch(ss, gone, {"vol"})
    BY <1>5, <1>8, <1>14, <1>9, <1>10, <1>11, WriteDoes DEF Core
  <2>3. Touch(gone, q, {"fw"}) /\ Fw(q) /\ SameWindow(gone, q)
    <3>1. PICK r : r = filewin_refresh_list(gone)
      OBVIOUS
    <3>2. Touch(gone, r, {"fw"}) /\ Fw(r) /\ SameWindow(gone, r)
      BY <2>1, <3>1, RefreshList DEF Frame
    <3>3. Touch(gone, gone, {"fw"}) /\ Fw(gone) /\ SameWindow(gone, gone)
      BY <2>1 DEF Touch, SameWindow, Frame
    <3> QED
      BY <1>6, <3>1, <3>2, <3>3
  <2>4. /\ DOMAIN q = Fields /\ q.vol = gone.vol /\ q.mounted = gone.mounted /\ SameLogin(gone, q) /\ q.ddir = gone.ddir
         /\ q.np = gone.np /\ q.prompt = gone.prompt /\ q.picker = gone.picker /\ q.ctx = gone.ctx
    BY <2>3 DEF Touch, Fields, SameLogin
  <2>5. Frame(q)
    BY <2>1, <2>3, <2>4 DEF Frame, Np, Rest
  <2>6. Refreshed(q, t)
    BY <1>7, <1>8, <1>14, <2>1, <2>4, <2>5, RefreshDoes
  <2>7. Still(q, t)
    BY <2>6, RefreshedStill
  <2>8. Calm(ss, t)
    BY <2>1, <2>4, <2>7 DEF Still, Calm, SameLogin
  <2>9. Wrote(ss.vol, t.vol, p, Zero)
    <3>1. SameFiles(ss.vol, ss.vol) /\ SameFiles(gone.vol, t.vol) /\ Volume(t.vol)
      BY <2>4, <2>7, SameRefl DEF Still, Calm, Core
    <3> QED
      BY <2>1, <3>1, WroteTrans
  <2>10. t.np.open = ss.np.open /\ t.fw.open = ss.fw.open
    <3>1. t.np = q.np /\ t.fw = q.fw
      BY <2>6 DEF Refreshed, Touch, Fields, OnDesk
    <3>2. gone.np = ss.np /\ gone.fw = ss.fw
      BY <2>2 DEF Touch, Fields
    <3> QED
      BY <2>3, <2>4, <3>1, <3>2 DEF SameWindow
  <2>11. Files
    <3>1. Wrote(ss.vol, ss'.vol, p, Zero) /\ Keeps(p, Zero)
      BY <1>8, <1>14, <2>9 DEF Changes, Outcome
    <3> QED
      BY <1>12, <3>1 DEF Files
  <2> QED
    BY <1>8, <1>14, <2>8, <2>10, <2>11, CalmMoves
<1> QED
  BY <1>13, <1>14

\* Fields that the file system and the windows do not look at.
Outside == {"on", "users", "user", "login", "lsel", "pw", "focus", "started", "pdir", "launch", "lostusers"}

LEMMA OutsideKeeps ==
  ASSUME NEW s, Core(s), NEW t, Touch(s, t, Outside)
  PROVE  Core(t) /\ (Shown(s) => Shown(t)) /\ t.vol = s.vol /\ t.np = s.np /\ t.fw = s.fw
<1>1. /\ DOMAIN t = Fields /\ t.vol = s.vol /\ t.np = s.np /\ t.fw = s.fw /\ t.ddir = s.ddir /\ t.icons = s.icons
      /\ t.isel = s.isel /\ t.chosen = s.chosen /\ t.mounted = s.mounted /\ t.prompt = s.prompt /\ t.picker = s.picker
      /\ t.ctx = s.ctx /\ t.seen = s.seen /\ t.late = s.late
  BY DEF Touch, Fields, Outside
<1>2. Core(t)
  BY <1>1 DEF Core, Np, Fw, Icons, Rest
<1>3. Shown(s) => Shown(t)
  BY <1>1 DEF Shown
<1> QED
  BY <1>1, <1>2, <1>3

LEMMA ArrowMoves == ASSUME Whole(ss), NEW d \in {-1, 1}, KeyArrow(d) PROVE Moved
<1>1. Core(ss) /\ Shown(ss) /\ AtLogin(ss) /\ d \in Int
  BY DEF Whole
<1>2. CASE ss.front = "fw" /\ ss.fw.open /\ ~ss.fw.min
  <2>1. PICK t : t = filewin_move_selection(ss, d)
    OBVIOUS
  <2>2. Step(t)
    BY <1>2, <2>1 DEF KeyArrow
  <2>3. Quiet(ss, t)
    BY <1>1, <2>1, MoveInList
  <2>4. ~ss.login
    BY <1>1, <1>2 DEF AtLogin
  <2> QED
    BY <2>2, <2>3, <2>4, QuietMoves
<1>3. CASE ~(ss.front = "fw" /\ ss.fw.open /\ ~ss.fw.min)
  <2>1. PICK t : t = desktop_move_selection(ss, d)
    OBVIOUS
  <2>2. Step(t)
    BY <1>3, <2>1 DEF KeyArrow
  <2>3. Core(t) /\ Shown(t) /\ Touch(ss, t, {"isel", "chosen"})
    BY <1>1, <2>1, MoveIcon
  <2>4. SameLogin(ss, t) /\ t.vol = ss.vol /\ t.np = ss.np /\ t.fw = ss.fw
    BY <2>3 DEF Touch, Fields, SameLogin
  <2>5. Still(ss, t)
    BY <2>3, <2>4, SameRefl DEF Still, Calm
  <2> QED
    BY <2>2, <2>4, <2>5, StillMoves
<1> QED
  BY <1>2, <1>3

LEMMA WindowsKeyMoves == ASSUME Whole(ss), KeyWindows PROVE Moved
<1>1. PICK t : t = launch_toggle(ss)
  OBVIOUS
<1>2. Core(ss) /\ Shown(ss) /\ Step(t)
  BY <1>1 DEF Whole, KeyWindows
<1>3. Quiet(ss, t) /\ t.np = ss.np /\ t.fw = ss.fw
  BY <1>1, <1>2, ToggleLaunch
<1>4. Still(ss, t)
  BY <1>2, <1>3, QuietStill
<1> QED
  BY <1>2, <1>3, <1>4, StillMoves

LEMMA AltTabMoves == ASSUME Whole(ss), AltTab PROVE Moved
<1>1. PICK f : Step([ss EXCEPT !.front = f])
  BY DEF AltTab
<1>2. PICK t : t = [ss EXCEPT !.front = f]
  OBVIOUS
<1>3. Core(ss) /\ Shown(ss)
  BY DEF Whole
<1>4. Quiet(ss, t)
  BY <1>2, <1>3, SetField
<1>5. t.np = ss.np /\ t.fw = ss.fw
  BY <1>2, <1>3, Domains DEF Fields
<1>6. Still(ss, t)
  BY <1>3, <1>4, QuietStill
<1> QED
  BY <1>1, <1>2, <1>5, <1>6, StillMoves

\* At the login screen: a password typed or refused, a card chosen.
LEMMA FormMoves ==
  ASSUME Whole(ss), ss.on, NEW t, Touch(ss, t, {"pw", "focus", "lsel"}), t.lsel \in 1 .. Len(ss.users), Step(t)
  PROVE  Moved
<1>1. Core(ss) /\ Shown(ss) /\ Accounts(ss) /\ AtLogin(ss)
  BY DEF Whole
<1>2. Touch(ss, t, Outside)
  BY DEF Touch, Outside
<1>3. Core(t) /\ Shown(t) /\ t.vol = ss.vol /\ t.np = ss.np /\ t.fw = ss.fw
  BY <1>1, <1>2, OutsideKeeps
<1>4. t.on = ss.on /\ t.users = ss.users /\ t.login = ss.login /\ t.started = ss.started /\ t.lostusers = ss.lostusers
  BY DEF Touch, Fields
<1>5. Accounts(t)
  BY <1>1, <1>4 DEF Accounts
<1>6. AtLogin(t)
  BY <1>1, <1>3, <1>4 DEF AtLogin
<1>7. Files
  BY <1>3, SameRefl DEF Files, Step
<1> QED
  BY <1>3, <1>4, <1>5, <1>6, <1>7 DEF Moved, Whole, Step

LEMMA LoginTypeMoves == ASSUME Whole(ss), ss.on, LoginType PROVE Moved
<1>1. PICK p : Step([ss EXCEPT !.pw = p])
  BY DEF LoginType
<1>2. PICK t : t = [ss EXCEPT !.pw = p]
  OBVIOUS
<1>3. Touch(ss, t, {"pw", "focus", "lsel"}) /\ t.lsel = ss.lsel
  BY <1>2, Domains DEF Whole, Touch, Fields
<1>4. ss.lsel \in 1 .. Len(ss.users)
  BY DEF Whole, Accounts
<1> QED
  BY <1>1, <1>2, <1>3, <1>4, FormMoves

LEMMA LoginClickMoves == ASSUME Whole(ss), ss.on, LoginClick PROVE Moved
<1>1. DOMAIN ss = Fields /\ ss.lsel \in 1 .. Len(ss.users)
  BY Domains DEF Whole, Accounts
<1>2. ASSUME NEW i \in 1 .. Len(ss.users), Step([ss EXCEPT !.lsel = i, !.focus = FALSE]) PROVE Moved
  <2>1. PICK t : t = [ss EXCEPT !.lsel = i, !.focus = FALSE]
    OBVIOUS
  <2>2. Touch(ss, t, {"pw", "focus", "lsel"}) /\ t.lsel = i
    BY <1>1, <2>1 DEF Touch, Fields
  <2> QED
    BY <1>2, <2>1, <2>2, FormMoves
<1>3. ASSUME NEW b, Step([ss EXCEPT !.focus = b]) PROVE Moved
  <2>1. PICK t : t = [ss EXCEPT !.focus = b]
    OBVIOUS
  <2>2. Touch(ss, t, {"pw", "focus", "lsel"}) /\ t.lsel = ss.lsel
    BY <1>1, <2>1 DEF Touch, Fields
  <2> QED
    BY <1>1, <1>3, <2>1, <2>2, FormMoves
<1> QED
  BY <1>2, <1>3 DEF LoginClick

ByLogin == {"user", "vol", "icons", "isel", "chosen", "mounted", "seen", "late", "ddir", "pdir", "login", "started", "fw", "front"}

LEMMA LoginDoes ==
  ASSUME NEW s, Core(s), AtLogin(s), s.login, NEW t, t = LoginOk(s)
  PROVE  /\ Core(t) /\ Shown(t) /\ Touch(s, t, ByLogin) /\ t.login = FALSE /\ SameFiles(s.vol, t.vol)
         /\ ShowsOwn(t, Upper[s.users[s.lsel].name])
<1>1. PICK u : u = Upper[s.users[s.lsel].name]
  OBVIOUS
<1>2. PICK a : a = [s EXCEPT !.user = u]
  OBVIOUS
<1>3. Touch(s, a, {"user"})
  BY <1>2, Domains DEF Touch, Fields
<1>4. Touch(s, a, Outside)
  BY <1>3 DEF Touch, Outside
<1>5. Core(a) /\ a.vol = s.vol /\ a.np = s.np /\ a.fw = s.fw
  BY <1>4, OutsideKeeps
<1>6. PICK b : b = ensure_user_dirs_on_disk(a, u)
  OBVIOUS
<1>7. Ensured(a, b)
  BY <1>5, <1>6, EnsureUser DEF Core
<1>8. Frame(b) /\ Icons(b) /\ b.mounted = a.mounted /\ SameFiles(a.vol, b.vol) /\ Touch(a, b, OnDesk)
  BY <1>5, <1>7, CoreParts, EnsuredFrame
<1>9. PICK c : c = [b EXCEPT !.ddir = Desk(u), !.pdir = Prog(u)]
  OBVIOUS
<1>10. /\ Touch(b, c, {"ddir", "pdir"}) /\ c.ddir = Desk(u) /\ c.pdir = Prog(u)
  BY <1>8, <1>9 DEF Frame, Touch, Fields
<1>11. /\ DOMAIN c = Fields /\ c.vol = b.vol /\ c.np = b.np /\ c.fw = b.fw /\ c.prompt = b.prompt /\ c.picker = b.picker
       /\ c.ctx = b.ctx /\ c.icons = b.icons /\ c.isel = b.isel /\ c.mounted = b.mounted
  BY <1>10 DEF Touch, Fields
<1>12. Frame(c)
  <2>1. IsSeq(c.ddir)
    BY <1>10, Paths DEF Path
  <2> QED
    BY <1>8, <1>11, <2>1 DEF Frame, Np, Fw, Rest
<1>13. ~c.mounted => Icons(c)
  <2> SUFFICES ASSUME ~c.mounted PROVE Icons(c)
    OBVIOUS
  <2>1. c.icons = <<>> /\ Len(c.icons) = 0 /\ c.isel \in 0 .. Len(c.icons)
    BY <1>8, <1>11, EmptyIsSeq DEF Icons
  <2> QED
    BY <2>1, EmptyIsSeq DEF Icons
<1>14. PICK e : e = desktop_refresh_from_path(c)
  OBVIOUS
<1>15. Refreshed(c, e)
  BY <1>12, <1>13, <1>14, RefreshDoes
<1>16. Core(e) /\ Shown(e) /\ Touch(c, e, OnDesk) /\ SameFiles(c.vol, e.vol)
  BY <1>15 DEF Refreshed
<1>17. PICK f : f = [e EXCEPT !.login = FALSE]
  OBVIOUS
<1>18. Touch(e, f, {"login"}) /\ f.login = FALSE
  BY <1>16, <1>17, Domains DEF Touch, Fields
<1>19. f.started = FALSE
  <2>1. f.started = e.started /\ e.started = c.started /\ c.started = b.started /\ b.started = a.started /\ a.started = s.started
    BY <1>3, <1>8, <1>10, <1>16, <1>18 DEF Touch, Fields, OnDesk
  <2> QED
    BY <2>1 DEF AtLogin
<1>20. PICK g : g = [f EXCEPT !.started = TRUE]
  OBVIOUS
<1>21. Touch(f, g, {"started"})
  BY <1>18, <1>20 DEF Touch, Fields
<1>22. Touch(e, g, Outside)
  BY <1>18, <1>21 DEF Touch, Outside
<1>23. Core(g) /\ Shown(g) /\ g.vol = e.vol /\ g.np = e.np /\ g.fw = e.fw
  BY <1>16, <1>22, OutsideKeeps
<1>24. t = filewin_open(g)
  BY <1>1, <1>2, <1>6, <1>9, <1>14, <1>17, <1>19, <1>20 DEF LoginOk
<1>25. g.fw = s.fw /\ g.np = s.np
  BY <1>5, <1>8, <1>11, <1>16, <1>23 DEF Touch, Fields, OnDesk
<1>26. g.fw.open = FALSE /\ g.np.open = FALSE
  BY <1>25 DEF AtLogin
<1>27. /\ Quiet(g, t) /\ Touch(g, t, {"fw", "front"}) /\ t.fw.open = TRUE /\ t.fw.min = FALSE /\ t.fw.path = g.ddir
  BY <1>23, <1>24, <1>26, OpenExplorer
<1>28. Core(t) /\ Shown(t) /\ t.vol = g.vol
  BY <1>23, <1>27, QuietCore
<1>29. g.ddir = Desk(u) /\ g.pdir = Prog(u)
  BY <1>10, <1>16, <1>18, <1>21 DEF Touch, Fields, OnDesk
<1>30. t.ddir = g.ddir /\ t.pdir = g.pdir /\ t.np = g.np /\ t.login = FALSE
  BY <1>18, <1>21, <1>27 DEF Touch, Fields
<1>31. ShowsOwn(t, u)
  BY <1>26, <1>27, <1>29, <1>30 DEF ShowsOwn
<1>32. SameFiles(s.vol, t.vol)
  BY <1>5, <1>8, <1>11, <1>16, <1>23, <1>28, SameTrans
<1>33. Touch(s, t, ByLogin)
  BY <1>3, <1>8, <1>10, <1>16, <1>18, <1>21, <1>27 DEF Touch, OnDesk, ByLogin
<1> QED
  BY <1>1, <1>28, <1>30, <1>31, <1>32, <1>33

LEMMA LoginMoves == ASSUME Whole(ss), ss.on, LoginAttempt PROVE Moved
<1>1. Core(ss) /\ Accounts(ss) /\ AtLogin(ss) /\ ss.login
  BY DEF Whole, LoginAttempt
<1>2. CASE Step([ss EXCEPT !.pw = ""])
  <2>1. PICK t : t = [ss EXCEPT !.pw = ""]
    OBVIOUS
  <2>2. Touch(ss, t, {"pw", "focus", "lsel"}) /\ t.lsel = ss.lsel /\ t.login = ss.login
    BY <1>1, <2>1, Domains DEF Touch, Fields
  <2>3. ss.lsel \in 1 .. Len(ss.users) /\ ss' = t
    BY <1>1, <1>2, <2>1 DEF Accounts, Step
  <2> QED
    BY <1>1, <1>2, <2>1, <2>2, <2>3, FormMoves
<1>3. ASSUME NEW f, Step([LoginOk(ss) EXCEPT !.front = f]) PROVE Moved
  <2>1. PICK u : u = Upper[ss.users[ss.lsel].name]
    OBVIOUS
  <2>2. PICK a : a = LoginOk(ss)
    OBVIOUS
  <2>3. /\ Core(a) /\ Shown(a) /\ Touch(ss, a, ByLogin) /\ a.login = FALSE /\ SameFiles(ss.vol, a.vol) /\ ShowsOwn(a, u)
    BY <1>1, <2>1, <2>2, LoginDoes
  <2>4. PICK t : t = [a EXCEPT !.front = f]
    OBVIOUS
  <2>5. Touch(a, t, {"front"})
    BY <2>3, <2>4, Domains DEF Touch, Fields
  <2>6. Quiet(a, t)
    BY <2>3, <2>4, SetField
  <2>7. Core(t) /\ Shown(t) /\ t.vol = a.vol
    BY <2>3, <2>6, QuietCore
  <2>8. t.login = FALSE /\ t.ddir = a.ddir /\ t.pdir = a.pdir /\ t.fw = a.fw /\ t.np = a.np
    BY <2>3, <2>5 DEF Touch, Fields
  <2>9. t.on = ss.on /\ t.users = ss.users /\ t.lsel = ss.lsel /\ t.lostusers = ss.lostusers
    BY <2>3, <2>5 DEF Touch, Fields, ByLogin
  <2>10. ss' = t /\ saved' = saved
    BY <1>3, <2>2, <2>4 DEF Step
  <2>11. Accounts(t) /\ AtLogin(t)
    BY <1>1, <2>8, <2>9 DEF Accounts, AtLogin
  <2>12. Files
    BY <2>3, <2>7, <2>10 DEF Files
  <2>13. ShowsOwn(t, u)
    BY <2>3, <2>8 DEF ShowsOwn
  <2> QED
    BY <2>1, <2>7, <2>9, <2>10, <2>11, <2>12, <2>13 DEF Moved, Whole
<1> QED
  BY <1>2, <1>3 DEF LoginAttempt

-----------------------------------------------------------------------------
(* Keys and clicks of a session.                                            *)

LEMMA StillQuiet ==
  ASSUME NEW s, NEW t, Still(s, t), NEW u, Quiet(t, u) PROVE Still(s, u)
<1>1. Core(t) /\ Shown(t)
  BY DEF Still, Calm
<1> QED
  BY <1>1, QuietStill, StillTrans

LEMMA PromptTyped == ASSUME Whole(ss), ~ss.login, PromptType \/ PromptEsc PROVE Moved
<1>1. Core(ss) /\ ss.ctx \in Targets
  BY DEF Whole, Core, Rest
<1>2. ASSUME NEW x, Step([ss EXCEPT !.prompt.buf = x]) PROVE Moved
  <2>1. PICK t : t = [ss EXCEPT !.prompt.buf = x]
    OBVIOUS
  <2>2. Touch(ss, t, {"prompt", "ctx", "right"}) /\ DOMAIN t.prompt = DOMAIN ss.prompt /\ t.ctx = ss.ctx
    BY <1>1, <2>1, Domains DEF Touch, Fields
  <2>3. Quiet(ss, t)
    BY <1>1, <2>2, PromptQuiet
  <2> QED
    BY <1>2, <2>1, <2>3, QuietMoves
<1>3. ASSUME Step([ss EXCEPT !.prompt.active = FALSE]) PROVE Moved
  <2>1. PICK t : t = [ss EXCEPT !.prompt.active = FALSE]
    OBVIOUS
  <2>2. Touch(ss, t, {"prompt", "ctx", "right"}) /\ DOMAIN t.prompt = DOMAIN ss.prompt /\ t.ctx = ss.ctx
    BY <1>1, <2>1, Domains DEF Touch, Fields
  <2>3. Quiet(ss, t)
    BY <1>1, <2>2, PromptQuiet
  <2> QED
    BY <1>3, <2>1, <2>3, QuietMoves
<1> QED
  BY <1>2, <1>3 DEF PromptType, PromptEsc

LEMMA CreateMoves ==
  ASSUME Whole(ss), ~ss.login, NEW t, Saves(ss, t, CreateTaken(ss), CreatedAt(ss), CreatedAs(ss)), ss' = t, CreateKeeps(ss)
  PROVE  Moved
<1>1. PICK c : c = CreateTaken(ss)
  OBVIOUS
<1>2. PICK p : p = CreatedAt(ss)
  OBVIOUS
<1>0. PICK d : d = CreatedAs(ss)
  OBVIOUS
<1>3. IF c THEN Keeps(p, d) ELSE saved' = saved
  BY <1>0, <1>1, <1>2 DEF CreateKeeps, CreateTaken, CreatedAt, CreatedAs
<1>4. d # Zero
  BY <1>0 DEF CreatedAs, Outcome, NL, Zero, Torn
<1>5. Saves(ss, t, c, p, d)
  BY <1>0, <1>1, <1>2
<1> QED
  BY <1>3, <1>4, <1>5, SavesMoves

LEMMA SavingMoves ==
  ASSUME Whole(ss), ~ss.login, NEW s, Still(ss, s), NEW n, NEW t,
         Saves(s, t, SaveTaken(s, n), SavedAt(s, n), SavedAs(s, n)), ss' = t, SaveKeeps(s, n)
  PROVE  Moved
<1>1. PICK c : c = SaveTaken(s, n)
  OBVIOUS
<1>2. PICK p : p = SavedAt(s, n)
  OBVIOUS
<1>3. PICK d : d = SavedAs(s, n)
  OBVIOUS
<1>4. IF c THEN Keeps(p, d) ELSE saved' = saved
  BY <1>1, <1>2, <1>3 DEF SaveKeeps, SaveTaken, SavedAt, SavedAs
<1>5. d # Zero
  <2>1. SaveData(s) # Zero /\ Torn # Zero
    BY SaveDataIs DEF Still, Calm, Core, Torn, Zero
  <2> QED
    BY <1>3, <2>1 DEF SavedAs, Outcome
<1>6. Saves(ss, t, c, p, d)
  BY <1>1, <1>2, <1>3, StillSaves
<1> QED
  BY <1>4, <1>5, <1>6, SavesMoves

LEMMA PromptEntered == ASSUME Whole(ss), ~ss.login, PromptEnter PROVE Moved
<1>1. PICK t : t = create_txt_file_from_prompt(ss)
  OBVIOUS
<1>2. ss' = t /\ CreateKeeps(ss)
  BY <1>1 DEF PromptEnter
<1>3. Saves(ss, t, CreateTaken(ss), CreatedAt(ss), CreatedAs(ss))
  BY <1>1, CreateDoes DEF Whole
<1> QED
  BY <1>2, <1>3, CreateMoves

LEMMA BarTyped == ASSUME Whole(ss), ~ss.login, BarType \/ BarEsc \/ BarEnter PROVE Moved
<1>1. Core(ss) /\ Fw(ss) /\ IsSeq(ss.fw.path)
  BY DEF Whole, Core, Fw
<1>2. ASSUME NEW p \in Bars, Step([ss EXCEPT !.fw.path = p]) PROVE Moved
  <2>1. PICK t : t = [ss EXCEPT !.fw.path = p]
    OBVIOUS
  <2>2. IsSeq(p)
    BY SessionAssumption DEF IsSeq
  <2>3. /\ Touch(ss, t, {"fw", "front", "launch"}) /\ DOMAIN t.fw = DOMAIN ss.fw /\ t.fw.path = p
        /\ \A f \in DOMAIN ss.fw \ {"path"} : t.fw[f] = ss.fw[f]
    BY <1>1, <2>1, Domains DEF Touch, Fields
  <2>4. Fw(t)
    BY <1>1, <2>2, <2>3 DEF Fw
  <2>5. Quiet(ss, t)
    BY <1>1, <2>3, <2>4, ExplorerQuiet
  <2> QED
    BY <1>2, <2>1, <2>5, QuietMoves
<1>3. ASSUME Step([ss EXCEPT !.fw.focus = FALSE]) PROVE Moved
  <2>1. PICK t : t = [ss EXCEPT !.fw.focus = FALSE]
    OBVIOUS
  <2>2. Touch(ss, t, {"fw", "front", "launch"}) /\ SameList(ss, t)
    BY <1>1, <2>1, Domains DEF Touch, Fields, SameList
  <2>3. Quiet(ss, t)
    BY <1>1, <2>2, FlagsQuiet
  <2> QED
    BY <1>3, <2>1, <2>3, QuietMoves
<1>4. ASSUME Step(filewin_set_path(ss, ss.fw.path)) PROVE Moved
  <2>1. PICK t : t = filewin_set_path(ss, ss.fw.path)
    OBVIOUS
  <2>2. Quiet(ss, t)
    BY <1>1, <2>1, SetPath
  <2> QED
    BY <1>4, <2>1, <2>2, QuietMoves
<1> QED
  BY <1>2, <1>3, <1>4 DEF BarType, BarEsc, BarEnter

LEMMA EditorTyped == ASSUME Whole(ss), ~ss.login, EditorType \/ EditorEsc PROVE Moved
<1>1. Core(ss) /\ Np(ss)
  BY DEF Whole, Core
<1>2. ASSUME NEW x \in Docs, Step([ss EXCEPT !.np.text = x]) PROVE Moved
  <2>1. PICK t : t = [ss EXCEPT !.np.text = x]
    OBVIOUS
  <2>2. /\ Touch(ss, t, {"np", "front", "launch"}) /\ DOMAIN t.np = DOMAIN ss.np /\ t.np.text = x
        /\ t.np.path = ss.np.path
    BY <1>1, <2>1, Domains DEF Touch, Fields
  <2>3. Np(t)
    BY <1>1, <2>2, SessionAssumption DEF Np
  <2>4. Quiet(ss, t)
    BY <1>1, <2>2, <2>3, EditorQuiet
  <2> QED
    BY <1>2, <2>1, <2>4, QuietMoves
<1>3. ASSUME Step(notepad_close(ss)) PROVE Moved
  <2>1. Quiet(ss, notepad_close(ss))
    BY <1>1, CloseEditor
  <2> QED
    BY <1>3, <2>1, QuietMoves
<1> QED
  BY <1>2, <1>3 DEF EditorType, EditorEsc

LEMMA ItemsAre == \A x \in Targets \ {"none"} : ItemsOf(x) \subseteq Items
BY DEF Targets, ItemsOf, Items

LEMMA CtxMoves == ASSUME Whole(ss), ~ss.login, ClickCtx PROVE Moved
<1>1. Core(ss) /\ Shown(ss) /\ ss.ctx \in Targets \ {"none"}
  BY DEF Whole, Core, Rest, ClickCtx
<1>2. ASSUME NEW a \in ItemsOf(ss.ctx), ss' = [Do(ss, a) EXCEPT !.ctx = "none"],
             IF a = "np_save" THEN SaveKeeps(ss, ss.np.name) ELSE UNCHANGED saved
      PROVE  Moved
  <2>1. a \in Items
    BY <1>1, ItemsAre
  <2>2. PICK b : b = Do(ss, a)
    OBVIOUS
  <2>3. PICK n : n = ss.np.name
    OBVIOUS
  <2>4. /\ a # "np_save" => Still(ss, b)
        /\ a = "np_save" => Saves(ss, b, SaveTaken(ss, n), SavedAt(ss, n), SavedAs(ss, n))
    BY <1>1, <2>1, <2>2, <2>3, DoDoes
  <2>5. PICK t : t = [b EXCEPT !.ctx = "none"]
    OBVIOUS
  <2>6. Core(b)
    BY <2>4 DEF Still, Saves, Calm
  <2>7. Quiet(b, t)
    BY <2>5, <2>6, SetField DEF Targets
  <2>8. CASE a # "np_save"
    <3>1. Still(ss, t) /\ Step(t)
      BY <1>2, <2>2, <2>4, <2>5, <2>7, <2>8, StillQuiet DEF Step
    <3> QED
      BY <3>1, StillMoves
  <2>9. CASE a = "np_save"
    <3>1. Saves(ss, t, SaveTaken(ss, n), SavedAt(ss, n), SavedAs(ss, n))
      BY <2>4, <2>7, <2>9, SavesQuiet
    <3>2. ss' = t /\ SaveKeeps(ss, n)
      BY <1>2, <2>2, <2>3, <2>5, <2>9
    <3>3. Still(ss, ss)
      BY <1>1, QuietRefl, QuietStill
    <3> QED
      BY <3>1, <3>2, <3>3, SavingMoves
  <2> QED
    BY <2>8, <2>9
<1>3. ASSUME Step([ss EXCEPT !.ctx = "none"]) PROVE Moved
  <2>1. PICK t : t = [ss EXCEPT !.ctx = "none"]
    OBVIOUS
  <2>2. Quiet(ss, t)
    BY <1>1, <2>1, SetField DEF Targets
  <2> QED
    BY <1>3, <2>1, <2>2, QuietMoves
<1> QED
  BY <1>2, <1>3 DEF ClickCtx

LEMMA PromptClicked == ASSUME Whole(ss), ~ss.login, ClickPrompt PROVE Moved
<1>1. Core(ss) /\ Shown(ss)
  BY DEF Whole
<1>2. PICK n : n = sanitize_txt_name[ss.prompt.buf]
  OBVIOUS
<1>3. PICK t : t = name_prompt_commit(ss)
  OBVIOUS
<1>4. /\ ss.prompt.mode = "create" => Saves(ss, t, CreateTaken(ss), CreatedAt(ss), CreatedAs(ss))
      /\ ss.prompt.mode # "create" => Saves(ss, t, SaveTaken(ss, n), SavedAt(ss, n), SavedAs(ss, n))
  BY <1>1, <1>2, <1>3, CommitDoes
<1>5. ss' = t /\ IF ss.prompt.mode = "create" THEN CreateKeeps(ss) ELSE SaveKeeps(ss, n)
  BY <1>2, <1>3 DEF ClickPrompt
<1>6. Still(ss, ss)
  BY <1>1, QuietRefl, QuietStill
<1>7. CASE ss.prompt.mode = "create"
  BY <1>4, <1>5, <1>7, CreateMoves
<1>8. CASE ss.prompt.mode # "create"
  BY <1>4, <1>5, <1>6, <1>8, SavingMoves
<1> QED
  BY <1>7, <1>8

LEMMA TaskbarMoves == ASSUME Whole(ss), ~ss.login, ClickTaskbar PROVE Moved
<1>1. Core(ss)
  BY DEF Whole
<1>2. ASSUME Step(launch_toggle(ss)) PROVE Moved
  <2>1. PICK t : t = launch_toggle(ss)
    OBVIOUS
  <2>2. Quiet(ss, t)
    BY <1>1, <2>1, ToggleLaunch
  <2> QED
    BY <1>2, <2>1, <2>2, QuietMoves
<1>3. ASSUME Step([filewin_open(ss) EXCEPT !.front = "fw", !.launch = FALSE]) PROVE Moved
  <2>1. PICK a : a = filewin_open(ss)
    OBVIOUS
  <2>2. Quiet(ss, a)
    BY <1>1, <2>1, OpenExplorer
  <2>3. Core(a)
    BY <1>1, <2>2, QuietCore
  <2>4. PICK t : t = [a EXCEPT !.front = "fw", !.launch = FALSE]
    OBVIOUS
  <2>5. Touch(a, t, {"fw", "front", "launch"}) /\ SameList(a, t)
    BY <2>3, <2>4, Domains DEF Touch, Fields, SameList
  <2>6. Quiet(ss, t)
    BY <2>2, <2>3, <2>5, FlagsQuiet, QuietTrans
  <2> QED
    BY <1>3, <2>1, <2>4, <2>6, QuietMoves
<1>4. ASSUME Step([ss EXCEPT !.front = "other", !.launch = FALSE]) PROVE Moved
  <2>1. PICK t : t = [ss EXCEPT !.front = "other", !.launch = FALSE]
    OBVIOUS
  <2>2. Touch(ss, t, {"fw", "front", "launch"}) /\ SameList(ss, t)
    BY <1>1, <2>1, Domains DEF Touch, Fields, SameList
  <2> QED
    BY <1>1, <1>4, <2>1, <2>2, FlagsQuiet, QuietMoves
<1>5. ASSUME Step([ss EXCEPT !.fw.min = ~@, !.front = "fw", !.launch = FALSE]) PROVE Moved
  <2>1. PICK t : t = [ss EXCEPT !.fw.min = ~@, !.front = "fw", !.launch = FALSE]
    OBVIOUS
  <2>2. Touch(ss, t, {"fw", "front", "launch"}) /\ SameList(ss, t)
    BY <1>1, <2>1, Domains DEF Touch, Fields, SameList
  <2> QED
    BY <1>1, <1>5, <2>1, <2>2, FlagsQuiet, QuietMoves
<1>6. ASSUME Step([ss EXCEPT !.np.min = ~@, !.front = "np", !.launch = FALSE]) PROVE Moved
  <2>1. PICK t : t = [ss EXCEPT !.np.min = ~@, !.front = "np", !.launch = FALSE]
    OBVIOUS
  <2>2. Touch(ss, t, {"np", "front", "launch"}) /\ SameText(ss, t)
    BY <1>1, <2>1, Domains DEF Touch, Fields, SameText
  <2> QED
    BY <1>1, <1>6, <2>1, <2>2, TextQuiet, QuietMoves
<1> QED
  BY <1>2, <1>3, <1>4, <1>5, <1>6 DEF ClickTaskbar

\* The machine goes off, by the menu or without.
LEMMA OffMoves == ASSUME Whole(ss), Step([ss EXCEPT !.on = FALSE]) PROVE Moved
<1>1. PICK t : t = [ss EXCEPT !.on = FALSE]
  OBVIOUS
<1>2. Core(ss) /\ Shown(ss) /\ AtLogin(ss)
  BY DEF Whole
<1>3. Touch(ss, t, {"on"}) /\ t.on = FALSE
  BY <1>1, <1>2, Domains DEF Touch, Fields
<1>4. Touch(ss, t, Outside)
  BY <1>3 DEF Touch, Outside
<1>5. Core(t) /\ Shown(t) /\ t.vol = ss.vol /\ t.np = ss.np /\ t.fw = ss.fw
  BY <1>2, <1>4, OutsideKeeps
<1>6. t.login = ss.login /\ t.started = ss.started /\ t.lostusers = ss.lostusers
  BY <1>3 DEF Touch, Fields
<1>7. Accounts(t) /\ AtLogin(t)
  BY <1>2, <1>3, <1>5, <1>6 DEF Accounts, AtLogin
<1>8. ss' = t /\ saved' = saved
  BY <1>1 DEF Step
<1>9. Files
  BY <1>5, <1>8, SameRefl DEF Files
<1> QED
  BY <1>5, <1>6, <1>7, <1>8, <1>9 DEF Moved, Whole

LEMMA LogoutMoves == ASSUME Whole(ss), Step(launch_do_logout(ss)) PROVE Moved
<1>1. Core(ss) /\ Shown(ss) /\ Accounts(ss)
  BY DEF Whole
<1>2. PICK a : a = [ss EXCEPT !.np.open = FALSE]
  OBVIOUS
<1>3. Touch(ss, a, {"np"}) /\ SameText(ss, a) /\ a.np.open = FALSE
  BY <1>1, <1>2, Domains DEF Touch, Fields, SameText
<1>4. Touch(ss, a, {"np", "front", "launch"})
  BY <1>3 DEF Touch
<1>5. Quiet(ss, a)
  BY <1>1, <1>3, <1>4, TextQuiet
<1>6. Core(a) /\ Shown(a) /\ a.vol = ss.vol
  BY <1>1, <1>5, QuietCore
<1>7. PICK b : b = [a EXCEPT !.fw.open = FALSE]
  OBVIOUS
<1>8. Touch(a, b, {"fw"}) /\ SameList(a, b) /\ b.fw.open = FALSE
  BY <1>6, <1>7, Domains DEF Touch, Fields, SameList
<1>9. Touch(a, b, {"fw", "front", "launch"})
  BY <1>8 DEF Touch
<1>10. Quiet(a, b)
  BY <1>6, <1>8, <1>9, FlagsQuiet
<1>11. Core(b) /\ Shown(b) /\ b.vol = ss.vol
  BY <1>6, <1>10, QuietCore
<1>12. PICK t : t = [b EXCEPT !.started = FALSE, !.login = TRUE, !.focus = TRUE, !.pw = "", !.launch = FALSE]
  OBVIOUS
<1>13. Touch(b, t, {"started", "login", "focus", "pw", "launch"}) /\ t.started = FALSE /\ t.login = TRUE
  BY <1>11, <1>12, Domains DEF Touch, Fields
<1>14. Touch(b, t, Outside)
  BY <1>13 DEF Touch, Outside
<1>15. Core(t) /\ Shown(t) /\ t.vol = ss.vol /\ t.np = b.np /\ t.fw = b.fw
  BY <1>11, <1>14, OutsideKeeps
<1>16. AtLogin(t)
  <2>1. b.np = a.np
    BY <1>8 DEF Touch, Fields
  <2> QED
    BY <1>3, <1>8, <1>13, <1>15, <2>1 DEF AtLogin
<1>17. t.on = ss.on /\ t.users = ss.users /\ t.lsel = ss.lsel /\ t.lostusers = ss.lostusers
  BY <1>3, <1>8, <1>13 DEF Touch, Fields
<1>18. Accounts(t)
  BY <1>1, <1>17 DEF Accounts
<1>19. t = launch_do_logout(ss)
  <2>1. DOMAIN ss = Fields
    BY <1>1, Domains
  <2> QED
    BY <1>2, <1>7, <1>12, <2>1 DEF launch_do_logout, Fields
<1>20. ss' = t /\ saved' = saved
  BY <1>19 DEF Step
<1>21. Files
  BY <1>15, <1>20, SameRefl DEF Files
<1> QED
  BY <1>13, <1>15, <1>16, <1>17, <1>18, <1>20, <1>21 DEF Moved, Whole

LEMMA LaunchMoves == ASSUME Whole(ss), ~ss.login, ClickLaunch PROVE Moved
<1>1. Core(ss)
  BY DEF Whole
<1>2. ASSUME Step([ss EXCEPT !.launch = FALSE]) PROVE Moved
  <2>1. PICK t : t = [ss EXCEPT !.launch = FALSE]
    OBVIOUS
  <2>2. Quiet(ss, t)
    BY <1>1, <2>1, SetField
  <2> QED
    BY <1>2, <2>1, <2>2, QuietMoves
<1>3. ASSUME NEW n, Step([IF Ext[n] = "TXT" THEN notepad_open(ss, n) ELSE ss EXCEPT !.launch = FALSE]) PROVE Moved
  <2>1. PICK a : a = IF Ext[n] = "TXT" THEN notepad_open(ss, n) ELSE ss
    OBVIOUS
  <2>2. Quiet(ss, a)
    BY <1>1, <2>1, OpenName, QuietRefl
  <2>3. Core(a)
    BY <1>1, <2>2, QuietCore
  <2>4. PICK t : t = [a EXCEPT !.launch = FALSE]
    OBVIOUS
  <2>5. Quiet(a, t)
    BY <2>3, <2>4, SetField
  <2>6. Quiet(ss, t)
    BY <2>2, <2>5, QuietTrans
  <2> QED
    BY <1>3, <2>1, <2>4, <2>6, QuietMoves
<1> QED
  BY <1>2, <1>3, LogoutMoves, OffMoves DEF ClickLaunch

LEMMA EditorMoves == ASSUME Whole(ss), ~ss.login, ClickEditor PROVE Moved
<1>1. Core(ss) /\ Shown(ss)
  BY DEF Whole
<1>2. PICK s : s = [ss EXCEPT !.front = "np"]
  OBVIOUS
<1>3. Quiet(ss, s)
  BY <1>1, <1>2, SetField
<1>4. Core(s) /\ Shown(s) /\ Still(ss, s)
  BY <1>1, <1>3, QuietCore, QuietStill
<1>5. ASSUME Step([ss EXCEPT !.front = "np"]) PROVE Moved
  BY <1>2, <1>3, <1>5, QuietMoves
<1>6. ASSUME Step([ss EXCEPT !.front = "np", !.np.min = TRUE]) PROVE Moved
  <2>1. PICK t : t = [ss EXCEPT !.front = "np", !.np.min = TRUE]
    OBVIOUS
  <2>2. Touch(ss, t, {"np", "front", "launch"}) /\ SameText(ss, t)
    BY <1>1, <2>1, Domains DEF Touch, Fields, SameText
  <2> QED
    BY <1>1, <1>6, <2>1, <2>2, TextQuiet, QuietMoves
<1>7. ASSUME NEW a \in ItemsOf("np"), ss' = Do(s, a),
             IF a = "np_save" THEN SaveKeeps(s, s.np.name) ELSE UNCHANGED saved
      PROVE  Moved
  <2>1. a \in Items
    BY ItemsAre DEF Targets
  <2>2. PICK t : t = Do(s, a)
    OBVIOUS
  <2>3. PICK n : n = s.np.name
    OBVIOUS
  <2>4. /\ a # "np_save" => Still(s, t)
        /\ a = "np_save" => Saves(s, t, SaveTaken(s, n), SavedAt(s, n), SavedAs(s, n))
    BY <1>4, <2>1, <2>2, <2>3, DoDoes
  <2>5. CASE a # "np_save"
    <3>1. Still(ss, t) /\ Step(t)
      BY <1>4, <1>7, <2>2, <2>4, <2>5, StillTrans DEF Step
    <3> QED
      BY <3>1, StillMoves
  <2>6. CASE a = "np_save"
    <3>1. ss' = t /\ SaveKeeps(s, n)
      BY <1>7, <2>2, <2>3, <2>6
    <3> QED
      BY <1>4, <2>4, <2>6, <3>1, SavingMoves
  <2> QED
    BY <2>5, <2>6
<1> QED
  BY <1>2, <1>5, <1>6, <1>7 DEF ClickEditor

LEMMA ExplorerMoves == ASSUME Whole(ss), ~ss.login, ClickExplorer PROVE Moved
<1>1. Core(ss)
  BY DEF Whole
<1>2. PICK s : s = [ss EXCEPT !.front = "fw"]
  OBVIOUS
<1>3. Quiet(ss, s)
  BY <1>1, <1>2, SetField
<1>4. Core(s)
  BY <1>1, <1>3, QuietCore
<1>5. ASSUME NEW x, Core(x), NEW b, NEW y, y = [x EXCEPT !.fw.focus = b] PROVE Quiet(x, y) /\ y.fw.items = x.fw.items
  <2>1. Touch(x, y, {"fw", "front", "launch"}) /\ SameList(x, y)
    BY <1>5, Domains DEF Touch, Fields, SameList
  <2> QED
    BY <1>5, <2>1, FlagsQuiet DEF SameList
<1>6. ASSUME NEW t, Quiet(s, t), Step(t) PROVE Moved
  BY <1>3, <1>6, QuietTrans, QuietMoves
<1>7. ASSUME Step(filewin_close(s)) PROVE Moved
  BY <1>4, <1>6, <1>7, CloseExplorer
<1>8. ASSUME Step([s EXCEPT !.fw.focus = TRUE]) PROVE Moved
  BY <1>4, <1>5, <1>6, <1>8
<1>9. ASSUME NEW p \in {s.ddir, WallDir, Base}, Step(filewin_set_path([s EXCEPT !.fw.focus = FALSE], p)) PROVE Moved
  <2>1. IsSeq(p)
    BY <1>4, Paths DEF Core, Path
  <2>2. PICK a : a = [s EXCEPT !.fw.focus = FALSE]
    OBVIOUS
  <2>3. Quiet(s, a)
    BY <1>4, <1>5, <2>2
  <2>4. Core(a)
    BY <1>4, <2>3, QuietCore
  <2>5. PICK t : t = filewin_set_path(a, p)
    OBVIOUS
  <2>6. Quiet(a, t)
    BY <2>1, <2>4, <2>5, SetPath
  <2> QED
    BY <1>6, <1>9, <2>2, <2>3, <2>5, <2>6, QuietTrans
<1>10. ASSUME NEW i \in 1 .. Len(s.fw.items), NEW a, a = [filewin_select(s, i) EXCEPT !.fw.focus = FALSE]
       PROVE  Quiet(s, a) /\ Core(a) /\ i \in 1 .. Len(a.fw.items)
  <2>1. PICK b : b = filewin_select(s, i)
    OBVIOUS
  <2>2. Quiet(s, b) /\ b.fw.items = s.fw.items
    BY <1>4, <2>1, Select
  <2>3. Core(b)
    BY <1>4, <2>2, QuietCore
  <2>4. Quiet(b, a) /\ a.fw.items = b.fw.items
    BY <1>5, <1>10, <2>1, <2>3
  <2>5. Core(a)
    BY <2>3, <2>4, QuietCore
  <2> QED
    BY <2>2, <2>4, <2>5, QuietTrans
<1>11. ASSUME NEW i \in 1 .. Len(s.fw.items), Step([filewin_select(s, i) EXCEPT !.fw.focus = FALSE]) PROVE Moved
  BY <1>6, <1>10, <1>11
<1>12. ASSUME NEW i \in 1 .. Len(s.fw.items), Step(DoubleClick([filewin_select(s, i) EXCEPT !.fw.focus = FALSE], i))
       PROVE  Moved
  <2>1. PICK a : a = [filewin_select(s, i) EXCEPT !.fw.focus = FALSE]
    OBVIOUS
  <2>2. Quiet(s, a) /\ Core(a) /\ i \in 1 .. Len(a.fw.items)
    BY <1>10, <2>1
  <2>3. Quiet(s, DoubleClick(a, i))
    BY <2>2, DoubleClickQuiet, QuietTrans
  <2> QED
    BY <1>6, <1>12, <2>1, <2>3
<1> QED
  BY <1>2, <1>7, <1>8, <1>9, <1>11, <1>12 DEF ClickExplorer

LEMMA WavMoves == ASSUME Whole(ss), ~ss.login, ClickWavOpen PROVE Moved
<1>1. Quiet(ss, file_picker_start(ss, "WAV"))
  BY PickerStart DEF Whole
<1> QED
  BY <1>1, QuietMoves DEF ClickWavOpen

LEMMA IconMoves == ASSUME Whole(ss), ~ss.login, ClickIcon PROVE Moved
<1>1. Core(ss) /\ Shown(ss)
  BY DEF Whole
<1>2. PICK i \in 1 .. Len(ss.icons), f \in {ss.front, "other"} \cup {w \in {"np", "fw"} : Seen(w)} :
        LET s == desktop_set_selection([ss EXCEPT !.front = f], i)
        IN  Step(s) \/ Step(notepad_open(s, s.icons[i].name))
  BY DEF ClickIcon
<1>3. PICK a : a = [ss EXCEPT !.front = f]
  OBVIOUS
<1>4. Quiet(ss, a) /\ a.icons = ss.icons
  <2>1. Quiet(ss, a)
    BY <1>1, <1>3, SetField
  <2> QED
    BY <2>1 DEF Quiet, Touch, Fields, InWindows
<1>5. Core(a) /\ Shown(a) /\ Still(ss, a)
  BY <1>1, <1>4, QuietCore, QuietStill
<1>6. PICK s : s = desktop_set_selection(a, i)
  OBVIOUS
<1>7. Core(s) /\ Shown(s) /\ Touch(a, s, {"isel", "chosen"})
  BY <1>4, <1>5, <1>6, SelectIcon
<1>8. Still(a, s)
  <2>1. SameLogin(a, s) /\ s.vol = a.vol
    BY <1>7 DEF Touch, Fields, SameLogin
  <2> QED
    BY <1>7, <2>1, SameRefl DEF Still, Calm
<1>9. Still(ss, s)
  BY <1>5, <1>8, StillTrans
<1>10. PICK t : t = notepad_open(s, s.icons[i].name)
  OBVIOUS
<1>11. Quiet(s, t)
  BY <1>7, <1>10, OpenName
<1>12. Still(ss, t)
  BY <1>9, <1>11, StillQuiet
<1>13. Step(s) \/ Step(t)
  BY <1>2, <1>3, <1>6, <1>10
<1> QED
  BY <1>9, <1>12, <1>13, StillMoves

LEMMA RightMoves == ASSUME Whole(ss), ~ss.login, RightPress \/ RightRelease PROVE Moved
<1>1. Core(ss) /\ ss.ctx \in Targets
  BY DEF Whole, Core, Rest
<1>2. ASSUME NEW x \in Targets, NEW rd, Step([ss EXCEPT !.ctx = x, !.right = TRUE, !.prompt.ready = rd]) PROVE Moved
  <2>1. PICK t : t = [ss EXCEPT !.ctx = x, !.right = TRUE, !.prompt.ready = rd]
    OBVIOUS
  <2>2. Touch(ss, t, {"prompt", "ctx", "right"}) /\ DOMAIN t.prompt = DOMAIN ss.prompt /\ t.ctx = x
    BY <1>1, <2>1, Domains DEF Touch, Fields
  <2>3. Quiet(ss, t)
    BY <1>1, <2>2, PromptQuiet
  <2> QED
    BY <1>2, <2>1, <2>3, QuietMoves
<1>3. ASSUME Step([ss EXCEPT !.right = FALSE, !.prompt.ready = TRUE]) PROVE Moved
  <2>1. PICK t : t = [ss EXCEPT !.right = FALSE, !.prompt.ready = TRUE]
    OBVIOUS
  <2>2. Touch(ss, t, {"prompt", "ctx", "right"}) /\ DOMAIN t.prompt = DOMAIN ss.prompt /\ t.ctx = ss.ctx
    BY <1>1, <2>1, Domains DEF Touch, Fields
  <2>3. Quiet(ss, t)
    BY <1>1, <2>2, PromptQuiet
  <2> QED
    BY <1>3, <2>1, <2>3, QuietMoves
<1>4. \A x \in {"desktop"} \cup {w \in {"np", "fw"} : Seen(w)} : x \in Targets
  BY DEF Targets
<1> QED
  BY <1>2, <1>3, <1>4 DEF RightPress, RightRelease

-----------------------------------------------------------------------------
(* Boot.                                                                    *)

LEMMA FreshIs ==
  ASSUME NEW v, Volume(v), NEW s, s = Fresh(v)
  PROVE  /\ Core(s) /\ Shown(s) /\ s.vol = v /\ s.ddir = Desk("ADMIN") /\ s.lsel = 1 /\ s.on = FALSE
         /\ s.started = FALSE /\ s.np.open = FALSE /\ s.fw.open = FALSE /\ s.lostusers = FALSE
<1>1. /\ DOMAIN s = Fields /\ s.vol = v /\ s.ddir = Desk("ADMIN") /\ s.lsel = 1 /\ s.started = FALSE /\ s.mounted = FALSE
      /\ s.icons = <<>> /\ s.isel = 0 /\ s.picker = "none" /\ s.ctx = "none" /\ s.lostusers = FALSE /\ s.on = FALSE
      /\ s.seen = 0
  BY DEF Fresh, Fields
<1>2. s.np = [open |-> FALSE, min |-> FALSE, path |-> <<>>, name |-> "", text |-> Zero]
  BY DEF Fresh
<1>3. s.fw = [open |-> FALSE, min |-> FALSE, path |-> <<>>, focus |-> FALSE, sel |-> 0, items |-> <<>>,
              listed |-> <<>>, chosen |-> <<>>]
  BY DEF Fresh
<1>4. s.prompt = [active |-> FALSE, ready |-> FALSE, mode |-> "none", buf |-> ""]
  BY DEF Fresh
<1>5. Np(s) /\ s.np.open = FALSE
  <2>1. Zero \in DOMAIN Parse
    BY SessionAssumption
  <2>2. /\ DOMAIN s.np = {"open", "min", "path", "name", "text"} /\ s.np.path = <<>> /\ s.np.text = Zero
        /\ s.np.open = FALSE
    <3>1. PICK z : z = Zero
      OBVIOUS
    <3>2. PICK e : e = <<>>
      OBVIOUS
    <3>3. PICK r : r = [open |-> FALSE, min |-> FALSE, path |-> e, name |-> "", text |-> z]
      OBVIOUS
    <3>4. DOMAIN r = {"open", "min", "path", "name", "text"} /\ r.path = e /\ r.text = z /\ r.open = FALSE
      BY ONLY <3>3
    <3> QED
      BY <1>2, <3>1, <3>2, <3>3, <3>4
  <2>3. IsSeq(s.np.path)
    BY <2>2, EmptyIsSeq
  <2> QED
    BY <2>1, <2>2, <2>3 DEF Np
<1>6. Fw(s) /\ s.fw.open = FALSE
  BY <1>3, EmptyIsSeq DEF Fw
<1>7. Icons(s) /\ Shown(s)
  BY <1>1, EmptyIsSeq DEF Icons, Shown
<1>8. Rest(s)
  BY <1>1, <1>4 DEF Rest, Targets
<1>9. IsSeq(s.ddir)
  BY <1>1, Paths DEF Path
<1> QED
  BY <1>1, <1>5, <1>6, <1>7, <1>8, <1>9 DEF Core

\* The accounts: what a boot does to the volume.
StoreDone(s, t) ==
  \/ SameFiles(s.vol, t.vol)
  \/ /\ \E d \in {DefaultBody, Torn} : Wrote(s.vol, t.vol, UserFile, d)
     /\ ~io.u \/ ~IsFile(s.vol, UserFile)

LEMMA UserStore ==
  ASSUME NEW s, Core(s), Shown(s), Path(s.ddir, 4), NEW t, t = ensure_user_store(s)
  PROVE  /\ Core(t) /\ Shown(t) /\ Touch(s, t, {"vol", "users", "late"}) /\ IsSeq(t.users) /\ t.users # <<>>
         /\ StoreDone(s, t)
<1>1. IsSeq(Default) /\ Default # <<>>
  BY SessionAssumption DEF IsSeq
<1>2. CASE ~s.mounted
  <2>1. t = [s EXCEPT !.users = Default]
    BY <1>2 DEF ensure_user_store
  <2>2. Touch(s, t, {"vol", "users", "late"}) /\ Touch(s, t, Outside) /\ t.users = Default
    BY <2>1, Domains DEF Touch, Fields, Outside
  <2>3. Core(t) /\ Shown(t) /\ t.vol = s.vol
    BY <2>2, OutsideKeeps
  <2> QED
    BY <1>1, <2>2, <2>3, SameRefl DEF StoreDone
<1>3. CASE s.mounted
  <2>1. PICK a1 : a1 = ensure_user_dirs_on_disk(s, "ADMIN")
    OBVIOUS
  <2>2. PICK a2 : a2 = ensure_user_dirs_on_disk(a1, "GUEST")
    OBVIOUS
  <2>3. PICK a : a = EnsureDir(a2, WallDir)
    OBVIOUS
  <2>4. Ensured(s, a1)
    BY <2>1, EnsureUser DEF Core
  <2>5. Ensured(a1, a2)
    BY <2>2, <2>4, EnsuredType, EnsureUser
  <2>6. Ensured(a2, a)
    <3>1. Path(WallDir, 2) /\ 2 \in 0 .. 4
      BY Paths
    <3> QED
      BY <2>3, <2>5, <3>1, EnsuredType, EnsureOne
  <2>7. Ensured(s, a)
    BY <2>4, <2>5, <2>6, EnsuredTrans
  <2>8. /\ Core(a) /\ SameFiles(s.vol, a.vol) /\ Touch(s, a, {"vol"})
    BY <2>7, CoreParts, EnsuredFrame DEF Ensured
  <2>9. Len(s.ddir) \in Nat /\ Len(s.ddir) >= 4 /\ Len(s.ddir) >= 3
    BY DEF Path
  <2>10. Shown(a)
    <3>1. \A k : Listing(a.vol, s.ddir, k) = Listing(s.vol, s.ddir, k)
      BY <2>7, <2>9 DEF Ensured, Extends, SameLists
    <3>2. /\ a.icons = s.icons /\ a.seen = s.seen /\ a.late = s.late /\ a.ddir = s.ddir /\ a.mounted = s.mounted
      BY <2>8 DEF Touch, Fields
    <3> QED
      BY <3>1, <3>2 DEF Shown
  <2>11. PICK readable : readable = (io.u /\ IsFile(a.vol, UserFile))
    OBVIOUS
  <2>12. PICK b : b = IF readable THEN a
                      ELSE IF Writable(a, UserFile) THEN Write(a, UserFile, DefaultBody) ELSE Spoil(a, UserFile)
    OBVIOUS
  <2>13. PICK list : list = Parse[IF readable THEN DataAt(a.vol, UserFile) ELSE DefaultBody]
    OBVIOUS
  <2>14. PICK us : us = IF list = <<>> THEN Default ELSE list
    OBVIOUS
  <2>15. t = [b EXCEPT !.users = us]
    BY <1>3, <2>1, <2>2, <2>3, <2>11, <2>12, <2>13, <2>14 DEF ensure_user_store
  <2>16. IsSeq(us) /\ us # <<>>
    <3>1. (IF readable THEN DataAt(a.vol, UserFile) ELSE DefaultBody) \in DOMAIN Parse
      BY <2>8, <2>11, HoldsIs, SessionAssumption DEF Core
    <3>2. list \in Seq(Account)
      BY <2>13, <3>1, SessionAssumption
    <3>3. IsSeq(list)
      BY <3>2 DEF IsSeq
    <3> QED
      BY <1>1, <2>14, <3>3
  <2>17. /\ Touch(a, b, {"vol", "late"}) /\ Core(b) /\ Shown(b)
         /\ \/ SameFiles(a.vol, b.vol)
            \/ (\E d \in {DefaultBody, Torn} : Wrote(a.vol, b.vol, UserFile, d)) /\ ~readable
    <3>0. IsSeq(UserFile) /\ Len(UserFile) = 3 /\ Len(UserFile) > 0
      <4>1. Path(UserFile, 3)
        BY Paths
      <4> QED
        BY <4>1 DEF Path
    <3>1. CASE readable
      <4>1. b = a
        BY <2>12, <3>1
      <4> QED
        BY <2>8, <2>10, <4>1, SameRefl, Domains DEF Touch
    <3>2. CASE ~readable /\ Writable(a, UserFile)
      <4>1. b = Write(a, UserFile, DefaultBody)
        BY <2>12, <3>2
      <4>2. DefaultBody \in DOMAIN Parse
        BY SessionAssumption
      <4>3. Touch(a, b, {"vol"}) /\ Wrote(a.vol, b.vol, UserFile, DefaultBody) /\ SameLists(a.vol, b.vol, Len(UserFile))
        BY <2>8, <3>0, <3>2, <4>1, <4>2, WriteDoes DEF Core
      <4>4. /\ b.icons = a.icons /\ b.isel = a.isel /\ b.chosen = a.chosen /\ b.ddir = a.ddir /\ b.mounted = a.mounted
            /\ b.np = a.np /\ b.fw = a.fw /\ b.prompt = a.prompt /\ b.picker = a.picker /\ b.ctx = a.ctx
            /\ b.seen = a.seen /\ b.late = a.late /\ DOMAIN b = Fields
        BY <4>3 DEF Touch, Fields
      <4>5. Core(b)
        BY <2>8, <4>3, <4>4 DEF Core, Np, Fw, Icons, Rest, Wrote
      <4>6. a.ddir = s.ddir
        BY <2>8 DEF Touch, Fields
      <4>7. \A k : Listing(b.vol, a.ddir, k) = Listing(a.vol, a.ddir, k)
        BY <2>9, <3>0, <4>3, <4>6 DEF SameLists
      <4>8. Shown(b)
        BY <2>10, <4>4, <4>7 DEF Shown
      <4>9. Touch(a, b, {"vol", "late"})
        BY <4>3 DEF Touch
      <4> QED
        BY <3>2, <4>3, <4>5, <4>8, <4>9
    <3>3. CASE ~readable /\ ~Writable(a, UserFile)
      <4>1. b = Spoil(a, UserFile)
        BY <2>12, <3>3
      <4>2. /\ Core(b) /\ (Shown(a) => Shown(b)) /\ Touch(a, b, {"vol", "late"})
            /\ Spoils(a, UserFile) => Wrote(a.vol, b.vol, UserFile, Torn)
            /\ ~Spoils(a, UserFile) => SameFiles(a.vol, b.vol)
        BY <2>8, <3>0, <4>1, SpoilDoes
      <4> QED
        BY <2>10, <3>3, <4>2
    <3> QED
      BY <3>1, <3>2, <3>3
  <2>18. Touch(b, t, {"users"}) /\ t.users = us
    BY <2>15, <2>17 DEF Touch, Fields
  <2>19. Touch(s, t, {"vol", "users", "late"})
    BY <2>8, <2>17, <2>18 DEF Touch
  <2>20. Touch(b, t, Outside)
    BY <2>18 DEF Touch, Outside
  <2>21. Core(t) /\ Shown(t) /\ t.vol = b.vol
    BY <2>17, <2>20, OutsideKeeps
  <2>22. StoreDone(s, t)
    <3>1. CASE SameFiles(a.vol, b.vol)
      BY <2>8, <2>21, <3>1, SameTrans DEF StoreDone
    <3>2. ASSUME NEW d \in {DefaultBody, Torn}, Wrote(a.vol, b.vol, UserFile, d), ~readable PROVE StoreDone(s, t)
      <4>1. Wrote(s.vol, b.vol, UserFile, d)
        <5>1. Volume(b.vol) /\ SameFiles(b.vol, b.vol)
          BY <2>17, SameRefl DEF Core
        <5> QED
          BY <2>8, <3>2, <5>1, WroteTrans
      <4>2. ~io.u \/ ~IsFile(s.vol, UserFile)
        BY <2>8, <2>11, <3>2 DEF SameFiles
      <4> QED
        BY <2>21, <4>1, <4>2 DEF StoreDone
    <3> QED
      BY <2>17, <3>1, <3>2
  <2> QED
    BY <2>16, <2>18, <2>19, <2>21, <2>22
<1> QED
  BY <1>2, <1>3

LEMMA BootMoves ==
  ASSUME Whole(ss), Boot
  PROVE  Whole(ss') /\ saved' = saved /\ StoreDone(ss, ss') /\ (ss.lostusers \/ ~io.u => ss'.lostusers)
<1>1. PICK f : f = Fresh(ss.vol)
  OBVIOUS
<1>2. Volume(ss.vol)
  BY DEF Whole, Core
<1>3. /\ Core(f) /\ Shown(f) /\ f.vol = ss.vol /\ f.ddir = Desk("ADMIN") /\ f.lsel = 1
      /\ f.started = FALSE /\ f.np.open = FALSE /\ f.fw.open = FALSE
  BY <1>1, <1>2, FreshIs
<1>4. PICK l : l = (ss.lostusers \/ ~io.u)
  OBVIOUS
<1>5. PICK s : s = [f EXCEPT !.lostusers = l]
  OBVIOUS
<1>6. Touch(f, s, {"lostusers"}) /\ s.lostusers = l
  BY <1>3, <1>5, Domains DEF Touch, Fields
<1>7. Touch(f, s, Outside)
  BY <1>6 DEF Touch, Outside
<1>8. Core(s) /\ Shown(s) /\ s.vol = ss.vol /\ s.np = f.np /\ s.fw = f.fw
  BY <1>3, <1>7, OutsideKeeps
<1>9. PICK m : m = IF io.r THEN Mount(EnsureDir([s EXCEPT !.mounted = TRUE], Base)) ELSE s
  OBVIOUS
<1>10. Core(m) /\ Shown(m) /\ Touch(s, m, OnDesk) /\ SameFiles(s.vol, m.vol)
  <2>1. CASE ~io.r
    BY <1>8, <1>9, <2>1, SameRefl, Domains DEF Touch
  <2>2. CASE io.r
    <3>1. PICK c : c = [s EXCEPT !.mounted = TRUE]
      OBVIOUS
    <3>2. Touch(s, c, {"mounted"}) /\ c.vol = s.vol
      BY <1>8, <3>1, Domains DEF Touch, Fields
    <3>3. Touch(s, c, OnDesk)
      BY <3>2 DEF Touch, OnDesk
    <3>4. Frame(c)
      BY <1>8, <3>2, <3>3, CoreParts, FrameKept DEF Frame
    <3>5. PICK d : d = EnsureDir(c, Base)
      OBVIOUS
    <3>6. Ensured(c, d)
      <4>1. Path(Base, 1) /\ 1 \in 0 .. 4
        BY Paths
      <4> QED
        BY <3>4, <3>5, <4>1, EnsureOne DEF Frame
    <3>7. Frame(d) /\ Touch(c, d, OnDesk) /\ SameFiles(c.vol, d.vol)
      BY <3>4, <3>6, EnsuredFrame
    <3>8. m = Mount(d)
      BY <1>9, <2>2, <3>1, <3>5
    <3>9. Refreshed(d, m)
      BY <3>7, <3>8, MountDoes
    <3>10. Touch(s, d, OnDesk) /\ SameFiles(s.vol, d.vol)
      BY <3>2, <3>3, <3>7 DEF Touch
    <3>11. Refreshed(s, m)
      BY <3>9, <3>10, RefreshedTrans
    <3> QED
      BY <3>11 DEF Refreshed
  <2> QED
    BY <2>1, <2>2
<1>11. m.ddir = Desk("ADMIN") /\ Path(m.ddir, 4)
  <2>1. m.ddir = s.ddir /\ s.ddir = f.ddir
    BY <1>6, <1>10 DEF Touch, Fields, OnDesk
  <2> QED
    BY <1>3, <2>1, Paths
<1>12. PICK e : e = ensure_user_store(m)
  OBVIOUS
<1>13. /\ Core(e) /\ Shown(e) /\ Touch(m, e, {"vol", "users", "late"}) /\ IsSeq(e.users) /\ e.users # <<>>
       /\ StoreDone(m, e)
  BY <1>10, <1>11, <1>12, UserStore
<1>14. PICK t : t = [e EXCEPT !.on = TRUE]
  OBVIOUS
<1>15. Touch(e, t, {"on"})
  BY <1>13, <1>14, Domains DEF Touch, Fields
<1>16. Touch(e, t, Outside)
  BY <1>15 DEF Touch, Outside
<1>17. Core(t) /\ Shown(t) /\ t.vol = e.vol /\ t.np = e.np /\ t.fw = e.fw
  BY <1>13, <1>16, OutsideKeeps
<1>18. t.started = FALSE /\ t.np.open = FALSE /\ t.fw.open = FALSE /\ t.lsel = 1 /\ t.lostusers = l /\ t.users = e.users
  <2>1. /\ t.started = e.started /\ t.lsel = e.lsel /\ t.lostusers = e.lostusers /\ t.users = e.users
        /\ e.started = m.started /\ e.lsel = m.lsel /\ e.lostusers = m.lostusers /\ e.np = m.np /\ e.fw = m.fw
    BY <1>13, <1>15 DEF Touch, Fields
  <2>2. /\ m.started = s.started /\ m.lsel = s.lsel /\ m.lostusers = s.lostusers /\ m.np = s.np /\ m.fw = s.fw
        /\ s.started = f.started /\ s.lsel = f.lsel
    BY <1>6, <1>10 DEF Touch, Fields, OnDesk
  <2> QED
    BY <1>3, <1>6, <1>8, <1>17, <2>1, <2>2
<1>19. Accounts(t) /\ AtLogin(t)
  <2>1. PICK S : e.users \in Seq(S)
    BY <1>13 DEF IsSeq
  <2>2. Len(e.users) \in Nat \ {0}
    BY <1>13, <2>1, EmptySeq
  <2>3. 1 \in 1 .. Len(e.users)
    BY <2>2
  <2> QED
    BY <1>13, <1>18, <2>3 DEF Accounts, AtLogin
<1>20. StoreDone(ss, t)
  <2>1. CASE SameFiles(m.vol, e.vol)
    BY <1>8, <1>10, <1>17, <2>1, SameTrans DEF StoreDone
  <2>2. ASSUME NEW d \in {DefaultBody, Torn}, Wrote(m.vol, e.vol, UserFile, d), ~io.u \/ ~IsFile(m.vol, UserFile)
        PROVE  StoreDone(ss, t)
    <3>1. Wrote(ss.vol, t.vol, UserFile, d)
      BY <1>8, <1>10, <1>13, <1>17, <2>2, WroteTrans, SameRefl DEF Core
    <3>2. ~io.u \/ ~IsFile(ss.vol, UserFile)
      BY <1>8, <1>10, <2>2 DEF SameFiles
    <3> QED
      BY <3>1, <3>2 DEF StoreDone
  <2> QED
    BY <1>13, <2>1, <2>2 DEF StoreDone
<1>21. ss' = t /\ saved' = saved
  BY <1>1, <1>4, <1>5, <1>9, <1>12, <1>14 DEF Boot
<1> QED
  BY <1>4, <1>17, <1>18, <1>19, <1>20, <1>21 DEF Whole

LEMMA RoundMoves == ASSUME Whole(ss), ss.on, Keys \/ Clicks PROVE Moved
<1>1. CASE Keys
  BY <1>1, DeleteMoves, ArrowMoves, WindowsKeyMoves, AltTabMoves, LoginMoves, LoginTypeMoves, PromptTyped, PromptEntered,
     BarTyped, EditorTyped DEF Keys
<1>2. CASE Clicks
  BY <1>2, LoginMoves, LoginClickMoves, CtxMoves, PromptClicked, TaskbarMoves, LaunchMoves, EditorMoves, ExplorerMoves,
     WavMoves, IconMoves, RightMoves DEF Clicks
<1> QED
  BY <1>1, <1>2

-----------------------------------------------------------------------------
(* The theorems.                                                            *)

\* A file holds what it was last saved with, or is an account file that a boot
\* could not read and has written anew.
Kept(s, e) ==
  \/ Holds(s.vol, e[1], e[2])
  \/ e[1] = UserFile /\ s.lostusers /\ \E d \in {DefaultBody, Torn} : Holds(s.vol, UserFile, d)
AllKept == \A e \in saved : Kept(ss, e)

IoType == [r : BOOLEAN, w : {"all", "none", "data"}, u : BOOLEAN, list : 0 .. LIST_MAX]
Bounds == io \in IoType /\ faults \in 0 .. MaxFaults /\ rounds \in 0 .. MaxRounds

SessInv == Whole(ss) /\ AllKept /\ Bounds

LEMMA SessInitial == ASSUME SessInit PROVE SessInv
<1>1. PICK v \in HostVols :
        ss = Fresh(v) /\ saved = {<<v[i].path, v[i].data>> : i \in {j \in 1 .. Len(v) : ~v[j].dir}}
  BY DEF SessInit
<1>2. v \in Seq(Entry) /\ \A i, j \in 1 .. Len(v) : v[i].path = v[j].path => i = j
  BY SessionAssumption
<1>3. Volume(v)
  <2>1. \A i \in 1 .. Len(v) : v[i] \in Entry
    BY <1>2, ElementOfSeq
  <2>2. \A i \in 1 .. Len(v) : IsEntry(v[i])
    BY <2>1 DEF IsEntry, Entry
  <2> QED
    BY <1>2, <2>2 DEF Volume, Unique, IsSeq
<1>4. /\ Core(ss) /\ Shown(ss) /\ ss.vol = v /\ ss.on = FALSE /\ ss.started = FALSE /\ ss.np.open = FALSE
      /\ ss.fw.open = FALSE
  BY <1>1, <1>3, FreshIs
<1>5. Whole(ss)
  BY <1>4 DEF Whole, Accounts, AtLogin
<1>6. AllKept
  <2> SUFFICES ASSUME NEW e \in saved PROVE Kept(ss, e)
    BY DEF AllKept
  <2>1. PICK i \in 1 .. Len(v) : ~v[i].dir /\ e = <<v[i].path, v[i].data>>
    BY <1>1
  <2> QED
    BY <1>4, <2>1 DEF Kept, Holds
<1>7. Bounds
  BY SessionAssumption DEF SessInit, Bounds, Working, IoType
<1> QED
  BY <1>5, <1>6, <1>7 DEF SessInv

LEMMA RoundKeeps == ASSUME AllKept, Moved PROVE AllKept'
<1> SUFFICES ASSUME NEW e \in saved' PROVE Kept(ss', e)
  BY DEF AllKept
<1>1. ss'.lostusers = ss.lostusers
  BY DEF Moved
<1>2. CASE SameFiles(ss.vol, ss'.vol) /\ saved' = saved
  BY <1>1, <1>2 DEF AllKept, Kept, SameFiles
<1>3. ASSUME NEW p, NEW d, Wrote(ss.vol, ss'.vol, p, d), Keeps(p, d) PROVE Kept(ss', e)
  <2>1. CASE e = <<p, d>>
    BY <1>3, <2>1 DEF Wrote, Kept
  <2>2. CASE e # <<p, d>>
    <3>1. e \in saved /\ e[1] # p
      BY <1>3, <2>2 DEF Keeps
    <3>2. Kept(ss, e)
      BY <3>1 DEF AllKept
    <3> QED
      BY <1>1, <1>3, <3>1, <3>2 DEF Wrote, Kept
  <2> QED
    BY <2>1, <2>2
<1> QED
  BY <1>2, <1>3 DEF Moved, Files

LEMMA BootKeeps ==
  ASSUME AllKept, saved' = saved, StoreDone(ss, ss'), ss.lostusers \/ ~io.u => ss'.lostusers PROVE AllKept'
<1> SUFFICES ASSUME NEW e \in saved PROVE Kept(ss', e)
  BY DEF AllKept
<1>1. Kept(ss, e)
  BY DEF AllKept
<1>2. CASE SameFiles(ss.vol, ss'.vol)
  BY <1>1, <1>2 DEF Kept, SameFiles
<1>3. ASSUME NEW d \in {DefaultBody, Torn}, Wrote(ss.vol, ss'.vol, UserFile, d), ~io.u \/ ~IsFile(ss.vol, UserFile)
      PROVE  Kept(ss', e)
  <2>1. CASE e[1] # UserFile
    BY <1>1, <1>3, <2>1 DEF Kept, Wrote
  <2>2. CASE e[1] = UserFile
    <3>1. IsFile(ss.vol, UserFile)
      BY <1>1, <2>2 DEF Kept, Holds, IsFile
    <3> QED
      BY <1>3, <2>2, <3>1 DEF Kept, Wrote
  <2> QED
    BY <2>1, <2>2
<1> QED
  BY <1>2, <1>3 DEF StoreDone

LEMMA BoundsKept == ASSUME Bounds, SessNext PROVE Bounds'
<1>1. io' \in IoType
  <2>1. Working \in IoType
    BY SessionAssumption DEF Working, IoType
  <2>2. [Working EXCEPT !.r = FALSE, !.u = FALSE] \in IoType /\ [Working EXCEPT !.u = FALSE] \in IoType
    BY <2>1 DEF IoType
  <2>3. \A how \in {"none", "data"} : [Working EXCEPT !.w = how] \in IoType
    BY <2>1 DEF IoType
  <2>4. \A n \in 0 .. LIST_MAX - 1 : [Working EXCEPT !.list = n] \in IoType
    <3>1. \A n \in 0 .. LIST_MAX - 1 : n \in 0 .. LIST_MAX
      BY SessionAssumption
    <3> QED
      BY <2>1, <3>1 DEF IoType
  <2> QED
    BY <2>1, <2>2, <2>3, <2>4 DEF SessNext, DiskNext
<1>2. faults' \in 0 .. MaxFaults
  BY SessionAssumption DEF SessNext, DiskNext, Bounds
<1>3. rounds' \in 0 .. MaxRounds
  BY SessionAssumption DEF SessNext, Bounds
<1> QED
  BY <1>1, <1>2, <1>3 DEF Bounds

\* A step is a round, the end of one, or a boot.
LEMMA StepIs ==
  ASSUME Whole(ss), SessNext
  PROVE  \/ Moved
         \/ /\ ~ss.on /\ Whole(ss') /\ saved' = saved /\ StoreDone(ss, ss')
            /\ ss.lostusers \/ ~io.u => ss'.lostusers
<1>1. CASE Boot
  BY <1>1, BootMoves DEF Boot
<1>2. CASE PowerLoss
  BY <1>2, OffMoves DEF PowerLoss
<1>3. CASE ss.on /\ (Keys \/ Clicks)
  BY <1>3, RoundMoves
<1> QED
  BY <1>1, <1>2, <1>3 DEF SessNext

LEMMA SessStep == ASSUME SessInv, [SessNext]_vars PROVE SessInv'
<1>1. CASE SessNext
  <2>1. Bounds'
    BY <1>1, BoundsKept DEF SessInv
  <2>2. CASE Moved
    BY <2>1, <2>2, RoundKeeps DEF SessInv, Moved
  <2>3. CASE /\ ~ss.on /\ Whole(ss') /\ saved' = saved /\ StoreDone(ss, ss')
             /\ ss.lostusers \/ ~io.u => ss'.lostusers
    BY <2>1, <2>3, BootKeeps DEF SessInv
  <2> QED
    BY <1>1, <2>2, <2>3, StepIs DEF SessInv
<1>2. CASE UNCHANGED vars
  BY <1>2 DEF SessInv, Bounds, AllKept, vars
<1> QED
  BY <1>1, <1>2

\* The invariant that the others rest on.
THEOREM SessionInvariant == SessSpec => []SessInv
<1>1. SessInit => SessInv
  BY SessInitial
<1>2. SessInv /\ [SessNext]_vars => SessInv'
  BY SessStep
<1> QED
  BY <1>1, <1>2, PTL DEF SessSpec

\* Through menus, prompts, logins, faults of the disk, power losses and boots a
\* file holds what it was last saved with, for any number of rounds and faults:
\* also when the disk takes the data of another file and refuses its entry, which
\* tears that other file only.  USERS.TXT is written anew by a boot that could
\* not read it.
THEOREM SessionKeepsFiles == SessSpec => []SavedStays
<1>1. SessInv => SavedStays
  <2> SUFFICES ASSUME SessInv, NEW e \in saved
               PROVE  \/ IsFile(ss.vol, e[1]) /\ DataAt(ss.vol, e[1]) = e[2]
                      \/ e[1] = UserFile /\ ss.lostusers
    BY DEF SavedStays
  <2>1. Kept(ss, e) /\ Volume(ss.vol)
    BY DEF SessInv, AllKept, Whole, Core
  <2> QED
    BY <2>1, HoldsIs DEF Kept
<1> QED
  BY <1>1, SessionInvariant, PTL

\* The icons are those of the entries of the user's own directory that the last
\* refresh could read, LIST_MAX of them at most, and the keys act on one of them,
\* whatever was saved, deleted or mounted in between; but for directories that a
\* failed write has made since.
THEOREM SessionDesktop == SessSpec => []DesktopSound
<1>1. SessInv => DesktopSound
  <2> SUFFICES ASSUME SessInv PROVE DesktopSound
    OBVIOUS
  <2>1. Core(ss) /\ Shown(ss) /\ Accounts(ss) /\ Bounds
    BY DEF SessInv, Whole
  <2>2. SessTypeOK
    BY <2>1 DEF SessTypeOK, Core, Np, Fw, Icons, Rest, Accounts, Bounds, IoType
  <2>3. IconsAreFiles
    BY <2>1 DEF IconsAreFiles, Shown
  <2> QED
    BY <2>2, <2>3 DEF DesktopSound
<1> QED
  BY <1>1, SessionInvariant, PTL

\* Delete empties the file that the user has selected, and no other step empties
\* any.
THEOREM SessionDeletes == SessSpec => DeleteIsAimed
<1>1. ASSUME SessInv, SessNext, NEW e \in saved, IsFile(ss.vol, e[1]), e[2] # Zero, DataAt(ss'.vol, e[1]) = Zero
      PROVE  Aimed(e[1])
  <2>1. Kept(ss, e) /\ Whole(ss) /\ DefaultBody # Zero /\ Torn # Zero
    BY <1>1 DEF SessInv, AllKept, DefaultBody, Zero, Torn
  <2>2. PICK x : Holds(ss.vol, e[1], x) /\ x # Zero
    BY <1>1, <2>1 DEF Kept
  <2>3. Volume(ss'.vol)
    BY <1>1, <2>1, StepIs DEF Moved, Whole, Core
  <2>4. \A d : Holds(ss'.vol, e[1], d) => d = Zero
    BY <1>1, <2>3, HoldsIs
  <2>5. ~SameFiles(ss.vol, ss'.vol)
    BY <2>2, <2>4 DEF SameFiles
  <2>6. ~StoreDone(ss, ss')
    BY <2>1, <2>2, <2>4, <2>5 DEF StoreDone, Wrote
  <2>7. Moved
    BY <1>1, <2>1, <2>6, StepIs
  <2>8. PICK p, d : Wrote(ss.vol, ss'.vol, p, d) /\ (d = Zero => Aimed(p))
    BY <2>5, <2>7 DEF Moved, Files
  <2>9. e[1] = p
    BY <2>2, <2>4, <2>8 DEF Wrote
  <2> QED
    BY <2>4, <2>8, <2>9 DEF Wrote
<1>2. SessInv /\ [SessNext]_vars =>
        [\A e \in saved : IsFile(ss.vol, e[1]) /\ e[2] # Zero /\ DataAt(ss'.vol, e[1]) = Zero =>
           \/ e[1] \in {ss.chosen, ss.fw.chosen}
           \/ ss.fw.open /\ ss.front = "fw" /\ ss.fw.path # ss.fw.listed]_vars
  BY <1>1 DEF Aimed
<1> QED
  BY <1>2, SessionInvariant, PTL DEF SessSpec, DeleteIsAimed

\* A login shows the directories of the user who logs in and no document that
\* was open before.
THEOREM SessionLogins == SessSpec => LoginShowsOwn
<1>1. SessInv /\ [SessNext]_vars =>
        [ss.on /\ ss'.on /\ ss.login /\ ~ss'.login =>
           LET u == Upper[ss.users[ss.lsel].name]
           IN  /\ ss'.ddir = Desk(u) /\ ss'.pdir = Prog(u)
               /\ ss'.fw.open /\ ~ss'.fw.min /\ ss'.fw.path = Desk(u) /\ ~ss'.np.open]_vars
  <2> SUFFICES ASSUME SessInv, SessNext, ss.on, ss.login, ~ss'.login
               PROVE  LET u == Upper[ss.users[ss.lsel].name]
                      IN  /\ ss'.ddir = Desk(u) /\ ss'.pdir = Prog(u)
                          /\ ss'.fw.open /\ ~ss'.fw.min /\ ss'.fw.path = Desk(u) /\ ~ss'.np.open
    OBVIOUS
  <2>1. Moved
    BY StepIs DEF SessInv
  <2>2. ShowsOwn(ss', Upper[ss.users[ss.lsel].name])
    BY <2>1 DEF Moved
  <2> QED
    BY <2>2 DEF ShowsOwn
<1> QED
  BY <1>1, SessionInvariant, PTL DEF SessSpec, LoginShowsOwn
=============================================================================
