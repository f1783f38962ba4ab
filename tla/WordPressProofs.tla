--------------------------- MODULE WordPressProofs ---------------------------
(***************************************************************************)
(* Proofs about the administration of the nodes in WordPress, for any      *)
(* number of web requests, agents and credentials and for every list the   *)
(* plugin may start from: the types, who may hold a credential, what a     *)
(* pairing leaves behind, how a deleted node comes back, and the log.      *)
(*                                                                         *)
(* A request is its history of copies, and the proof is about histories.   *)
(* The operations of the registry keep a history within a set of entries,  *)
(* a set of settings and a set of logs, of which only a few closures are   *)
(* asked (Closed).  What a step does without writing an option is then one *)
(* statement for all operations (Effect): the history goes on within every *)
(* closed set it was in, and takes one entry of the log at its end.  Each  *)
(* property is an invariant over closed sets of its own:                   *)
(*   WInv      all entries but those with ids that are made later          *)
(*   OwnInv    entries and settings whose credential is of their endpoint  *)
(*   DelInv    entries and settings without the deleted node               *)
(*   AudInv    all entries, and the one log that is stored                 *)
(* SoloInv says where the options are when requests do not overlap.        *)
(***************************************************************************)
EXTENDS IdentityProofs, SequenceTheorems, WellFoundedInduction

(* Induction up to n, with the set of numbers a claim holds of.              *)
LEMMA UpTo ==
    ASSUME NEW n \in Nat, NEW T, 0 \in T, \A i \in 1..n : i - 1 \in T => i \in T
    PROVE  \A i \in 0..n : i \in T
<1> DEFINE Bad == {i \in 0..n : i \notin T}
<1> SUFFICES ASSUME Bad # {} PROVE FALSE
  OBVIOUS
<1>1. IsWellFoundedOn(OpToRel(<, Nat), Nat)
  BY NatLessThanWellFounded
<1>2. Bad \subseteq Nat
  OBVIOUS
<1> HIDE DEF Bad
<1>3. PICK x \in Bad : \A y \in Bad : ~(<<y, x>> \in OpToRel(<, Nat))
  BY <1>1, <1>2, WFMin
<1>4. x \in 0..n /\ x \notin T
  BY DEF Bad
<1>5. x - 1 \in Bad
  BY <1>4 DEF Bad
<1>6. x - 1 < x /\ x - 1 \in Nat /\ x \in Nat
  BY <1>2, <1>4, <1>5
<1>7. <<x - 1, x>> \in OpToRel(<, Nat)
  BY <1>6 DEF OpToRel
<1> QED
  BY <1>3, <1>5, <1>7

(* What Without() computes, one entry after the other.                       *)
Keeps(s, id, g, m) ==
    g = [i \in 0..m |-> IF i = 0 THEN <<>>
                        ELSE IF s[i].id = id THEN g[i - 1] ELSE Append(g[i - 1], s[i])]

(* The definition of Without(), with its recursive function named.            *)
LEMMA WithoutDef ==
    ASSUME NEW N, NEW s \in Seq(N), NEW id
    PROVE  \E g : Keeps(s, id, g, Len(s)) /\ Without(s, id) = g[Len(s)]
<1> DEFINE T == {m \in 0..Len(s) : \E g : Keeps(s, id, g, m)}
<1>1. Len(s) \in Nat
  OBVIOUS
<1>2. 0 \in T
  <2> DEFINE g == [i \in 0..0 |-> <<>>]
  <2>1. Keeps(s, id, g, 0)
    BY DEF Keeps
  <2> QED
    BY <1>1, <2>1
<1>3. ASSUME NEW m \in 1..Len(s), m - 1 \in T PROVE m \in T
  <2>1. PICK f : Keeps(s, id, f, m - 1)
    BY <1>3
  <2> DEFINE top == IF s[m].id = id THEN f[m - 1] ELSE Append(f[m - 1], s[m])
             g == [i \in 0..m |-> IF i = m THEN top ELSE f[i]]
  <2>2. \A i \in 0..(m - 1) : g[i] = f[i]
    BY <1>1
  <2>3. f = [i \in 0..(m - 1) |-> IF i = 0 THEN <<>>
                                  ELSE IF s[i].id = id THEN f[i - 1] ELSE Append(f[i - 1], s[i])]
    BY <2>1 DEF Keeps
  <2>4. \A i \in 0..m : g[i] = IF i = 0 THEN <<>>
                               ELSE IF s[i].id = id THEN g[i - 1] ELSE Append(g[i - 1], s[i])
    <3> SUFFICES ASSUME NEW i \in 0..m
                 PROVE g[i] = IF i = 0 THEN <<>>
                               ELSE IF s[i].id = id THEN g[i - 1] ELSE Append(g[i - 1], s[i])
      OBVIOUS
    <3>1. CASE i = m
      <4>1. g[m] = top /\ g[m - 1] = f[m - 1]
        BY <2>2
      <4> QED
        BY <3>1, <4>1
    <3>2. CASE i # m
      <4>1. i \in 0..(m - 1) /\ g[i] = f[i]
        BY <1>1, <3>2
      <4>2. i # 0 => g[i - 1] = f[i - 1]
        BY <1>1, <3>2, <2>2
      <4>3. f[i] = IF i = 0 THEN <<>>
                   ELSE IF s[i].id = id THEN f[i - 1] ELSE Append(f[i - 1], s[i])
        BY <2>3, <4>1
      <4> QED
        BY <4>1, <4>2, <4>3
    <3> QED
      BY <3>1, <3>2
  <2>5. g = [i \in 0..m |-> g[i]]
    OBVIOUS
  <2> HIDE DEF g
  <2>6. Keeps(s, id, g, m)
    BY <2>4, <2>5 DEF Keeps
  <2> QED
    BY <2>6
<1> HIDE DEF T
<1>4. Len(s) \in T
  <2>1. \A i \in 0..Len(s) : i \in T
    BY <1>1, <1>2, <1>3, UpTo, Zenon
  <2> QED
    BY <1>1, <2>1
<1>5. \E g : Keeps(s, id, g, Len(s))
  BY <1>4 DEF T
<1> DEFINE kept == CHOOSE g : Keeps(s, id, g, Len(s))
<1>6. Keeps(s, id, kept, Len(s))
  BY <1>5
<1>7. Without(s, id) = kept[Len(s)]
  BY DEF Without, Keeps
<1> QED
  BY <1>6, <1>7

(* f holds the entries of s up to i that do not have the id.                 *)
Rest(N, s, id, f, i) ==
    /\ f \in Seq(N)
    /\ \A k \in 1..Len(f) : \E j \in 1..i : f[k] = s[j] /\ s[j].id # id
    /\ \A j \in 1..i : s[j].id # id => \E k \in 1..Len(f) : f[k] = s[j]
    /\ Unique(s) => \A k, l \in 1..Len(f) : f[k].id = f[l].id => k = l
    /\ (\A j \in 1..i : s[j].id # id) => Len(f) = i /\ \A j \in 1..i : f[j] = s[j]

(* Every prefix is treated in this way.                                       *)
LEMMA KeptFacts ==
    ASSUME NEW N, NEW s \in Seq(N), NEW id
    PROVE  \E g : /\ Without(s, id) = g[Len(s)]
                  /\ \A i \in 0..Len(s) : Rest(N, s, id, g[i], i)
                  /\ \A i \in 1..Len(s) : s[i].id = id => g[i] = g[i - 1]
<1>1. PICK g : Keeps(s, id, g, Len(s)) /\ Without(s, id) = g[Len(s)]
  BY WithoutDef
<1>2. Len(s) \in Nat /\ DOMAIN s = 1..Len(s)
  OBVIOUS
<1>3. /\ g[0] = <<>>
      /\ \A i \in 1..Len(s) : g[i] = IF s[i].id = id THEN g[i - 1] ELSE Append(g[i - 1], s[i])
  <2>1. \A i \in 0..Len(s) : g[i] = IF i = 0 THEN <<>>
                                     ELSE IF s[i].id = id THEN g[i - 1] ELSE Append(g[i - 1], s[i])
    BY <1>1 DEF Keeps
  <2> QED
    BY <1>2, <2>1
<1> DEFINE T == {i \in 0..Len(s) : Rest(N, s, id, g[i], i)}
<1>4. 0 \in T
  <2>1. g[0] \in Seq(N) /\ Len(g[0]) = 0
    BY <1>3
  <2>2. Rest(N, s, id, g[0], 0)
    BY <2>1 DEF Rest
  <2> QED
    BY <1>2, <2>2
<1>5. ASSUME NEW i \in 1..Len(s), i - 1 \in T PROVE i \in T
  <2>1. Rest(N, s, id, g[i - 1], i - 1) /\ s[i] \in N /\ i - 1 \in Nat
    BY <1>2, <1>5
  <2> SUFFICES Rest(N, s, id, g[i], i)
    BY <1>2
  <2>2. CASE s[i].id = id
    <3>1. g[i] = g[i - 1]
      BY <1>3, <2>2
    <3> QED
      BY <2>1, <2>2, <3>1 DEF Rest
  <2>3. CASE s[i].id # id
    <3> DEFINE a == g[i - 1]
               b == g[i]
    <3>1. b = Append(a, s[i])
      BY <1>3, <2>3
    <3>2. a \in Seq(N) /\ Len(a) \in Nat
      BY <2>1 DEF Rest
    <3>3. /\ b \in Seq(N) /\ Len(b) = Len(a) + 1
          /\ \A k \in 1..Len(a) : b[k] = a[k]
          /\ b[Len(a) + 1] = s[i]
      BY <2>1, <3>1, <3>2, AppendProperties
    <3>4. \A k \in 1..Len(b) : \E j \in 1..i : b[k] = s[j] /\ s[j].id # id
      <4> TAKE k \in 1..Len(b)
      <4>1. CASE k \in 1..Len(a)
        BY <2>1, <3>3, <4>1 DEF Rest
      <4>2. CASE k = Len(a) + 1
        BY <2>3, <3>3, <4>2
      <4> QED
        BY <3>2, <3>3, <4>1, <4>2, SMTT(40)
    <3>5. \A j \in 1..i : s[j].id # id => \E k \in 1..Len(b) : b[k] = s[j]
      <4> SUFFICES ASSUME NEW j \in 1..i, s[j].id # id PROVE \E k \in 1..Len(b) : b[k] = s[j]
        OBVIOUS
      <4>1. CASE j = i
        BY <3>2, <3>3, <4>1, SMTT(40)
      <4>2. CASE j # i
        <5>1. PICK k \in 1..Len(a) : a[k] = s[j]
          BY <2>1, <4>2 DEF Rest
        <5> QED
          BY <3>2, <3>3, <5>1
      <4> QED
        BY <4>1, <4>2
    <3>6. ASSUME Unique(s), NEW k \in 1..Len(b), NEW l \in 1..Len(b), b[k].id = b[l].id PROVE k = l
      <4>1. \A m \in 1..Len(a) : a[m].id # s[i].id
        <5> TAKE m \in 1..Len(a)
        <5>1. PICK j \in 1..(i - 1) : a[m] = s[j]
          BY <2>1 DEF Rest
        <5>2. j \in DOMAIN s /\ i \in DOMAIN s /\ j # i
          BY <1>2
        <5>3. s[j].id # s[i].id
          BY <3>6, <5>2 DEF Unique
        <5> QED
          BY <5>1, <5>3
      <4>2. CASE k \in 1..Len(a) /\ l \in 1..Len(a)
        BY <2>1, <3>3, <3>6, <4>2 DEF Rest
      <4>3. CASE k = Len(a) + 1 /\ l \in 1..Len(a)
        BY <3>3, <3>6, <4>1, <4>3
      <4>4. CASE k \in 1..Len(a) /\ l = Len(a) + 1
        BY <3>3, <3>6, <4>1, <4>4
      <4> QED
        BY <3>2, <3>3, <4>2, <4>3, <4>4, SMTT(40)
    <3>7. (\A j \in 1..i : s[j].id # id) => Len(b) = i /\ \A j \in 1..i : b[j] = s[j]
      <4> SUFFICES ASSUME \A j \in 1..i : s[j].id # id
                   PROVE Len(b) = i /\ \A j \in 1..i : b[j] = s[j]
        OBVIOUS
      <4>1. Len(a) = i - 1 /\ \A j \in 1..(i - 1) : a[j] = s[j]
        BY <2>1 DEF Rest
      <4> QED
        BY <1>2, <3>3, <4>1
    <3> QED
      BY <3>3, <3>4, <3>5, <3>6, <3>7 DEF Rest
  <2> QED
    BY <2>2, <2>3
<1>6. \A i \in 0..Len(s) : i \in T
  <2> HIDE DEF T
  <2> QED
    BY <1>2, <1>4, <1>5, UpTo, Zenon
<1> QED
  BY <1>1, <1>3, <1>6

(* What Without() returns: the other entries, each as often as before.       *)
LEMMA WithoutFacts ==
    ASSUME NEW N, NEW s \in Seq(N), NEW id
    PROVE  LET w == Without(s, id)
           IN  /\ w \in Seq(N)
               /\ \A k \in DOMAIN w : \E j \in DOMAIN s : w[k] = s[j] /\ s[j].id # id
               /\ \A j \in DOMAIN s : s[j].id # id => \E k \in DOMAIN w : w[k] = s[j]
               /\ Unique(s) => Unique(w)
               /\ (\A j \in DOMAIN s : s[j].id # id) => w = s
<1> DEFINE n == Len(s)
<1>1. PICK g : /\ Without(s, id) = g[Len(s)]
               /\ \A i \in 0..Len(s) : Rest(N, s, id, g[i], i)
  BY KeptFacts
<1>2. Len(s) \in Nat /\ DOMAIN s = 1..Len(s)
  OBVIOUS
<1> DEFINE w == Without(s, id)
<1>7. Rest(N, s, id, w, n)
  BY <1>1, <1>2
<1>8. w \in Seq(N) /\ DOMAIN w = 1..Len(w)
  BY <1>7, SMTT(40) DEF Rest
<1>9. (\A j \in DOMAIN s : s[j].id # id) => w = s
  BY <1>2, <1>7, <1>8, SeqEqual, ZenonT(40) DEF Rest
<1>11. /\ \A k \in DOMAIN w : \E j \in DOMAIN s : w[k] = s[j] /\ s[j].id # id
       /\ \A j \in DOMAIN s : s[j].id # id => \E k \in DOMAIN w : w[k] = s[j]
       /\ Unique(s) => Unique(w)
  <2> HIDE DEF w
  <2>1. \A k \in 1..Len(w) : \E j \in 1..n : w[k] = s[j] /\ s[j].id # id
    BY <1>7 DEF Rest
  <2>2. \A j \in 1..n : s[j].id # id => \E k \in 1..Len(w) : w[k] = s[j]
    BY <1>7 DEF Rest
  <2>3. Unique(s) => \A k, l \in 1..Len(w) : w[k].id = w[l].id => k = l
    BY <1>7 DEF Rest
  <2> QED
    BY <1>2, <1>8, <2>1, <2>2, <2>3 DEF Unique
<1> HIDE DEF w, n
<1> QED
  BY <1>8, <1>9, <1>11 DEF w

(* An entry that was added last is taken back.                                *)
LEMMA WithoutLast ==
    ASSUME NEW N, NEW t \in Seq(N), NEW e \in N, NEW id, e.id = id, \A j \in DOMAIN t : t[j].id # id
    PROVE  Without(Append(t, e), id) = t
<1> DEFINE s == Append(t, e)
           n == Len(s)
<1>1. /\ s \in Seq(N) /\ Len(t) \in Nat /\ n = Len(t) + 1 /\ s[n] = e
      /\ \A j \in 1..Len(t) : s[j] = t[j]
  BY AppendProperties
<1> HIDE DEF s
<1>2. PICK g : /\ Without(s, id) = g[Len(s)]
               /\ \A i \in 0..Len(s) : Rest(N, s, id, g[i], i)
               /\ \A i \in 1..Len(s) : s[i].id = id => g[i] = g[i - 1]
  BY <1>1, KeptFacts
<1> DEFINE w == Without(s, id)
<1>3. w = g[n - 1] /\ n - 1 = Len(t) /\ n - 1 \in 0..n
  BY <1>1, <1>2
<1>4. Rest(N, s, id, w, n - 1)
  BY <1>2, <1>3
<1>5. \A j \in 1..(n - 1) : s[j].id # id
  BY <1>1, <1>3
<1>6. w \in Seq(N) /\ Len(w) = Len(t) /\ \A j \in 1..Len(t) : w[j] = t[j]
  BY <1>1, <1>3, <1>4, <1>5, SMTT(40) DEF Rest
<1> HIDE DEF w
<1>7. w = t
  BY <1>6, SeqEqual
<1> QED
  BY <1>7 DEF w, s

-----------------------------------------------------------------------------
(* Copies with nodes of N, settings of S and logs of L, and histories of them. *)
(* No id of the options of the former name is one that a request makes.        *)
Others(D) == {n \in Entries : n.id \notin D}
Lists(N) == {s \in Seq(N) : Unique(s)}
Logs == {s \in Seq(Requests) : Len(s) <= AuditMax}
Olds == [nodes : Lists(Others(NewIds)), active : NodeIds \cup {None}]
CopiesOf(N, S, L) ==
    {v \in [nodes : Lists(N), active : NodeIds \cup {None}, settings : S, audit : L, old : Olds] :
        All(v) \in Lists(N)}

History(h, N, S, L) == h \in Seq(CopiesOf(N, S, L)) /\ h # <<>>

(* Neighbours differ in one option; and what the operations do to a history.  *)
Differ(v, w) == \E o \in Options : \E x : v[o] # x /\ w = [v EXCEPT ![o] = x]
OneByOne(h) == /\ \A i \in 1..(Len(h) - 1) : Differ(h[i], h[i + 1])
               /\ \A i \in 1..Len(h) : h[i].old = h[1].old
Continues(h, g) == g[1] = h[1] /\ (OneByOne(h) => OneByOne(g))

(* One continuation after another is one.                                     *)
LEMMA ContinuesOn == ASSUME NEW f, NEW g, NEW h, Continues(f, g), Continues(g, h) PROVE Continues(f, h)
BY DEF Continues

(* Every write of an option keeps a history within the sets its copies are    *)
(* of.                                                                        *)
LEMMA PutOk ==
    ASSUME NEW N, NEW S, NEW L, NEW h, History(h, N, S, L), NEW o \in Options, NEW x,
           [Now(h) EXCEPT ![o] = x] \in CopiesOf(N, S, L)
    PROVE  /\ History(Put(h, o, x), N, S, L)
           /\ Now(Put(h, o, x)) = [Now(h) EXCEPT ![o] = x]
           /\ Continues(h, Put(h, o, x))
<1> DEFINE v == Now(h)
           w == [v EXCEPT ![o] = x]
           g == Put(h, o, x)
<1>1. Len(h) \in Nat /\ Len(h) > 0 /\ v \in CopiesOf(N, S, L) /\ v = h[Len(h)]
  BY DEF History, Now
<1>2. CASE v[o] = x
  <2>1. g = h
    BY <1>2 DEF Put
  <2>2. w = v
    <3>1. v = [k \in DOMAIN v |-> v[k]]
      BY <1>1 DEF CopiesOf
    <3> QED
      BY <1>2, <3>1
  <2> QED
    BY <2>1, <2>2 DEF Continues
<1>3. CASE v[o] # x
  <2>1. g = Append(h, w)
    BY <1>3 DEF Put
  <2>2. w \in CopiesOf(N, S, L) /\ h \in Seq(CopiesOf(N, S, L))
    BY DEF History
  <2>3. Differ(v, w)
    BY <1>3 DEF Differ
  <2>3a. w.old = v.old
    BY <1>1 DEF CopiesOf, Options
  <2> HIDE DEF v, w
  <2>4. /\ g \in Seq(CopiesOf(N, S, L)) /\ Len(g) = Len(h) + 1
        /\ g[Len(h) + 1] = w /\ \A i \in 1..Len(h) : g[i] = h[i]
    BY <2>1, <2>2, AppendProperties
  <2> HIDE DEF g
  <2>5. History(g, N, S, L) /\ Now(g) = w /\ g[1] = h[1]
    BY <1>1, <2>4 DEF History, Now
  <2>7. ASSUME OneByOne(h), NEW i \in 1..Len(g) PROVE g[i].old = g[1].old
    <3>1. \A j \in 1..Len(h) : h[j].old = h[1].old
      BY <2>7 DEF OneByOne
    <3>2. i \in 1..Len(h) \/ i = Len(h) + 1
      BY <1>1, <2>4
    <3> QED
      BY <1>1, <2>3a, <2>4, <2>5, <3>1, <3>2
  <2>6. OneByOne(h) => OneByOne(g)
    <3> SUFFICES ASSUME OneByOne(h), NEW i \in 1..(Len(g) - 1) PROVE Differ(g[i], g[i + 1])
      BY <2>7 DEF OneByOne
    <3>1. CASE i = Len(h)
      BY <1>1, <2>3, <2>4, <3>1
    <3>2. CASE i # Len(h)
      <4>1. i \in 1..(Len(h) - 1) /\ g[i] = h[i] /\ g[i + 1] = h[i + 1]
        BY <1>1, <2>4, <3>2
      <4> QED
        BY <4>1 DEF OneByOne
    <3> QED
      BY <3>1, <3>2
  <2> QED
    BY <2>5, <2>6 DEF v, w, g, Continues
<1> QED
  BY <1>2, <1>3

(* The lists a copy may take: an empty one gives way to the former name's.    *)
ListsFor(N, v) == {s \in Lists(N) : s # <<>> \/ v.old.nodes \in Lists(N)}

(* One option of a copy is replaced.                                          *)
LEMMA Replaced ==
    ASSUME NEW N, NEW S, NEW L, NEW v \in CopiesOf(N, S, L)
    PROVE  /\ \A x \in ListsFor(N, v) : LET w == [v EXCEPT !["nodes"] = x]
                                  IN  /\ w \in CopiesOf(N, S, L) /\ w.nodes = x /\ w.active = v.active
                                      /\ w.settings = v.settings /\ w.audit = v.audit /\ w.old = v.old
           /\ \A x \in NodeIds \cup {None} : LET w == [v EXCEPT !["active"] = x]
                                  IN  /\ w \in CopiesOf(N, S, L) /\ w.nodes = v.nodes /\ w.active = x
                                      /\ w.settings = v.settings /\ w.audit = v.audit /\ w.old = v.old
           /\ \A x \in S : LET w == [v EXCEPT !["settings"] = x]
                                  IN  /\ w \in CopiesOf(N, S, L) /\ w.nodes = v.nodes /\ w.active = v.active
                                      /\ w.settings = x /\ w.audit = v.audit /\ w.old = v.old
           /\ \A x \in L : LET w == [v EXCEPT !["audit"] = x]
                                  IN  /\ w \in CopiesOf(N, S, L) /\ w.nodes = v.nodes /\ w.active = v.active
                                      /\ w.settings = v.settings /\ w.audit = x /\ w.old = v.old
<1>1. /\ v.nodes \in Lists(N) /\ v.active \in NodeIds \cup {None} /\ v.settings \in S /\ v.audit \in L
      /\ v.old \in Olds /\ All(v) \in Lists(N)
      /\ v = [nodes |-> v.nodes, active |-> v.active, settings |-> v.settings, audit |-> v.audit,
              old |-> v.old]
  BY DEF CopiesOf
<1>2. ASSUME NEW x \in ListsFor(N, v)
      PROVE  LET w == [v EXCEPT !["nodes"] = x]
             IN  /\ w \in CopiesOf(N, S, L) /\ w.nodes = x /\ w.active = v.active
                 /\ w.settings = v.settings /\ w.audit = v.audit /\ w.old = v.old
  BY <1>1, <1>2 DEF CopiesOf, ListsFor, All
<1>3. ASSUME NEW x \in NodeIds \cup {None}
      PROVE  LET w == [v EXCEPT !["active"] = x]
             IN  /\ w \in CopiesOf(N, S, L) /\ w.nodes = v.nodes /\ w.active = x
                 /\ w.settings = v.settings /\ w.audit = v.audit /\ w.old = v.old
  BY <1>1, <1>3 DEF CopiesOf, All
<1>4. ASSUME NEW x \in S
      PROVE  LET w == [v EXCEPT !["settings"] = x]
             IN  /\ w \in CopiesOf(N, S, L) /\ w.nodes = v.nodes /\ w.active = v.active
                 /\ w.settings = x /\ w.audit = v.audit /\ w.old = v.old
  BY <1>1, <1>4 DEF CopiesOf, All
<1>5. ASSUME NEW x \in L
      PROVE  LET w == [v EXCEPT !["audit"] = x]
             IN  /\ w \in CopiesOf(N, S, L) /\ w.nodes = v.nodes /\ w.active = v.active
                 /\ w.settings = v.settings /\ w.audit = x /\ w.old = v.old
  BY <1>1, <1>5 DEF CopiesOf, All
<1> QED
  BY <1>2, <1>3, <1>4, <1>5

(* Put() of each option.                                                      *)
LEMMA Puts ==
    ASSUME NEW N, NEW S, NEW L, NEW h, History(h, N, S, L)
    PROVE  LET v == Now(h)
           IN  /\ v \in CopiesOf(N, S, L)
               /\ \A x \in ListsFor(N, v) : LET g == Put(h, "nodes", x)
                       IN  /\ History(g, N, S, L) /\ Continues(h, g)
                           /\ Now(g).nodes = x /\ Now(g).active = v.active
                           /\ Now(g).settings = v.settings /\ Now(g).audit = v.audit /\ Now(g).old = v.old
               /\ \A x \in NodeIds \cup {None} : LET g == Put(h, "active", x)
                       IN  /\ History(g, N, S, L) /\ Continues(h, g)
                           /\ Now(g).nodes = v.nodes /\ Now(g).active = x
                           /\ Now(g).settings = v.settings /\ Now(g).audit = v.audit /\ Now(g).old = v.old
               /\ \A x \in S : LET g == Put(h, "settings", x)
                       IN  /\ History(g, N, S, L) /\ Continues(h, g)
                           /\ Now(g).nodes = v.nodes /\ Now(g).active = v.active
                           /\ Now(g).settings = x /\ Now(g).audit = v.audit /\ Now(g).old = v.old
               /\ \A x \in L : LET g == Put(h, "audit", x)
                       IN  /\ History(g, N, S, L) /\ Continues(h, g)
                           /\ Now(g).nodes = v.nodes /\ Now(g).active = v.active
                           /\ Now(g).settings = v.settings /\ Now(g).audit = x /\ Now(g).old = v.old
<1> DEFINE v == Now(h)
<1>1. v \in CopiesOf(N, S, L)
  BY DEF History, Now
<1>2. {"nodes", "active", "settings", "audit"} = Options
  BY DEF Options
<1> HIDE DEF v
<1>3. ASSUME NEW x \in ListsFor(N, v)
      PROVE  LET g == Put(h, "nodes", x)
             IN  /\ History(g, N, S, L) /\ Continues(h, g)
                 /\ Now(g).nodes = x /\ Now(g).active = v.active
                 /\ Now(g).settings = v.settings /\ Now(g).audit = v.audit /\ Now(g).old = v.old
  <2> DEFINE w == [v EXCEPT !["nodes"] = x]
  <2>1. /\ w \in CopiesOf(N, S, L) /\ w.nodes = x /\ w.active = v.active
        /\ w.settings = v.settings /\ w.audit = v.audit /\ w.old = v.old
    BY <1>1, Replaced
  <2>2. [Now(h) EXCEPT !["nodes"] = x] \in CopiesOf(N, S, L) /\ "nodes" \in Options
    BY <1>2, <2>1 DEF v
  <2> DEFINE g == Put(h, "nodes", x)
  <2>3. History(g, N, S, L) /\ Now(g) = w /\ Continues(h, g)
    BY <2>2, PutOk DEF v
  <2> HIDE DEF w, g
  <2>4. QED
    BY <2>1, <2>3 DEF g
<1>4. ASSUME NEW x \in NodeIds \cup {None}
      PROVE  LET g == Put(h, "active", x)
             IN  /\ History(g, N, S, L) /\ Continues(h, g)
                 /\ Now(g).nodes = v.nodes /\ Now(g).active = x
                 /\ Now(g).settings = v.settings /\ Now(g).audit = v.audit /\ Now(g).old = v.old
  <2> DEFINE w == [v EXCEPT !["active"] = x]
  <2>1. /\ w \in CopiesOf(N, S, L) /\ w.nodes = v.nodes /\ w.active = x
        /\ w.settings = v.settings /\ w.audit = v.audit /\ w.old = v.old
    BY <1>1, Replaced
  <2>2. [Now(h) EXCEPT !["active"] = x] \in CopiesOf(N, S, L) /\ "active" \in Options
    BY <1>2, <2>1 DEF v
  <2> DEFINE g == Put(h, "active", x)
  <2>3. History(g, N, S, L) /\ Now(g) = w /\ Continues(h, g)
    BY <2>2, PutOk DEF v
  <2> HIDE DEF w, g
  <2>4. QED
    BY <2>1, <2>3 DEF g
<1>5. ASSUME NEW x \in S
      PROVE  LET g == Put(h, "settings", x)
             IN  /\ History(g, N, S, L) /\ Continues(h, g)
                 /\ Now(g).nodes = v.nodes /\ Now(g).active = v.active
                 /\ Now(g).settings = x /\ Now(g).audit = v.audit /\ Now(g).old = v.old
  <2> DEFINE w == [v EXCEPT !["settings"] = x]
  <2>1. /\ w \in CopiesOf(N, S, L) /\ w.nodes = v.nodes /\ w.active = v.active
        /\ w.settings = x /\ w.audit = v.audit /\ w.old = v.old
    BY <1>1, Replaced
  <2>2. [Now(h) EXCEPT !["settings"] = x] \in CopiesOf(N, S, L) /\ "settings" \in Options
    BY <1>2, <2>1 DEF v
  <2> DEFINE g == Put(h, "settings", x)
  <2>3. History(g, N, S, L) /\ Now(g) = w /\ Continues(h, g)
    BY <2>2, PutOk DEF v
  <2> HIDE DEF w, g
  <2>4. QED
    BY <2>1, <2>3 DEF g
<1>6. ASSUME NEW x \in L
      PROVE  LET g == Put(h, "audit", x)
             IN  /\ History(g, N, S, L) /\ Continues(h, g)
                 /\ Now(g).nodes = v.nodes /\ Now(g).active = v.active
                 /\ Now(g).settings = v.settings /\ Now(g).audit = x /\ Now(g).old = v.old
  <2> DEFINE w == [v EXCEPT !["audit"] = x]
  <2>1. /\ w \in CopiesOf(N, S, L) /\ w.nodes = v.nodes /\ w.active = v.active
        /\ w.settings = v.settings /\ w.audit = x /\ w.old = v.old
    BY <1>1, Replaced
  <2>2. [Now(h) EXCEPT !["audit"] = x] \in CopiesOf(N, S, L) /\ "audit" \in Options
    BY <1>2, <2>1 DEF v
  <2> DEFINE g == Put(h, "audit", x)
  <2>3. History(g, N, S, L) /\ Now(g) = w /\ Continues(h, g)
    BY <2>2, PutOk DEF v
  <2> HIDE DEF w, g
  <2>4. QED
    BY <2>1, <2>3 DEF g
<1> QED
  BY <1>1, <1>3, <1>4, <1>5, <1>6 DEF v

-----------------------------------------------------------------------------
(* The operations of the registry.  Makes: migration makes entries of N.      *)
Makes(N, S, id) ==
    \A s \in S : s.url # None => Node(IF s.node = None THEN id ELSE s.node, s.url, s.cred) \in N

(* migrate_legacy() keeps a history within a set that holds what it makes.    *)
LEMMA Migrates ==
    ASSUME NEW N, NEW S, NEW L, NEW h, History(h, N, S, L), S \subseteq SettingSet,
           NEW id \in NodeIds, Makes(N, S, id)
    PROVE  LET v == Now(h)
               w == Now(Migrate(h, id))
               i == IF v.settings.node = None THEN id ELSE v.settings.node
           IN  /\ History(Migrate(h, id), N, S, L) /\ Continues(h, Migrate(h, id))
               /\ w.settings = v.settings /\ w.audit = v.audit /\ w.old = v.old
               /\ v.nodes # <<>> \/ v.settings.url = None => Migrate(h, id) = h
               /\ v.nodes = <<>> /\ v.settings.url # None =>
                    w.nodes = <<Node(i, v.settings.url, v.settings.cred)>> /\ w.active = i
<1> DEFINE v == Now(h)
           i == IF v.settings.node = None THEN id ELSE v.settings.node
           n == Node(i, v.settings.url, v.settings.cred)
           f == Put(h, "nodes", <<n>>)
           g == Put(f, "active", i)
<1>1. v \in CopiesOf(N, S, L)
  BY Puts
<1>2. CASE v.nodes # <<>> \/ v.settings.url = None
  BY <1>2 DEF Migrate, Continues
<1>3. CASE v.nodes = <<>> /\ v.settings.url # None
  <2>1. Migrate(h, id) = g
    BY <1>3 DEF Migrate
  <2>2. v.settings \in S /\ v.settings.node \in Agents \cup {None} /\ i \in NodeIds
    BY <1>1 DEF CopiesOf, SettingSet, NodeIds
  <2>3. n \in N
    BY <1>3, <2>2 DEF Makes
  <2> HIDE DEF n, i
  <2>4. <<n>> \in ListsFor(N, v)
    <3>1. <<n>> \in Seq(N) /\ DOMAIN <<n>> = {1}
      BY <2>3
    <3> QED
      BY <3>1 DEF ListsFor, Lists, Unique
  <2>5. /\ History(f, N, S, L) /\ Continues(h, f) /\ Now(f).nodes = <<n>>
        /\ Now(f).settings = v.settings /\ Now(f).audit = v.audit /\ Now(f).old = v.old
    BY <2>4, Puts
  <2> HIDE DEF f
  <2>6. /\ History(g, N, S, L) /\ Continues(f, g) /\ Now(g).nodes = <<n>> /\ Now(g).active = i
        /\ Now(g).settings = v.settings /\ Now(g).audit = v.audit /\ Now(g).old = v.old
    BY <2>2, <2>5, Puts, SMTT(40)
  <2>7. Continues(h, g)
    BY <2>5, <2>6, ContinuesOn
  <2> QED
    BY <1>3, <2>1, <2>6, <2>7 DEF i, n
<1> QED
  BY <1>2, <1>3

(* So does upsert(): one entry is replaced in its place, or appended.         *)
LEMMA Upserts ==
    ASSUME NEW N, NEW S, NEW L, NEW h, History(h, N, S, L), S \subseteq SettingSet,
           NEW id \in NodeIds, Makes(N, S, id), NEW n \in N
    PROVE  LET m == Migrate(h, id)
               g == Upsert(h, id, n)
               v == Now(m)
               w == Now(g)
           IN  /\ History(g, N, S, L) /\ Continues(h, g)
               /\ w.active = v.active /\ w.settings = v.settings /\ w.audit = v.audit /\ w.old = v.old
               /\ w.nodes # <<>>
               /\ n.id \in Ids(v) => /\ DOMAIN w.nodes = DOMAIN All(v)
                                     /\ \A i \in DOMAIN All(v) :
                                          w.nodes[i] = IF All(v)[i].id = n.id THEN n ELSE All(v)[i]
               /\ n.id \notin Ids(v) => w.nodes = Append(All(v), n)
<1> DEFINE m == Migrate(h, id)
           v == Now(m)
           all == All(v)
           x == IF n.id \in Ids(v)
                THEN [i \in DOMAIN all |-> IF all[i].id = n.id THEN n ELSE all[i]]
                ELSE Append(all, n)
           g == Put(m, "nodes", x)
<1>1. History(m, N, S, L) /\ Continues(h, m)
  BY Migrates
<1>2. Upsert(h, id, n) = g
  BY DEF Upsert, Ids
<1> HIDE DEF m
<1>3. all \in Seq(N) /\ Unique(all)
  BY <1>1, Puts DEF CopiesOf, Lists
<1>8. Ids(v) = {all[i].id : i \in DOMAIN all}
  BY DEF Ids, IdsOf
<1> HIDE DEF all
<1>4. x \in Lists(N) /\ x # <<>>
  <2>1. CASE n.id \in Ids(v)
    <3>1. x = [i \in 1..Len(all) |-> IF all[i].id = n.id THEN n ELSE all[i]]
      BY <1>3, <2>1
    <3>2. Len(all) \in Nat /\ \A i \in 1..Len(all) : all[i] \in N
      BY <1>3
    <3>3. x \in [1..Len(all) -> N]
      BY <3>1, <3>2
    <3>4. x \in Seq(N)
      BY <3>2, <3>3
    <3>5. DOMAIN x = DOMAIN all /\ \A i \in DOMAIN x : x[i].id = all[i].id
      BY <1>3, <3>1
    <3>6. x # <<>>
      BY <1>8, <2>1, <3>5
    <3> QED
      BY <1>3, <3>4, <3>5, <3>6 DEF Lists, Unique
  <2>2. CASE n.id \notin Ids(v)
    <3> DEFINE l == all
    <3>1. x = Append(l, n)
      BY <2>2
    <3>2. \A i \in DOMAIN l : l[i].id # n.id
      BY <1>8, <2>2
    <3> HIDE DEF l, v
    <3>3. /\ Append(l, n) \in Seq(N) /\ Append(l, n) # <<>> /\ Len(Append(l, n)) = Len(l) + 1 /\ Append(l, n)[Len(l) + 1] = n
          /\ \A i \in 1..Len(l) : Append(l, n)[i] = l[i]
      BY <1>3, AppendProperties DEF l
    <3>4. l \in Seq(N) /\ Unique(l)
      BY <1>3 DEF l
    <3>5. Unique(Append(l, n))
      BY <3>2, <3>3, <3>4 DEF Unique
    <3> HIDE DEF x
    <3>6. Append(l, n) \in Lists(N) /\ Append(l, n) # <<>>
      BY <3>3, <3>5 DEF Lists
    <3> QED
      BY <3>1, <3>6
  <2> QED
    BY <2>1, <2>2
<1>7. /\ n.id \notin Ids(v) => x = Append(all, n)
      /\ n.id \in Ids(v) => /\ DOMAIN x = DOMAIN all
                            /\ \A i \in DOMAIN all : x[i] = IF all[i].id = n.id THEN n ELSE all[i]
  BY <1>3
<1>9. x \in ListsFor(N, v)
  BY <1>4 DEF ListsFor
<1> HIDE DEF x
<1>5. /\ History(g, N, S, L) /\ Continues(m, g) /\ Now(g).nodes = x
      /\ Now(g).active = v.active /\ Now(g).settings = v.settings /\ Now(g).audit = v.audit
      /\ Now(g).old = v.old
  BY <1>1, <1>9, Puts
<1>6. Continues(h, g)
  BY <1>1, <1>5, ContinuesOn
<1> QED
  BY <1>2, <1>4, <1>5, <1>6, <1>7 DEF m, all

(* So does set_active().                                                      *)
LEMMA SetsActive ==
    ASSUME NEW N, NEW S, NEW L, NEW h, History(h, N, S, L), S \subseteq SettingSet, N \subseteq Entries,
           NEW made \in NodeIds, Makes(N, S, made), NEW id
    PROVE  LET m == Migrate(h, made)
               g == SetActive(h, made, id)
               w == Now(g)
           IN  /\ History(g, N, S, L) /\ Continues(h, g)
               /\ w.settings = Now(h).settings /\ w.audit = Now(h).audit /\ w.old = Now(h).old
               /\ id = None => w.nodes = Now(h).nodes /\ w.active = None
               /\ id # None => w.nodes = Now(m).nodes
               /\ id # None /\ id \in Ids(Now(m)) => w.active = id
               /\ id # None /\ id \notin Ids(Now(m)) => g = m
<1> DEFINE m == Migrate(h, made)
           g == Put(m, "active", id)
<1>1. /\ History(m, N, S, L) /\ Continues(h, m)
      /\ Now(m).settings = Now(h).settings /\ Now(m).audit = Now(h).audit
      /\ Now(m).old = Now(h).old
  BY Migrates
<1>2. CASE id = None
  <2>1. SetActive(h, made, id) = Put(h, "active", None)
    BY <1>2 DEF SetActive
  <2> QED
    BY <1>2, <2>1, Puts
<1>3. CASE id # None /\ id \in Ids(Now(m))
  <2>1. SetActive(h, made, id) = g
    BY <1>3 DEF SetActive
  <2> HIDE DEF m
  <2>2. Now(m) \in CopiesOf(N, S, L)
    BY <1>1, Puts
  <2>3. id \in NodeIds
    <3>1. PICK i \in DOMAIN All(Now(m)) : id = All(Now(m))[i].id
      BY <1>3 DEF Ids, IdsOf
    <3>2. All(Now(m)) \in Seq(Entries)
      BY <2>2 DEF CopiesOf, Lists
    <3>3. All(Now(m))[i] \in Entries
      BY <3>1, <3>2
    <3> QED
      BY <3>1, <3>3 DEF Entries
  <2>4. /\ History(g, N, S, L) /\ Continues(m, g) /\ Now(g).nodes = Now(m).nodes
        /\ Now(g).active = id /\ Now(g).settings = Now(m).settings /\ Now(g).audit = Now(m).audit
        /\ Now(g).old = Now(m).old
    BY <1>1, <2>3, Puts
  <2>5. Continues(h, g)
    BY <1>1, <2>4, ContinuesOn
  <2> QED
    BY <1>1, <1>3, <2>1, <2>4, <2>5 DEF m
<1>4. CASE id # None /\ id \notin Ids(Now(m))
  <2>1. SetActive(h, made, id) = m
    BY <1>4 DEF SetActive
  <2> QED
    BY <1>1, <1>4, <2>1
<1> QED
  BY <1>2, <1>3, <1>4

(* So does remove(): the entry is gone, and an active one handed over.  When   *)
(* nothing is left the option of the former name is read, which has to be of  *)
(* the set as well.                                                           *)
Spares(h, made, N, id) ==
    Without(All(Now(Migrate(h, made))), id) # <<>> \/ Now(h).old.nodes \in Lists(N)

LEMMA Removes ==
    ASSUME NEW N, NEW S, NEW L, NEW h, History(h, N, S, L), S \subseteq SettingSet, N \subseteq Entries,
           NEW made \in NodeIds, Makes(N, S, made), NEW id, Spares(h, made, N, id)
    PROVE  LET m == Migrate(h, made)
               v == Now(m)
               g == Remove(h, made, id)
               w == Now(g)
               rest == Without(All(v), id)
           IN  /\ History(g, N, S, L) /\ Continues(h, g)
               /\ w.settings = Now(h).settings /\ w.audit = Now(h).audit /\ w.old = Now(h).old
               /\ id \notin Ids(v) => g = m
               /\ id \in Ids(v) => /\ w.nodes = rest
                                   /\ w.active = IF ActiveId(v) # id THEN v.active
                                                 ELSE IF rest = <<>> THEN None ELSE rest[1].id
<1> DEFINE m == Migrate(h, made)
           v == Now(m)
           rest == Without(All(v), id)
           f == Put(m, "nodes", rest)
           next == IF rest = <<>> THEN None ELSE rest[1].id
           g == SetActive(f, made, next)
<1>1. /\ History(m, N, S, L) /\ Continues(h, m)
      /\ v.settings = Now(h).settings /\ v.audit = Now(h).audit /\ v.old = Now(h).old
  BY Migrates
<1>2. Remove(h, made, id) = IF id \notin Ids(v) THEN m ELSE IF ActiveId(Now(f)) # id THEN f ELSE g
  BY DEF Remove
<1>0. rest # <<>> \/ Now(h).old.nodes \in Lists(N)
  BY DEF Spares
<1> HIDE DEF m
<1>3. All(v) \in Seq(N) /\ Unique(All(v))
  BY <1>1, Puts DEF CopiesOf, Lists
<1>4. rest \in Seq(N) /\ Unique(rest)
  BY <1>3, WithoutFacts
<1>14. rest \in ListsFor(N, v)
  BY <1>0, <1>1, <1>4 DEF ListsFor, Lists
<1> HIDE DEF rest
<1>5. /\ History(f, N, S, L) /\ Continues(m, f) /\ Now(f).nodes = rest /\ Now(f).active = v.active
      /\ Now(f).settings = v.settings /\ Now(f).audit = v.audit /\ Now(f).old = v.old
  BY <1>1, <1>14, Puts
<1>15. ActiveId(Now(f)) = ActiveId(v)
  BY <1>5 DEF ActiveId
<1>6. Continues(h, f)
  BY <1>1, <1>5, ContinuesOn
<1> HIDE DEF f
<1>7. /\ History(g, N, S, L) /\ Continues(f, g) /\ Now(g).settings = v.settings /\ Now(g).audit = v.audit
      /\ Now(g).old = v.old /\ Now(g).nodes = rest /\ Now(g).active = next
  <2>1. CASE rest = <<>>
    <3>1. next = None
      BY <2>1
    <3> HIDE DEF next
    <3> QED
      BY <1>5, <3>1, SetsActive
  <2>2. CASE rest # <<>>
    <3>1. Migrate(f, made) = f
      BY <1>5, <2>2, Migrates
    <3>2. 1 \in DOMAIN rest /\ rest[1] \in Entries
      BY <1>4, <2>2
    <3>3. next = rest[1].id /\ next # None /\ next \in Ids(Now(f))
      BY <1>5, <2>2, <3>2, NoneAssumption DEF Ids, IdsOf, All, Entries
    <3> HIDE DEF next
    <3> QED
      BY <1>5, <3>1, <3>3, SetsActive
  <2> QED
    BY <2>1, <2>2
<1>8. Continues(h, g)
  BY <1>6, <1>7, ContinuesOn
<1>9. CASE id \notin Ids(v)
  BY <1>1, <1>2, <1>9 DEF m, rest
<1>10. CASE id \in Ids(v) /\ ActiveId(v) # id
  <2>1. Remove(h, made, id) = f
    BY <1>2, <1>15, <1>10
  <2> QED
    BY <1>1, <1>5, <1>6, <1>10, <2>1 DEF m, rest
<1>11. CASE id \in Ids(v) /\ ActiveId(v) = id
  <2>1. Remove(h, made, id) = g
    BY <1>2, <1>15, <1>11
  <2> HIDE DEF g
  <2> QED
    BY <1>1, <1>7, <1>8, <1>11, <2>1 DEF m, rest
<1> QED
  BY <1>9, <1>10, <1>11 DEF m, rest

(* So does the write of the settings.                                         *)
LEMMA SetsMany ==
    ASSUME NEW N, NEW S, NEW L, NEW h, History(h, N, S, L), NEW s \in S
    PROVE  LET g == SetMany(h, s)
               w == Now(g)
           IN  /\ History(g, N, S, L) /\ Continues(h, g)
               /\ w.nodes = Now(h).nodes /\ w.active = Now(h).active
               /\ w.settings = s /\ w.audit = Now(h).audit /\ w.old = Now(h).old
BY Puts DEF SetMany

(* The log with one more entry, of which the oldest makes room.               *)
Logged(log, r) ==
    LET all == Append(log, r)
    IN  SubSeq(all, (IF Len(all) > AuditMax THEN Len(all) - AuditMax ELSE 0) + 1, Len(all))

(* A log with one more entry ends with it, and has lost the oldest if it was  *)
(* full.                                                                      *)
LEMMA LoggedFacts ==
    ASSUME NEW log \in Logs, NEW r \in Requests
    PROVE  LET more == Logged(log, r)
               k == IF Len(log) < AuditMax THEN 0 ELSE 1
           IN  /\ more \in Logs /\ Len(log) \in 0..AuditMax
               /\ Len(more) = Len(log) + 1 - k /\ more[Len(more)] = r
               /\ \A i \in 1..(Len(more) - 1) : more[i] = log[i + k]
<1> DEFINE all == Append(log, r)
           k == IF Len(log) < AuditMax THEN 0 ELSE 1
           n == Len(all)
           more == SubSeq(all, k + 1, n)
<1>1. AuditMax \in Nat \ {0}
  BY AuditMaxAssumption
<1>2. log \in Seq(Requests) /\ Len(log) \in Nat /\ Len(log) <= AuditMax
  BY DEF Logs
<1>3. /\ all \in Seq(Requests) /\ n = Len(log) + 1 /\ all[n] = r
      /\ \A i \in 1..Len(log) : all[i] = log[i]
  BY <1>2, AppendProperties
<1>4. Logged(log, r) = more
  BY <1>1, <1>2, <1>3, SMTT(40) DEF Logged
<1> HIDE DEF all
<1>5. \A i \in (k + 1)..n : all[i] \in Requests
  BY <1>2, <1>3
<1>6. k \in 0..1 /\ k + 1 \in Int /\ n \in Int /\ k + 1 <= n
  BY <1>1, <1>2, <1>3
<1>7. /\ more \in Seq(Requests) /\ Len(more) = n - k
      /\ \A i \in 1..(n - k) : more[i] = all[k + i]
  <2>1. /\ more \in Seq(Requests)
        /\ Len(more) = IF k + 1 <= n THEN n - (k + 1) + 1 ELSE 0
        /\ \A i \in 1..(n - (k + 1) + 1) : more[i] = all[(k + 1) + i - 1]
    BY <1>5, <1>6, SubSeqProperties
  <2> HIDE DEF k, n, more
  <2> QED
    BY <1>6, <2>1
<1> HIDE DEF more
<1>8. Len(more) <= AuditMax /\ more[Len(more)] = r
  BY <1>1, <1>2, <1>3, <1>6, <1>7
<1>9. \A i \in 1..(Len(more) - 1) : more[i] = log[i + k]
  BY <1>2, <1>3, <1>6, <1>7, SMTT(40)
<1> QED
  BY <1>2, <1>3, <1>4, <1>7, <1>8, <1>9 DEF Logs

(* Larger sets of entries, settings and logs.                                 *)
LEMMA Larger ==
    ASSUME NEW N, NEW S, NEW L, NEW N2, NEW S2, NEW L2, N \subseteq N2, S \subseteq S2, L \subseteq L2
    PROVE  /\ CopiesOf(N, S, L) \subseteq CopiesOf(N2, S2, L2)
           /\ \A h : History(h, N, S, L) => History(h, N2, S2, L2)
           /\ \A h : h \in Seq(CopiesOf(N, S, L)) => h \in Seq(CopiesOf(N2, S2, L2))
<1>1. Lists(N) \subseteq Lists(N2)
  BY DEF Lists
<1>2. CopiesOf(N, S, L) \subseteq CopiesOf(N2, S2, L2)
  BY <1>1 DEF CopiesOf
<1>3. \A h : h \in Seq(CopiesOf(N, S, L)) => h \in Seq(CopiesOf(N2, S2, L2))
  BY <1>2
<1> QED
  BY <1>2, <1>3 DEF History

(* AuditLog::append() keeps a history within its sets and one more log.       *)
LEMMA Logging ==
    ASSUME NEW N, NEW S, NEW L, L \subseteq Logs, NEW h, History(h, N, S, L), NEW r \in Requests
    PROVE  /\ History(Log(h, r), N, S, L \cup {Logged(Now(h).audit, r)}) /\ Continues(h, Log(h, r))
           /\ Logged(Now(h).audit, r) \in Logs
<1> DEFINE more == Logged(Now(h).audit, r)
           g == Put(h, "audit", more)
           K == L \cup {more}
<1>1. Log(h, r) = g
  BY DEF Log, Logged
<1>2. Now(h).audit \in Logs
  BY Puts DEF CopiesOf
<1>3. more \in Logs
  BY <1>2, LoggedFacts
<1> HIDE DEF more
<1>4. History(h, N, S, K) /\ more \in K
  BY Larger
<1>5. /\ History(g, N, S, K) /\ Continues(h, g)
      /\ Now(g).nodes = Now(h).nodes /\ Now(g).active = Now(h).active
      /\ Now(g).settings = Now(h).settings /\ Now(g).audit = more /\ Now(g).old = Now(h).old
  <2> HIDE DEF K
  <2> QED
    BY <1>4, Puts
<1> QED
  BY <1>1, <1>3, <1>5 DEF more

(* Nothing but the log changes.                                               *)
LEMMA LogNow ==
    ASSUME NEW N, NEW S, NEW L, L \subseteq Logs, NEW h, History(h, N, S, L), NEW r \in Requests
    PROVE  /\ Now(Log(h, r)).nodes = Now(h).nodes /\ Now(Log(h, r)).active = Now(h).active
           /\ Now(Log(h, r)).settings = Now(h).settings
           /\ Now(Log(h, r)).old = Now(h).old
           /\ Now(Log(h, r)).audit = Logged(Now(h).audit, r)
<1> DEFINE more == Logged(Now(h).audit, r)
           g == Put(h, "audit", more)
           K == L \cup {more}
<1>1. Log(h, r) = g
  BY DEF Log, Logged
<1>2. Now(h).audit \in Logs
  BY Puts DEF CopiesOf
<1>3. more \in Logs
  BY <1>2, LoggedFacts
<1> HIDE DEF more
<1>4. History(h, N, S, K) /\ more \in K
  BY Larger
<1>5. /\ History(g, N, S, K) /\ Continues(h, g)
      /\ Now(g).nodes = Now(h).nodes /\ Now(g).active = Now(h).active
      /\ Now(g).settings = Now(h).settings /\ Now(g).audit = more /\ Now(g).old = Now(h).old
  <2> HIDE DEF K
  <2> QED
    BY <1>4, Puts
<1> QED
  BY <1>1, <1>3, <1>5 DEF more

(* The entry is one more copy, if it changes the log.                         *)
LEMMA LogAppends ==
    ASSUME NEW N, NEW S, NEW L, L \subseteq Logs, NEW h, History(h, N, S, L), NEW r \in Requests
    PROVE  Log(h, r) = h \/ Log(h, r) = Append(h, Now(Log(h, r)))
<1> DEFINE more == Logged(Now(h).audit, r)
           g == Put(h, "audit", more)
           K == L \cup {more}
<1>1. Log(h, r) = g
  BY DEF Log, Logged
<1>2. Now(h).audit \in Logs
  BY Puts DEF CopiesOf
<1>3. more \in Logs
  BY <1>2, LoggedFacts
<1> HIDE DEF more
<1>4. History(h, N, S, K) /\ more \in K
  BY Larger
<1>5. g = h \/ g = Append(h, Now(g))
  <2> DEFINE w == [Now(h) EXCEPT !["audit"] = more]
  <2>1. CASE Now(h)["audit"] = more
    BY <2>1 DEF Put
  <2>2. CASE Now(h)["audit"] # more
    <3>1. g = Append(h, w)
      BY <2>2 DEF Put
    <3>2. h \in Seq(CopiesOf(N, S, K)) /\ w \in CopiesOf(N, S, K)
      <4>1. Now(h) \in CopiesOf(N, S, K)
        BY <1>4, Puts
      <4> QED
        BY <1>4, <4>1, Replaced DEF History
    <3> HIDE DEF w, g
    <3>3. Len(g) = Len(h) + 1 /\ g[Len(h) + 1] = w
      BY <3>1, <3>2, AppendProperties
    <3> QED
      BY <3>1, <3>3 DEF Now
  <2> QED
    BY <2>1, <2>2
<1> QED
  BY <1>1, <1>5

-----------------------------------------------------------------------------
(* The requests.  From what sets of entries, settings and agents the steps of *)
(* request r never lead out: a migrated entry, an added one, an updated one,   *)
(* saved settings, and the entry and settings of a paired agent.  E says that  *)
(* a credential may be left beside another endpoint.                           *)
AllAgents == Agents \cup {None}

Adds(N, r) == \A a \in Agents : Node(NewId(r), a, None) \in N

Updates(N, E) ==
    \A old \in N, a \in Agents, c \in Credentials :
        LET n == Node(old.id, a, IF c = None THEN old.cred ELSE c)
        IN  E \/ NodeOwned(n) => n \in N

Saves(S, A, E) ==
    \A old \in S, url \in AllAgents, node \in A, c \in Credentials :
        LET s == Settings(url, IF c = None THEN old.cred ELSE c, node)
        IN  E \/ SettingsOwned(s) => s \in S

Pairs(N, S, A) ==
    \A a \in A \cap Agents, k \in Nat :
        Node(a, a, <<a, k>>) \in N /\ Settings(a, <<a, k>>, a) \in S

Closed(N, S, A, E, r) ==
    /\ N \subseteq Entries /\ S \subseteq SettingSet
    /\ Makes(N, S, LegacyId(r)) /\ Adds(N, r) /\ Updates(N, E) /\ Saves(S, A, E) /\ Pairs(N, S, A)

(* The ids a request makes.                                                   *)
LEMMA IdFacts ==
    ASSUME NEW r \in Requests
    PROVE  /\ r \in Nat /\ r >= 1 /\ r <= MaxRequests /\ MaxRequests \in Nat
           /\ NewId(r) = r /\ LegacyId(r) = MaxRequests + r
           /\ NewId(r) \in NewIds /\ LegacyId(r) \in NewIds
           /\ NewId(r) \in NodeIds /\ LegacyId(r) \in NodeIds /\ Agents \subseteq NodeIds
           /\ None \notin NodeIds /\ None \notin Agents
           /\ NewId(r) \notin AllAgents /\ LegacyId(r) \notin AllAgents
           /\ \A q \in Requests : /\ LegacyId(q) # NewId(r)
                                  /\ q # r => NewId(q) # NewId(r) /\ LegacyId(q) # LegacyId(r)
<1>1. MaxRequests \in Nat /\ r \in Nat /\ r >= 1 /\ r <= MaxRequests
  BY BoundAssumption DEF Requests
<1>2. NewId(r) = r /\ LegacyId(r) = MaxRequests + r
  BY DEF NewId, LegacyId
<1>3. NewId(r) \in NewIds /\ LegacyId(r) \in NewIds
  BY <1>1, <1>2 DEF NewIds
<1>4. NewIds \subseteq NodeIds /\ Agents \subseteq NodeIds
  BY DEF NodeIds
<1>5. None \notin NodeIds
  BY NoneAssumption
<1>6. \A a \in Agents : a \notin Nat
  BY AgentAssumption
<1>7. NewId(r) \in Nat /\ LegacyId(r) \in Nat
  BY <1>1, <1>2
<1>8. \A q \in Requests : /\ LegacyId(q) # NewId(r)
                          /\ q # r => NewId(q) # NewId(r) /\ LegacyId(q) # LegacyId(r)
  BY <1>1 DEF NewId, LegacyId, Requests
<1>9. NewId(r) \notin AllAgents /\ LegacyId(r) \notin AllAgents
  BY <1>3, <1>4, <1>5, <1>6, <1>7 DEF AllAgents
<1> QED
  BY <1>1, <1>2, <1>3, <1>4, <1>5, <1>8, <1>9

(* All entries and settings are closed in this sense, and so are those that    *)
(* have no id of a set of ids nobody brings in.                               *)
OtherSets(D) == {s \in SettingSet : s.node \notin D}

(* Without the ids of D, of which the request makes none.                     *)
LEMMA OthersClosed ==
    ASSUME NEW r \in Requests, NEW D, NewId(r) \notin D, LegacyId(r) \notin D, None \notin D
    PROVE  Closed(Others(D), OtherSets(D), AllAgents \ D, TRUE, r)
<1>1. /\ NewId(r) \in NodeIds /\ LegacyId(r) \in NodeIds /\ Agents \subseteq NodeIds
      /\ None \in Credentials
  BY IdFacts DEF Credentials
<1>2. Makes(Others(D), OtherSets(D), LegacyId(r))
  <2> SUFFICES ASSUME NEW s \in OtherSets(D), s.url # None
               PROVE  Node(IF s.node = None THEN LegacyId(r) ELSE s.node, s.url, s.cred) \in Others(D)
    BY DEF Makes
  <2>1. s.url \in Agents /\ s.cred \in Credentials /\ s.node \in Agents \cup {None} /\ s.node \notin D
    BY DEF OtherSets, SettingSet
  <2> QED
    BY <1>1, <2>1 DEF Others, Entries, Node
<1>3. Adds(Others(D), r)
  BY <1>1 DEF Adds, Others, Entries, Node
<1>4. Updates(Others(D), TRUE)
  BY DEF Updates, Others, Entries, Node
<1>5. Saves(OtherSets(D), AllAgents \ D, TRUE)
  BY DEF Saves, OtherSets, SettingSet, Settings, AllAgents
<1>6. \A a \in Agents, k \in Nat : <<a, k>> \in Credentials
  BY DEF Credentials
<1>7. Pairs(Others(D), OtherSets(D), AllAgents \ D)
  BY <1>1, <1>6 DEF Pairs, Others, OtherSets, Entries, SettingSet, Node, Settings, AllAgents
<1> QED
  BY <1>2, <1>3, <1>4, <1>5, <1>7 DEF Closed, Others, OtherSets

(* So are the entries and settings whose credential belongs to their endpoint. *)
OwnNodes == {n \in Entries : NodeOwned(n)}
OwnSets  == {s \in SettingSet : SettingsOwned(s)}

(* Credentials beside their endpoint, while none is left beside another.      *)
LEMMA OwnClosed ==
    ASSUME NEW r \in Requests
    PROVE  Closed(OwnNodes, OwnSets, AllAgents, FALSE, r)
<1>1. /\ NewId(r) \in NodeIds /\ LegacyId(r) \in NodeIds /\ Agents \subseteq NodeIds
      /\ None \in Credentials
  BY IdFacts DEF Credentials
<1>2. Makes(OwnNodes, OwnSets, LegacyId(r))
  <2> SUFFICES ASSUME NEW s \in OwnSets, s.url # None
               PROVE  Node(IF s.node = None THEN LegacyId(r) ELSE s.node, s.url, s.cred) \in OwnNodes
    BY DEF Makes
  <2>1. s.url \in Agents /\ s.cred \in Credentials /\ s.node \in Agents \cup {None} /\ SettingsOwned(s)
    BY DEF OwnSets, SettingSet
  <2> QED
    BY <1>1, <2>1 DEF OwnNodes, NodeOwned, SettingsOwned, Entries, Node
<1>3. Adds(OwnNodes, r)
  BY <1>1 DEF Adds, OwnNodes, NodeOwned, Entries, Node
<1>4. Updates(OwnNodes, FALSE)
  <2> SUFFICES ASSUME NEW old \in OwnNodes, NEW a \in Agents, NEW c \in Credentials,
                      NodeOwned(Node(old.id, a, IF c = None THEN old.cred ELSE c))
               PROVE  Node(old.id, a, IF c = None THEN old.cred ELSE c) \in OwnNodes
    BY DEF Updates
  <2> QED
    BY DEF OwnNodes, Entries, Node
<1>5. Saves(OwnSets, AllAgents, FALSE)
  <2> SUFFICES ASSUME NEW old \in OwnSets, NEW url \in AllAgents, NEW node \in AllAgents,
                      NEW c \in Credentials,
                      SettingsOwned(Settings(url, IF c = None THEN old.cred ELSE c, node))
               PROVE  Settings(url, IF c = None THEN old.cred ELSE c, node) \in OwnSets
    BY DEF Saves
  <2> QED
    BY DEF OwnSets, SettingSet, Settings, AllAgents
<1>6. \A a \in Agents, k \in Nat : <<a, k>> \in Credentials
  BY DEF Credentials
<1>7. Pairs(OwnNodes, OwnSets, AllAgents)
  BY <1>1, <1>6 DEF Pairs, OwnNodes, OwnSets, NodeOwned, SettingsOwned, Entries, SettingSet, Node, Settings
<1> QED
  BY <1>2, <1>3, <1>4, <1>5, <1>7 DEF Closed, OwnNodes, OwnSets

(* Get() returns the entry of an id.                                          *)
LEMMA GetFacts ==
    ASSUME NEW N, NEW v, All(v) \in Seq(N), NEW id \in Ids(v)
    PROVE  /\ Get(v, id) \in N /\ Get(v, id).id = id
           /\ Unique(All(v)) => \A i \in DOMAIN All(v) : All(v)[i].id = id => Get(v, id) = All(v)[i]
<1> DEFINE k == CHOOSE i \in DOMAIN All(v) : All(v)[i].id = id
<1>1. k \in DOMAIN All(v) /\ All(v)[k].id = id
  BY DEF Ids, IdsOf
<1>2. Get(v, id) = All(v)[k]
  BY DEF Get
<1> HIDE DEF k
<1>3. All(v)[k] \in N
  BY <1>1
<1>4. Unique(All(v)) => \A i \in DOMAIN All(v) : All(v)[i].id = id => i = k
  BY <1>1 DEF Unique
<1> QED
  BY <1>1, <1>2, <1>3, <1>4

-----------------------------------------------------------------------------
(* Pairing, on the copy of a request.  What the copy holds while the agent is *)
(* asked, and what it holds at the end.                                       *)
AnyHistory(h) == History(h, Entries, SettingSet, Logs)

Asked(r, x) ==
    LET v == Now(x.h)
        b == x.before
    IN  /\ x.arg.agent \in Agents
        /\ b \in CopiesOf(Entries, SettingSet, Logs) /\ NewId(r) \notin Ids(b)
        /\ b.nodes = <<>> => b.settings.url = None
        /\ \/ x.arg.id = ActiveId(b)
           \/ \E n \in Entries : b.nodes = <<n>> /\ b.active = n.id
        /\ x.arg.id = None => b.old.active = None
        /\ v.nodes = Append(All(b), Node(NewId(r), x.arg.agent, None))
        /\ v.active = NewId(r) /\ v.settings = b.settings /\ v.old = b.old

GivenUp(v, b) ==
    /\ All(v) = All(b) /\ ActiveNode(v) = ActiveNode(b) /\ v.settings = b.settings

Granted(r, v, a, c) ==
    /\ NewId(r) \notin Ids(v)
    /\ a \in Ids(v) /\ Get(v, a) = Node(a, a, c)
    /\ ActiveNode(v).id = a
    /\ v.settings = Settings(a, c, a)

(* All entries and all settings are closed.                                   *)
LEMMA AllMake ==
    ASSUME NEW r \in Requests
    PROVE  Closed(Entries, SettingSet, AllAgents, TRUE, r)
<1>1. Closed(Others({}), OtherSets({}), AllAgents \ {}, TRUE, r)
  BY OthersClosed
<1>2. Others({}) = Entries /\ OtherSets({}) = SettingSet /\ AllAgents \ {} = AllAgents
  BY DEF Others, OtherSets
<1> QED
  BY <1>1, <1>2

(* Migration does not make the new id of the request, and an empty list that  *)
(* is left cannot be migrated later.                                          *)
LEMMA Before ==
    ASSUME NEW r \in Requests, site \in CopiesOf(Others({NewId(r)}), SettingSet, Logs)
    PROVE  LET b == Now(Migrate(<<site>>, LegacyId(r)))
           IN  /\ b \in CopiesOf(Entries, SettingSet, Logs) /\ NewId(r) \notin Ids(b)
               /\ b.nodes = <<>> => b.settings.url = None
               /\ b.old = site.old
               /\ b.active = site.active \/ \E n \in Entries : b.nodes = <<n>> /\ b.active = n.id
<1> DEFINE N == Others({NewId(r)})
           h == <<site>>
           b == Now(Migrate(h, LegacyId(r)))
<1>1. History(h, N, SettingSet, Logs) /\ Now(h) = site
  BY DEF History, Now
<1>2. Makes(N, SettingSet, LegacyId(r)) /\ LegacyId(r) \in NodeIds
  <2>1. /\ LegacyId(r) \in NodeIds /\ LegacyId(r) # NewId(r) /\ NewId(r) \notin AllAgents /\ Agents \subseteq NodeIds
    BY IdFacts
  <2> QED
    BY <2>1 DEF Makes, Others, SettingSet, Entries, Node, AllAgents
<1> HIDE DEF h
<1>3. /\ History(Migrate(h, LegacyId(r)), N, SettingSet, Logs)
      /\ b.settings = site.settings /\ b.old = site.old
      /\ site.nodes # <<>> \/ site.settings.url = None => Migrate(h, LegacyId(r)) = h
      /\ site.nodes = <<>> /\ site.settings.url # None =>
           \E i : /\ b.nodes = <<Node(i, site.settings.url, site.settings.cred)>>
                  /\ b.active = i
  BY <1>1, <1>2, Migrates
<1>4. b \in CopiesOf(N, SettingSet, Logs)
  BY <1>3, Puts
<1>5. b \in CopiesOf(Entries, SettingSet, Logs)
  BY <1>4, Larger DEF Others
<1>6. NewId(r) \notin Ids(b)
  <2> DEFINE s == All(b)
  <2>1. s \in Seq(N)
    BY <1>4 DEF CopiesOf, Lists
  <2> HIDE DEF s
  <2>2. \A i \in DOMAIN s : s[i].id # NewId(r)
    BY <2>1 DEF Others
  <2> QED
    BY <2>2 DEF Ids, IdsOf, s
<1>7. CASE site.nodes # <<>> \/ site.settings.url = None
  BY <1>1, <1>3, <1>5, <1>6, <1>7 DEF h
<1>8. CASE site.nodes = <<>> /\ site.settings.url # None
  <2>1. PICK i : b.nodes = <<Node(i, site.settings.url, site.settings.cred)>> /\ b.active = i
    BY <1>3, <1>8
  <2> DEFINE n == Node(i, site.settings.url, site.settings.cred)
  <2>2. b.nodes = <<n>> /\ n.id = i
    BY <2>1 DEF Node
  <2>3. b.nodes \in Seq(Entries)
    BY <1>5 DEF CopiesOf, Lists
  <2> HIDE DEF n
  <2>4. n \in Entries
    BY <2>2, <2>3
  <2>5. b.nodes # <<>>
    BY <2>2
  <2> HIDE DEF b
  <2> QED
    BY <1>3, <1>5, <1>6, <2>1, <2>2, <2>4, <2>5 DEF b, h
<1> QED
  BY <1>7, <1>8 DEF h

(* The provisional node is the last entry and the active one.                 *)
LEMMA PairAsks ==
    ASSUME NEW r \in Requests, NEW a \in Agents, site \in CopiesOf(Others({NewId(r)}), SettingSet, Logs),
           NEW x, x.arg.agent = a, x.arg.id = ActiveId(site),
           x.before = Now(Migrate(<<site>>, LegacyId(r))),
           x.h = SetActive(Upsert(<<site>>, LegacyId(r), Node(NewId(r), a, None)), LegacyId(r), NewId(r))
    PROVE  Asked(r, x)
<1> DEFINE lid == LegacyId(r)
           mid == NewId(r)
           new == Node(mid, a, None)
           hh == <<site>>
           b == Now(Migrate(hh, lid))
           ff == Upsert(hh, lid, new)
           gg == SetActive(ff, lid, mid)
<1>1. /\ b \in CopiesOf(Entries, SettingSet, Logs) /\ mid \notin Ids(b)
      /\ b.nodes = <<>> => b.settings.url = None
      /\ b.old = site.old
      /\ b.active = site.active \/ \E e \in Entries : b.nodes = <<e>> /\ b.active = e.id
  BY Before
<1>2. /\ Makes(Entries, SettingSet, lid) /\ lid \in NodeIds /\ mid # None /\ new \in Entries /\ new.id = mid
  <2>1. lid \in NodeIds /\ mid \in NodeIds /\ None \notin NodeIds
    BY IdFacts
  <2> QED
    BY <2>1, AllMake DEF Closed, Adds, Node
<1>3. AnyHistory(hh)
  <2>1. site \in CopiesOf(Entries, SettingSet, Logs)
    BY Larger DEF Others
  <2> QED
    BY <2>1 DEF AnyHistory, History
<1> HIDE DEF lid, mid, new, hh, b
<1>4. /\ AnyHistory(ff) /\ Now(ff).active = b.active /\ Now(ff).settings = b.settings
      /\ Now(ff).nodes = Append(All(b), new) /\ Now(ff).nodes # <<>> /\ Now(ff).old = b.old
  <2>1. new.id \notin Ids(Now(Migrate(hh, lid)))
    BY <1>1, <1>2 DEF b
  <2>2. /\ AnyHistory(ff) /\ Now(ff).active = Now(Migrate(hh, lid)).active
        /\ Now(ff).settings = Now(Migrate(hh, lid)).settings
        /\ Now(ff).nodes = Append(All(Now(Migrate(hh, lid))), new)
        /\ Now(ff).nodes # <<>> /\ Now(ff).old = Now(Migrate(hh, lid)).old
    <3>1. History(hh, Entries, SettingSet, Logs) /\ SettingSet \subseteq SettingSet
      BY <1>3 DEF AnyHistory
    <3>2. new \in Entries /\ lid \in NodeIds /\ Makes(Entries, SettingSet, lid)
      BY <1>2
    <3>3. History(ff, Entries, SettingSet, Logs)
      BY <3>1, <3>2, Upserts
    <3>4. Now(ff).active = Now(Migrate(hh, lid)).active
      BY <3>1, <3>2, Upserts
    <3>5. Now(ff).settings = Now(Migrate(hh, lid)).settings
      BY <3>1, <3>2, Upserts
    <3>6. Now(ff).nodes = Append(All(Now(Migrate(hh, lid))), new)
      BY <2>1, <3>1, <3>2, Upserts
    <3>7. Now(ff).nodes # <<>> /\ Now(ff).old = Now(Migrate(hh, lid)).old
      BY <3>1, <3>2, Upserts
    <3> QED
      BY <3>3, <3>4, <3>5, <3>6, <3>7 DEF AnyHistory
  <2> QED
    BY <2>2 DEF b
<1>5. All(b) \in Seq(Entries) /\ Len(All(b)) \in Nat
  BY <1>1 DEF CopiesOf, Lists
<1>6. Now(ff).nodes # <<>> /\ mid \in Ids(Now(ff))
  <2> DEFINE s == All(b)
             t == Append(s, new)
  <2>1. Len(t) = Len(s) + 1 /\ t[Len(s) + 1] = new /\ DOMAIN t = 1..(Len(s) + 1)
    BY <1>2, <1>5, AppendProperties
  <2>3. All(Now(ff)) = t
    BY <1>4 DEF All
  <2> HIDE DEF t
  <2>2. Len(s) + 1 \in DOMAIN t
    BY <1>5, <2>1
  <2> HIDE DEF s
  <2> QED
    BY <1>2, <1>4, <2>1, <2>2, <2>3 DEF Ids, IdsOf
<1> HIDE DEF ff
<1>7. Migrate(ff, lid) = ff
  BY <1>2, <1>4, <1>6, Migrates DEF AnyHistory
<1>8. /\ Now(gg).nodes = Append(All(b), new) /\ Now(gg).active = mid
      /\ Now(gg).settings = b.settings /\ Now(gg).old = b.old
  BY <1>2, <1>4, <1>6, <1>7, SetsActive DEF AnyHistory
<1>9. Now(x.h) = Now(gg) /\ x.before = b /\ x.arg.agent = a /\ x.arg.id = ActiveId(site)
  BY DEF lid, mid, new, hh, b, ff
<1> HIDE DEF gg
<1>10. ActiveId(site) = None => b.old.active = None
  BY <1>1 DEF ActiveId
<1>11. b.active = site.active => ActiveId(site) = ActiveId(b)
  BY <1>1 DEF ActiveId
<1> QED
  BY <1>1, <1>8, <1>9, <1>10, <1>11 DEF Asked, mid, new

(* The entry that acts as the active one.                                     *)
LEMMA Acting ==
    ASSUME NEW v, All(v) \in Lists(Entries)
    PROVE  /\ ActiveId(v) \notin Ids(v) /\ All(v) = <<>> => ActiveNode(v) = Node(None, None, None)
           /\ ActiveId(v) \notin Ids(v) /\ All(v) # <<>> => ActiveNode(v) = All(v)[1]
           /\ ActiveId(v) \in Ids(v) => ActiveNode(v) = Get(v, ActiveId(v))
           /\ All(v) # <<>> /\ ActiveId(v) = All(v)[1].id => ActiveId(v) \in Ids(v) /\ ActiveNode(v) = All(v)[1]
<1>1. All(v) \in Seq(Entries) /\ Unique(All(v))
  BY DEF Lists
<1>2. ActiveId(v) \in Ids(v) => ActiveNode(v) = Get(v, ActiveId(v))
  BY DEF ActiveNode
<1>3. ActiveId(v) \notin Ids(v) => ActiveNode(v) = IF All(v) = <<>> THEN Node(None, None, None) ELSE All(v)[1]
  BY DEF ActiveNode
<1>4. All(v) # <<>> => 1 \in DOMAIN All(v)
  BY <1>1
<1>5. ASSUME All(v) # <<>>, ActiveId(v) = All(v)[1].id
      PROVE  ActiveId(v) \in Ids(v) /\ ActiveNode(v) = All(v)[1]
  <2>1. ActiveId(v) \in Ids(v)
    BY <1>4, <1>5 DEF Ids, IdsOf
  <2>2. Get(v, ActiveId(v)) = All(v)[1]
    BY <1>1, <1>4, <1>5, <2>1, GetFacts
  <2> QED
    BY <1>2, <2>1, <2>2
<1> QED
  BY <1>2, <1>3, <1>5

(* The provisional node is taken back: the list is as before.                 *)
LEMMA TakesBack ==
    ASSUME NEW r \in Requests, NEW x, AnyHistory(x.h), Asked(r, x)
    PROVE  LET g == Remove(x.h, LegacyId(r), NewId(r))
               w == Now(g)
               b == x.before
           IN  /\ \A N : Spares(x.h, LegacyId(r), N, NewId(r))
               /\ AnyHistory(g) /\ Migrate(g, LegacyId(r)) = g
               /\ w.nodes = All(b) /\ w.settings = b.settings /\ w.old = b.old
               /\ All(w) = All(b)
               /\ w.active = IF All(b) = <<>> THEN None ELSE All(b)[1].id
<1> DEFINE lid == LegacyId(r)
           mid == NewId(r)
           new == Node(mid, x.arg.agent, None)
           hh  == x.h
           v   == Now(hh)
           b   == x.before
           gg  == Remove(hh, lid, mid)
<1>1. /\ v.nodes = Append(All(b), new) /\ v.active = mid /\ v.settings = b.settings /\ v.old = b.old
      /\ b \in CopiesOf(Entries, SettingSet, Logs) /\ mid \notin Ids(b)
      /\ b.nodes = <<>> => b.settings.url = None
      /\ x.arg.agent \in Agents
  BY DEF Asked
<1>2. Makes(Entries, SettingSet, lid) /\ lid \in NodeIds /\ mid # None /\ new \in Entries /\ new.id = mid
  <2>1. lid \in NodeIds /\ mid \in NodeIds /\ None \notin NodeIds
    BY IdFacts
  <2> QED
    BY <1>1, <2>1, AllMake DEF Closed, Adds, Node
<1> HIDE DEF lid, mid, new, hh, v, b
<1>3. All(b) \in Seq(Entries) /\ \A j \in DOMAIN All(b) : All(b)[j].id # mid
  BY <1>1 DEF CopiesOf, Lists, Ids, IdsOf
<1>4. v.nodes # <<>> /\ All(v) = v.nodes /\ mid \in Ids(v) /\ v.nodes \in Seq(Entries)
  <2> DEFINE s == All(b)
             t == Append(s, new)
  <2>1. t \in Seq(Entries) /\ Len(t) = Len(s) + 1 /\ t[Len(s) + 1] = new /\ DOMAIN t = 1..(Len(s) + 1)
    BY <1>2, <1>3, AppendProperties
  <2>2. t # <<>> /\ Len(s) + 1 \in DOMAIN t
    BY <1>3, <2>1
  <2> HIDE DEF t
  <2>3. v.nodes = t
    BY <1>1 DEF t
  <2> HIDE DEF s
  <2> QED
    BY <1>2, <2>1, <2>2, <2>3 DEF Ids, IdsOf, All
<1>5. History(hh, Entries, SettingSet, Logs) /\ SettingSet \subseteq SettingSet /\ Entries \subseteq Entries
  BY DEF AnyHistory, hh
<1>6. Migrate(hh, lid) = hh
  BY <1>2, <1>4, <1>5, Migrates DEF v
<1>7. Without(v.nodes, mid) = All(b)
  <2> DEFINE s == v.nodes
             t == All(b)
  <2>1. s \in Seq(Entries) /\ t \in Seq(Entries) /\ s = Append(t, new) /\ \A j \in DOMAIN t : t[j].id # mid
    BY <1>1, <1>3, <1>4
  <2> HIDE DEF s, t
  <2>2. Without(s, mid) = t
    BY <1>2, <2>1, WithoutLast
  <2> QED
    BY <2>2 DEF s, t
<1>11. \A N : Spares(hh, lid, N, mid)
  <2> SUFFICES ASSUME NEW N, Without(All(Now(Migrate(hh, lid))), mid) = <<>> PROVE v.old.nodes \in Lists(N)
    BY DEF Spares, v
  <2>1. All(b) = <<>>
    BY <1>4, <1>6, <1>7 DEF v
  <2>2. b.old.nodes = <<>>
    BY <2>1 DEF All
  <2>3. <<>> \in Lists(N)
    BY DEF Lists, Unique
  <2> QED
    BY <1>1, <2>2, <2>3
<1>8. /\ History(gg, Entries, SettingSet, Logs)
      /\ Now(gg).settings = v.settings /\ Now(gg).old = v.old
      /\ Now(gg).nodes = All(b)
      /\ Now(gg).active = IF All(b) = <<>> THEN None ELSE All(b)[1].id
  <2>1. Now(Migrate(hh, lid)) = v
    BY <1>6 DEF v
  <2>5. Spares(hh, lid, Entries, mid)
    BY <1>11
  <2>6. ActiveId(v) = mid
    BY <1>1, <1>2 DEF ActiveId
  <2>2. History(gg, Entries, SettingSet, Logs) /\ Now(gg).settings = v.settings /\ Now(gg).old = v.old
    BY <1>2, <1>5, <2>5, Removes DEF v
  <2>3. Now(gg).nodes = Without(v.nodes, mid)
    BY <1>2, <1>4, <1>5, <2>1, <2>5, Removes
  <2>4. Now(gg).active = IF ActiveId(v) # mid THEN v.active
                         ELSE IF Without(v.nodes, mid) = <<>> THEN None ELSE Without(v.nodes, mid)[1].id
    BY <1>2, <1>4, <1>5, <2>1, <2>5, Removes
  <2> HIDE DEF gg
  <2> QED
    BY <1>1, <1>7, <2>2, <2>3, <2>4, <2>6
<1> HIDE DEF gg
<1>9. Migrate(gg, lid) = gg
  <2>1. All(b) = <<>> => b.nodes = <<>>
    BY DEF All
  <2> QED
    BY <1>1, <1>2, <1>5, <1>8, <2>1, Migrates
<1>10. All(Now(gg)) = All(b)
  BY <1>1, <1>8 DEF All
<1> QED
  BY <1>1, <1>8, <1>9, <1>10, <1>11 DEF AnyHistory, lid, mid, hh, b, gg

(* A pairing that fails leaves what the request found.                        *)
LEMMA PairFails ==
    ASSUME NEW r \in Requests, NEW x, AnyHistory(x.h), Asked(r, x)
    PROVE  GivenUp(Now(PairFailed(x.h, r, x.arg.id)), x.before)
<1> DEFINE lid == LegacyId(r)
           gg  == Remove(x.h, lid, NewId(r))
           b   == x.before
           p   == x.arg.id
           ff  == SetActive(gg, lid, p)
           w   == Now(ff)
<1>1. /\ AnyHistory(gg) /\ Migrate(gg, lid) = gg
      /\ Now(gg).nodes = All(b) /\ Now(gg).settings = b.settings /\ Now(gg).old = b.old
      /\ All(Now(gg)) = All(b)
      /\ Now(gg).active = IF All(b) = <<>> THEN None ELSE All(b)[1].id
  BY TakesBack
<1>2. PairFailed(x.h, r, p) = ff
  BY DEF PairFailed
<1>3. /\ All(b) \in Lists(Entries) /\ (p = None => b.old.active = None)
      /\ p = ActiveId(b) \/ \E n \in Entries : b.nodes = <<n>> /\ b.active = n.id
  BY DEF Asked, CopiesOf
<1>4. Makes(Entries, SettingSet, lid) /\ lid \in NodeIds
  BY IdFacts, AllMake DEF Closed
<1> HIDE DEF lid, gg, b, p
<1>5. History(gg, Entries, SettingSet, Logs) /\ SettingSet \subseteq SettingSet /\ Entries \subseteq Entries
  BY <1>1 DEF AnyHistory
<1>6. /\ w.settings = b.settings /\ w.nodes = All(b) /\ w.old = b.old
      /\ p = None => w.active = None
      /\ p # None /\ p \in Ids(Now(gg)) => w.active = p
      /\ p # None /\ p \notin Ids(Now(gg)) => ff = gg
  BY <1>1, <1>4, <1>5, SetsActive
<1> HIDE DEF ff
<1>9. All(w) = All(b)
  BY <1>1, <1>6 DEF All
<1>7. Ids(Now(gg)) = Ids(b) /\ Ids(w) = Ids(b) /\ None \notin Ids(b) /\ \A i : Get(w, i) = Get(b, i)
  <2>1. None \notin Ids(b)
    <3>1. \A j \in DOMAIN All(b) : All(b)[j] \in Entries
      BY <1>3 DEF Lists
    <3> QED
      BY <3>1, NoneAssumption DEF Ids, IdsOf, Entries
  <2> QED
    BY <1>1, <1>9, <2>1 DEF Ids, Get
<1>8. ActiveNode(w) = ActiveNode(b)
  <2>1. CASE All(b) = <<>>
    <3>1. Ids(b) = {}
      BY <2>1 DEF Ids, IdsOf
    <3> QED
      BY <1>3, <1>7, <1>9, <2>1, <3>1, Acting
  <2>2. CASE All(b) # <<>> /\ p = ActiveId(b) /\ p \in Ids(b)
    <3>1. ActiveId(w) = p
      BY <1>6, <1>7, <2>2 DEF ActiveId
    <3> QED
      BY <1>3, <1>7, <1>9, <2>2, <3>1, Acting
  <2>3. CASE All(b) # <<>> /\ p = ActiveId(b) /\ p \notin Ids(b)
    <3>1. ActiveNode(b) = All(b)[1]
      BY <1>3, <2>3, Acting
    <3>4. \/ w.active = None /\ b.old.active = None
          \/ w.active = All(b)[1].id
      BY <1>1, <1>3, <1>6, <1>7, <2>3
    <3>5. All(b)[1].id # None
      <4> DEFINE l == All(b)
      <4>1. l \in Seq(Entries) /\ l # <<>>
        BY <1>3, <2>3 DEF Lists
      <4> HIDE DEF l
      <4>2. 1 \in DOMAIN l
        BY <4>1
      <4> QED
        BY <1>7, <4>2 DEF l, Ids, IdsOf
    <3>2. ActiveId(w) = None \/ ActiveId(w) = All(b)[1].id
      BY <1>6, <3>4, <3>5 DEF ActiveId
    <3> QED
      BY <1>3, <1>7, <1>9, <2>3, <3>1, <3>2, Acting
  <2>4. CASE \E n \in Entries : b.nodes = <<n>> /\ b.active = n.id
    <3>1. PICK n \in Entries : b.nodes = <<n>> /\ b.active = n.id
      BY <2>4
    <3>2. All(b) # <<>> /\ All(b)[1] = n /\ Ids(b) = {n.id}
      BY <3>1 DEF Ids, IdsOf, All
    <3>5. n.id # None /\ ActiveId(b) = n.id
      BY <1>7, <3>1, <3>2 DEF ActiveId
    <3>3. ActiveNode(b) = n
      BY <1>3, <3>2, <3>5, Acting
    <3>4. ActiveId(w) = None \/ ActiveId(w) = n.id
      BY <1>1, <1>3, <1>6, <1>7, <3>2 DEF ActiveId
    <3> QED
      BY <1>3, <1>7, <1>9, <3>2, <3>3, <3>4, Acting
  <2> QED
    BY <1>3, <2>1, <2>2, <2>3, <2>4
<1> QED
  BY <1>2, <1>6, <1>8, <1>9 DEF GivenUp, w, b, p

(* A pairing that succeeds leaves one entry of the agent, active and named by *)
(* the settings.                                                              *)
LEMMA PairGrants ==
    ASSUME NEW r \in Requests, NEW x, AnyHistory(x.h), Asked(r, x), NEW k \in Nat
    PROVE  LET a == x.arg.agent
           IN  Granted(r, Now(PairGranted(x.h, r, a, <<a, k>>)), a, <<a, k>>)
<1> DEFINE lid == LegacyId(r)
           mid == NewId(r)
           a   == x.arg.agent
           c   == <<a, k>>
           new == Node(a, a, c)
           b   == x.before
           l   == All(b)
           gg  == Remove(x.h, lid, mid)
           uu  == Upsert(gg, lid, new)
           ff  == SetActive(uu, lid, a)
           pp  == SetMany(ff, Settings(a, c, a))
           w   == Now(pp)
<1>1. /\ AnyHistory(gg) /\ Migrate(gg, lid) = gg
      /\ All(Now(gg)) = l /\ Now(gg).settings = b.settings
  BY TakesBack
<1>2. PairGranted(x.h, r, a, c) = pp
  BY DEF PairGranted
<1>3. l \in Lists(Entries) /\ Ids(b) = IdsOf(l) /\ mid \notin Ids(b) /\ a \in Agents
  BY DEF Asked, CopiesOf, Ids
<1>4. /\ Makes(Entries, SettingSet, lid) /\ lid \in NodeIds /\ a # mid /\ a # None
      /\ new \in Entries /\ new.id = a /\ Settings(a, c, a) \in SettingSet
  <2>1. Pairs(Entries, SettingSet, AllAgents) /\ Makes(Entries, SettingSet, lid)
    BY AllMake DEF Closed
  <2>2. a \in AllAgents \cap Agents
    BY <1>3 DEF AllAgents
  <2>3. new \in Entries /\ Settings(a, c, a) \in SettingSet
    BY <2>1, <2>2 DEF Pairs
  <2>4. lid \in NodeIds /\ a # mid /\ a # None
    BY <1>3, <2>2, IdFacts
  <2> QED
    BY <2>1, <2>3, <2>4 DEF Node
<1> HIDE DEF lid, mid, a, c, new, b, l, gg
<1>5. History(gg, Entries, SettingSet, Logs) /\ SettingSet \subseteq SettingSet /\ Entries \subseteq Entries
  BY <1>1 DEF AnyHistory
<1>6. /\ History(uu, Entries, SettingSet, Logs)
      /\ a \in Ids(b) => /\ DOMAIN Now(uu).nodes = DOMAIN l
                         /\ \A i \in DOMAIN l :
                              Now(uu).nodes[i] = IF l[i].id = a THEN new ELSE l[i]
      /\ a \notin Ids(b) => Now(uu).nodes = Append(l, new)
  <2>1. Ids(Now(gg)) = Ids(b)
    BY <1>1, <1>3 DEF Ids
  <2>2. History(uu, Entries, SettingSet, Logs)
    BY <1>4, <1>5, Upserts
  <2>3. a \in Ids(b) => /\ DOMAIN Now(uu).nodes = DOMAIN l
                        /\ \A i \in DOMAIN l :
                             Now(uu).nodes[i] = IF l[i].id = a THEN new ELSE l[i]
    BY <1>1, <1>4, <1>5, <2>1, Upserts
  <2>4. a \notin Ids(b) => Now(uu).nodes = Append(l, new)
    BY <1>1, <1>4, <1>5, <2>1, Upserts
  <2> QED
    BY <2>2, <2>3, <2>4
<1> HIDE DEF uu
<1> DEFINE s == Now(uu).nodes
<1>7. s \in Lists(Entries)
  BY <1>6, Puts DEF CopiesOf
<1>8. /\ \E i \in DOMAIN s : s[i] = new
      /\ \A i \in DOMAIN s : s[i] = new \/ \E j \in DOMAIN l : s[i] = l[j]
  <2> DEFINE t == l
  <2>1. t \in Seq(Entries)
    BY <1>3 DEF Lists
  <2>2. CASE a \in Ids(b)
    <3>1. PICK i \in DOMAIN t : t[i].id = a
      BY <1>3, <2>2 DEF IdsOf
    <3> HIDE DEF t, s
    <3>2. DOMAIN s = DOMAIN t /\ \A j \in DOMAIN t : s[j] = IF t[j].id = a THEN new ELSE t[j]
      BY <1>6, <2>2 DEF s, t
    <3>3. \A j \in DOMAIN s : s[j] = new \/ \E k2 \in DOMAIN t : s[j] = t[k2]
      BY <3>2
    <3>4. s[i] = new /\ i \in DOMAIN s
      BY <3>1, <3>2
    <3> QED
      BY <3>3, <3>4 DEF t
  <2>3. CASE a \notin Ids(b)
    <3>1. s = Append(t, new)
      BY <1>6, <2>3
    <3> HIDE DEF t, s
    <3>2. /\ DOMAIN s = 1..(Len(t) + 1) /\ s[Len(t) + 1] = new
          /\ \A i \in 1..Len(t) : s[i] = t[i]
      BY <1>4, <2>1, <3>1, AppendProperties
    <3>3. Len(t) \in Nat /\ DOMAIN t = 1..Len(t)
      BY <2>1
    <3>4. Len(t) + 1 \in DOMAIN s
      BY <3>2, <3>3
    <3>5. \A i \in DOMAIN s : s[i] = new \/ \E j \in DOMAIN t : s[i] = t[j]
      BY <3>2, <3>3
    <3> QED
      BY <3>2, <3>4, <3>5 DEF t
  <2> QED
    BY <2>2, <2>3
<1>9. s # <<>> /\ a \in Ids(Now(uu))
  <2>1. s # <<>> /\ a \in IdsOf(s)
    BY <1>4, <1>7, <1>8 DEF IdsOf, Lists
  <2> QED
    BY <2>1 DEF Ids, All
<1>10. /\ History(ff, Entries, SettingSet, Logs)
       /\ Now(ff).nodes = s /\ Now(ff).active = a
  <2>1. Migrate(uu, lid) = uu
    BY <1>4, <1>5, <1>6, <1>9, Migrates
  <2> QED
    BY <1>4, <1>5, <1>6, <1>9, <2>1, SetsActive
<1> HIDE DEF s, ff
<1>11. w.nodes = s /\ w.active = a /\ w.settings = Settings(a, c, a)
  BY <1>4, <1>10, SetsMany
<1> HIDE DEF pp
<1>12. a \in Ids(w) /\ Get(w, a) = new
  <2>1. Ids(w) = Ids(Now(uu)) /\ All(w) = s /\ s \in Seq(Entries) /\ Unique(s)
    BY <1>7, <1>9, <1>11 DEF Ids, All, s, Lists
  <2>2. PICK i \in DOMAIN s : s[i] = new
    BY <1>8
  <2>3. a \in Ids(w)
    BY <1>9, <2>1 DEF s
  <2> QED
    BY <1>4, <2>1, <2>2, <2>3, GetFacts
<1>13. ActiveNode(w) = new
  <2>1. All(w) = s /\ ActiveId(w) = a
    BY <1>4, <1>9, <1>11 DEF All, ActiveId
  <2> QED
    BY <1>7, <1>12, <2>1, Acting
<1>14. mid \notin Ids(w)
  <2>1. \A j \in DOMAIN l : l[j].id # mid
    BY <1>3 DEF IdsOf
  <2>2. \A i \in DOMAIN s : s[i].id # mid
    BY <1>4, <1>8, <2>1
  <2> QED
    BY <1>9, <1>11, <2>2 DEF Ids, IdsOf, All
<1> QED
  BY <1>2, <1>4, <1>11, <1>12, <1>13, <1>14 DEF Granted, w, a, c, new, mid

-----------------------------------------------------------------------------
(* The ids that are made by requests to come, and the entries without them.   *)
Fresh == UNION {{NewId(q), LegacyId(q)} : q \in {p \in Requests : ~Started(p)}}
Known == Others(Fresh)

(* Requests that end with an entry in the log.                                *)
Audits(x) == \/ x.op \in {"pair", "forward"}
             \/ x.op = "challenge" /\ x.out # "resolved"
             \/ x.op \in {"callback", "bind"} /\ x.out = "ok"

(* The records of the requests: where an operation may be, and what it has    *)
(* reached there.                                                             *)
PairOk(r, x) ==
    /\ x.arg.agent \in Agents
    /\ \/ x.at = "pair" /\ Asked(r, x)
       \/ x.at = "finish" /\ x.out = "failed" /\ GivenUp(Now(x.h), x.before)
       \/ x.at = "finish" /\ x.out = "ok" /\ Granted(r, Now(x.h), x.arg.agent, x.got)

DeleteOk(r, x) ==
    /\ x.at = "finish"
    /\ x.arg.id \in NodeIds /\ x.arg.id \notin IdsOf(Now(x.h).nodes)
    /\ \A q \in Requests : q > r => x.arg.id \notin {NewId(q), LegacyId(q)}

(* The chosen node of a challenge is on its copy, which needs no migration.    *)
Chosen(v, id) == id = None \/ (id \in Ids(v) /\ (v.nodes = <<>> => v.settings.url = None))

ReqOk(r, x) ==
    /\ x.op = "none" => x.h = <<>> /\ x.at = "idle"
    /\ x.at = "pair" => x.op = "pair"
    /\ x.at = "forward" => x.op = "forward"
    /\ x.at = "fetch" => x.op = "status" /\ x.arg.key \in Projections \X (NodeIds \cup {None})
    /\ x.op = "pair" => PairOk(r, x)
    /\ x.op = "delete" => DeleteOk(r, x)
    /\ x.op = "save" => x.at = "finish" /\ Now(x.h).settings.node \in AllAgents
    /\ x.op = "challenge" => Chosen(Now(x.h), x.arg.key)

(* The variables: every copy is one the registry can make, requests start in  *)
(* order, and a history is written option by option.                          *)
WInv ==
    /\ IInv
    /\ site \in CopiesOf(Known, SettingSet, Logs)
    /\ \A r \in Requests : Started(r) => History(req[r].h, Known, SettingSet, Logs) /\ OneByOne(req[r].h)
    /\ \A r \in Requests : Started(r) => req[r].h[1].old = site.old
    /\ \A r \in Requests : ReqOk(r, req[r])
    /\ \A r, q \in Requests : q < r /\ Started(r) => Started(q)
    /\ agent \in [Agents -> 1..MaxGen]
    /\ DOMAIN cache \subseteq Projections \X (NodeIds \cup {None})
    /\ \A c \in chal : c.agent \in Agents

-----------------------------------------------------------------------------
(* What a step of request r may do to the records of the requests.            *)
Frame(r) ==
    /\ Shaped' /\ req'[r].op # "none"
    /\ Started(r) => /\ req'[r].op = req[r].op /\ req'[r].arg = req[r].arg
                     /\ req'[r].before = req[r].before /\ (req'[r].solo => req[r].solo)
                     /\ \A q \in Requests \ {r} : req'[q] = req[q]
    /\ ~Started(r) => /\ \A q \in 1..(r - 1) : Started(q)
                      /\ req'[r].solo => \A p \in Requests : ~Running(p)
                      /\ \A q \in Requests \ {r} : /\ Same(req[q], req'[q]) /\ req'[q].h = req[q].h
                                                   /\ req'[q].solo => req[q].solo /\ ~Running(q)

(* A request that starts.                                                     *)
LEMMA Starting ==
    ASSUME Shaped, NEW r \in Requests, NEW op, op # "none", NEW arg, NEW at, NEW h, NEW got,
           BeginWith(r, op, arg, at, h, got)
    PROVE  /\ Frame(r) /\ ~Started(r)
           /\ req'[r].op = op /\ req'[r].arg = arg /\ req'[r].at = at /\ req'[r].h = h
           /\ req'[r].got = got /\ req'[r].out = "none"
           /\ req'[r].before = Now(Migrate(<<site>>, LegacyId(r)))
<1> DEFINE all == \A p \in Requests : ~Running(p)
           y == [op |-> op, arg |-> arg, at |-> at, h |-> h,
                 before |-> Now(Migrate(<<site>>, LegacyId(r))),
                 out |-> "none", got |-> got, solo |-> all]
<1>1. /\ req' = [q \in Requests |-> IF q = r THEN y ELSE [req[q] EXCEPT !.solo = @ /\ ~Running(q)]]
      /\ ~Started(r) /\ \A q \in 1..(r - 1) : Started(q)
  BY DEF BeginWith
<1>2. /\ Shaped' /\ \A q \in Requests \ {r} : Same(req[q], req'[q])
      /\ req'[r].op = op /\ req'[r].arg = arg /\ req'[r].at = at /\ req'[r].got = got
      /\ req'[r].before = Now(Migrate(<<site>>, LegacyId(r)))
  BY Begins
<1>3. y.h = h /\ y.out = "none" /\ (y.solo => all)
  BY Zenon
<1> HIDE DEF y, all
<1>4. req'[r] = y
  BY <1>1
<1>5. \A q \in Requests \ {r} : req'[q].h = req[q].h /\ (req'[q].solo => req[q].solo /\ ~Running(q))
  <2> SUFFICES ASSUME NEW q \in Requests \ {r}
               PROVE  req'[q].h = req[q].h /\ (req'[q].solo => req[q].solo /\ ~Running(q))
    OBVIOUS
  <2>1. req'[q] = [req[q] EXCEPT !.solo = @ /\ ~Running(q)]
    BY <1>1
  <2>2. DOMAIN req[q] = Fields
    BY DEF Shaped
  <2>3. "h" \in Fields /\ "solo" \in Fields /\ "h" # "solo"
    BY DEF Fields
  <2>4. req'[q].h = req[q].h
    BY <2>1, <2>2, <2>3
  <2>5. req'[q].solo = (req[q].solo /\ ~Running(q))
    BY <2>1, <2>2, <2>3, Zenon
  <2> QED
    BY <2>4, <2>5, Zenon
<1>6. req'[r].solo => all
  BY <1>3, <1>4, Zenon
<1>7. Frame(r)
  <2>1. req'[r].op # "none"
    BY <1>2
  <2>2. req'[r].solo => \A p \in Requests : ~Running(p)
    BY <1>6 DEF all
  <2> QED
    BY <1>1, <1>2, <1>5, <2>1, <2>2, Zenon DEF Frame
<1> QED
  BY <1>1, <1>2, <1>3, <1>4, <1>7

(* A request that goes on.                                                    *)
LEMMA Continuing ==
    ASSUME Shaped, NEW r \in Requests, Started(r), NEW y, req' = [req EXCEPT ![r] = y],
           DOMAIN y = Fields, y = [k \in Fields |-> y[k]],
           y.op = req[r].op, y.arg = req[r].arg, y.before = req[r].before, y.solo = req[r].solo
    PROVE  Frame(r) /\ req'[r] = y
<1>1. Shaped' /\ req'[r] = y /\ \A q \in Requests \ {r} : req'[q] = req[q]
  BY GoesOn
<1>2. req[r].op # "none"
  BY DEF Started
<1> QED
  BY <1>1, <1>2 DEF Frame

(* All operations of the registry extend a history within closed sets.        *)
LEMMA Operations ==
    ASSUME NEW r \in Requests, NEW N, NEW S, NEW L, NEW A, NEW E, Closed(N, S, A, E, r),
           NEW h, History(h, N, S, L)
    PROVE  LET id == LegacyId(r)
           IN  /\ History(Migrate(h, id), N, S, L) /\ Continues(h, Migrate(h, id))
               /\ \A n \in N : History(Upsert(h, id, n), N, S, L) /\ Continues(h, Upsert(h, id, n))
               /\ \A i : History(SetActive(h, id, i), N, S, L) /\ Continues(h, SetActive(h, id, i))
               /\ \A i : Spares(h, id, N, i) =>
                         History(Remove(h, id, i), N, S, L) /\ Continues(h, Remove(h, id, i))
               /\ \A s \in S : History(SetMany(h, s), N, S, L) /\ Continues(h, SetMany(h, s))
<1> DEFINE id == LegacyId(r)
<1>1. id \in NodeIds /\ Makes(N, S, id) /\ S \subseteq SettingSet /\ N \subseteq Entries
  BY IdFacts DEF Closed
<1> HIDE DEF id
<1>2. History(Migrate(h, id), N, S, L) /\ Continues(h, Migrate(h, id))
  BY <1>1, Migrates
<1>3. \A n \in N : History(Upsert(h, id, n), N, S, L) /\ Continues(h, Upsert(h, id, n))
  BY <1>1, Upserts
<1>4. \A i : History(SetActive(h, id, i), N, S, L) /\ Continues(h, SetActive(h, id, i))
  BY <1>1, SetsActive
<1>5. \A i : Spares(h, id, N, i) => History(Remove(h, id, i), N, S, L) /\ Continues(h, Remove(h, id, i))
  BY <1>1, Removes
<1>6. \A s \in S : History(SetMany(h, s), N, S, L) /\ Continues(h, SetMany(h, s))
  BY SetsMany
<1> QED
  BY <1>2, <1>3, <1>4, <1>5, <1>6 DEF id

-----------------------------------------------------------------------------
(* What a step of request r does that writes no option: its history goes on   *)
(* by what the registry does to it, and the log takes one entry at the end.   *)
Base(r) == IF Started(r) THEN req[r].h ELSE <<site>>

Derived(r, g) ==
    \A N, S, L, A, E :
        /\ Closed(N, S, A, E, r) /\ L \subseteq Logs /\ History(Base(r), N, S, L)
        /\ req'[r].op = "pair" => req'[r].arg.agent \in A
        /\ req'[r].op = "save" => Now(g).settings.node \in A
        /\ req'[r].op = "delete" => Now(g).nodes # <<>> \/ Now(Base(r)).old.nodes \in Lists(N)
        /\ E \/ ~edited'
        => History(g, N, S, L) /\ Continues(Base(r), g)

Reaches(r, y) ==
    \E g : /\ Derived(r, g)
           /\ y.h = IF y.at = "finish" /\ Audits(y) THEN Log(g, r) ELSE g

Surroundings ==
    /\ site' = site
    /\ edited => edited'
    /\ agent' \in [Agents -> 1..MaxGen]
    /\ DOMAIN cache' \subseteq Projections \X (NodeIds \cup {None})
    /\ \A c \in chal' : c.agent \in Agents

Effect(r) ==
    /\ Frame(r) /\ req[r].at # "finish"
    /\ ReqOk(r, req'[r]) /\ Reaches(r, req'[r])
    /\ Surroundings

(* More entries and settings, with all logs.                                  *)
LEMMA MoreCopies ==
    ASSUME NEW N, NEW N2, N \subseteq N2, NEW S, NEW S2, S \subseteq S2
    PROVE  /\ CopiesOf(N, S, Logs) \subseteq CopiesOf(N2, S2, Logs)
           /\ \A h : History(h, N, S, Logs) => History(h, N2, S2, Logs)
<1>1. Logs \subseteq Logs
  OBVIOUS
<1> QED
  BY <1>1, Larger

(* A request that has not started finds the options, one that has its copy.   *)
LEMMA Found ==
    ASSUME WInv, NEW r \in Requests, ~Started(r)
    PROVE  /\ AnyHistory(<<site>>) /\ History(<<site>>, Known, SettingSet, Logs) /\ Now(<<site>>) = site
           /\ site \in CopiesOf(Entries, SettingSet, Logs)
           /\ site \in CopiesOf(Others({NewId(r)}), SettingSet, Logs)
           /\ req[r].at = "idle" /\ Base(r) = <<site>>
           /\ \A q \in Requests : q > r => ~Started(q)
<1>1. site \in CopiesOf(Known, SettingSet, Logs) /\ Known \subseteq Entries
  BY DEF WInv, Known, Others
<1>2. NewId(r) \in Fresh
  BY DEF Fresh
<1>3. Known \subseteq Others({NewId(r)})
  BY <1>2 DEF Known, Others
<1>4. site \in CopiesOf(Entries, SettingSet, Logs) /\ site \in CopiesOf(Others({NewId(r)}), SettingSet, Logs)
  BY <1>1, <1>3, Larger
<1>5. AnyHistory(<<site>>) /\ History(<<site>>, Known, SettingSet, Logs) /\ Now(<<site>>) = site
  BY <1>1, <1>4 DEF AnyHistory, History, Now
<1>6. req[r].at = "idle"
  BY DEF WInv, ReqOk, Started
<1>7. \A q \in Requests : q > r => ~Started(q)
  BY DEF WInv, Requests
<1> QED
  BY <1>4, <1>5, <1>6, <1>7 DEF Base

(* A request that has started works on its own copy.                          *)
LEMMA Held ==
    ASSUME WInv, NEW r \in Requests, Started(r)
    PROVE  /\ AnyHistory(req[r].h) /\ Base(r) = req[r].h
           /\ Now(req[r].h) \in CopiesOf(Entries, SettingSet, Logs)
<1>1. History(req[r].h, Known, SettingSet, Logs) /\ Known \subseteq Entries
  BY DEF WInv, Known, Others
<1>2. History(req[r].h, Entries, SettingSet, Logs)
  <2>1. SettingSet \subseteq SettingSet
    OBVIOUS
  <2> QED
    BY <1>1, <2>1, MoreCopies
<1> QED
  BY <1>2, Puts DEF AnyHistory, Base

(* A history that stays as it is.                                             *)
LEMMA Stays ==
    ASSUME NEW r \in Requests
    PROVE  Derived(r, Base(r))
<1> SUFFICES ASSUME NEW N, NEW S, NEW L, NEW A, NEW E, History(Base(r), N, S, L)
             PROVE  History(Base(r), N, S, L) /\ Continues(Base(r), Base(r))
  BY Zenon DEF Derived
<1> QED
  BY DEF Continues

(* A start has an effect of the described kind, and so has a step that goes   *)
(* on.                                                                        *)
LEMMA Begun ==
    ASSUME WInv, NEW r \in Requests, NEW op, op # "none", NEW arg, NEW at, NEW h, NEW got,
           BeginWith(r, op, arg, at, h, got),
           at = "finish" => op \notin {"pair", "forward", "challenge"},
           ReqOk(r, req'[r]), Derived(r, h), Surroundings
    PROVE  Effect(r)
<1>1. Shaped
  BY DEF WInv, IInv, Formed
<1>2. /\ Frame(r) /\ ~Started(r)
      /\ req'[r].op = op /\ req'[r].at = at /\ req'[r].h = h /\ req'[r].out = "none"
  BY <1>1, Starting
<1>3. req[r].at # "finish"
  BY <1>2, Found
<1>4. ~(req'[r].at = "finish" /\ Audits(req'[r]))
  BY <1>2 DEF Audits
<1>5. Reaches(r, req'[r])
  BY <1>2, <1>4 DEF Reaches
<1> QED
  BY <1>2, <1>3, <1>5 DEF Effect

LEMMA WentOn ==
    ASSUME WInv, NEW r \in Requests, Started(r), req[r].at # "finish", NEW y, req' = [req EXCEPT ![r] = y],
           DOMAIN y = Fields, y = [k \in Fields |-> y[k]],
           y.op = req[r].op, y.arg = req[r].arg, y.before = req[r].before, y.solo = req[r].solo,
           Reaches(r, y), ReqOk(r, y), Surroundings
    PROVE  Effect(r)
<1>1. Shaped
  BY DEF WInv, IInv, Formed
<1>2. Frame(r) /\ req'[r] = y
  BY <1>1, Continuing
<1> QED
  BY <1>2 DEF Effect

-----------------------------------------------------------------------------
(* The steps of the administration.                                           *)
LEMMA AddEffect == ASSUME WInv, NEW r \in Requests, NodeAdd(r), UNCHANGED idVars PROVE Effect(r)
<1> DEFINE arg(a) == [NoArg EXCEPT !.id = NewId(r), !.agent = a]
           g(a) == Upsert(<<site>>, LegacyId(r), Node(NewId(r), a, None))
<1>1. PICK a \in Agents : BeginWith(r, "add", arg(a), "finish", g(a), None)
  BY DEF NodeAdd, Begin
<1>2. Surroundings
  BY DEF NodeAdd, WInv, Surroundings, idVars
<1>3. /\ ~Started(r) /\ req'[r].op = "add" /\ req'[r].at = "finish"
  BY <1>1, Starting DEF WInv, IInv, Formed
<1>4. ReqOk(r, req'[r])
  BY <1>3 DEF ReqOk
<1>5. Derived(r, g(a))
  <2> SUFFICES ASSUME NEW N, NEW S, NEW L, NEW A, NEW E, Closed(N, S, A, E, r), History(<<site>>, N, S, L)
               PROVE  History(g(a), N, S, L) /\ Continues(<<site>>, g(a))
    BY <1>3, Found DEF Derived
  <2>1. Node(NewId(r), a, None) \in N
    BY DEF Closed, Adds
  <2> QED
    BY <2>1, Operations
<1> HIDE DEF arg, g
<1> QED
  BY <1>1, <1>2, <1>4, <1>5, Begun

(* What is entered is a credential or nothing.                                *)
LEMMA TypedFacts == ASSUME WInv PROVE Typed \subseteq Credentials
<1> SUFFICES ASSUME NEW a \in Agents, NEW n \in 1..agent[a] PROVE <<a, n>> \in Credentials
  BY DEF Typed, Credentials
<1>1. agent[a] \in Nat /\ n \in Nat
  BY BoundAssumption DEF WInv
<1> QED
  BY <1>1 DEF Credentials

(* An updated entry has an id that was there, and the entered credential or   *)
(* the kept one.                                                              *)
LEMMA UpdateEffect == ASSUME WInv, NEW r \in Requests, NodeUpdate(r), UNCHANGED idVars PROVE Effect(r)
<1> DEFINE m == Migrate(<<site>>, LegacyId(r))
           n(id, a, c) == Node(id, a, IF c = None THEN Get(Now(m), id).cred ELSE c)
           arg(id, a) == [NoArg EXCEPT !.id = id, !.agent = a]
           g(id, a, c) == Upsert(m, LegacyId(r), n(id, a, c))
<1>1. PICK id \in Ids(Now(m)), a \in Agents, c \in Typed :
         /\ Begin(r, "update", arg(id, a), "finish", g(id, a, c))
         /\ edited' = (edited \/ ~NodeOwned(n(id, a, c)))
         /\ UNCHANGED <<site, agent, cache>>
  BY DEF NodeUpdate
<1>2. BeginWith(r, "update", arg(id, a), "finish", g(id, a, c), None)
  BY <1>1 DEF Begin
<1>3. Surroundings
  <2>1. edited => edited'
    BY <1>1, Zenon
  <2> QED
    BY <1>1, <2>1 DEF WInv, Surroundings, idVars
<1>4. /\ ~Started(r) /\ req'[r].op = "update" /\ req'[r].at = "finish"
  BY <1>2, Starting DEF WInv, IInv, Formed
<1>5. ReqOk(r, req'[r])
  BY <1>4 DEF ReqOk
<1>6. c \in Credentials
  BY <1>1, TypedFacts
<1>7. Derived(r, g(id, a, c))
  <2> SUFFICES ASSUME NEW N, NEW S, NEW L, NEW A, NEW E, Closed(N, S, A, E, r), History(<<site>>, N, S, L),
                      E \/ ~edited'
               PROVE  History(g(id, a, c), N, S, L) /\ Continues(<<site>>, g(id, a, c))
    BY <1>4, Found, ZenonT(40) DEF Derived
  <2>1. History(m, N, S, L) /\ Continues(<<site>>, m)
    BY Operations
  <2>2. All(Now(m)) \in Seq(N)
    BY <2>1, Puts DEF CopiesOf, Lists
  <2> DEFINE old == Get(Now(m), id)
             nn == n(id, a, c)
  <2>3. old \in N /\ old.id = id
    BY <1>1, <2>2, GetFacts
  <2>4. E \/ NodeOwned(nn)
    BY <1>1, Zenon
  <2>6. Updates(N, E)
    BY DEF Closed
  <2>7. nn = Node(old.id, a, IF c = None THEN old.cred ELSE c)
    BY <2>3
  <2> HIDE DEF old, nn
  <2>8. nn \in N
    BY <1>6, <2>3, <2>4, <2>6, <2>7, Zenon DEF Updates
  <2>9. n(id, a, c) \in N
    BY <2>8 DEF nn
  <2> HIDE DEF m, n
  <2>10. History(g(id, a, c), N, S, L) /\ Continues(m, g(id, a, c))
    BY <2>1, <2>9, Operations
  <2> QED
    BY <2>1, <2>10, ContinuesOn
<1> HIDE DEF arg, g
<1> QED
  BY <1>2, <1>3, <1>5, <1>7, Begun

(* The nodes of the former name are entries of no request.                    *)
LEMMA OldFacts ==
    ASSUME NEW o \in Olds
    PROVE  /\ o.nodes \in Lists(Entries)
           /\ \A D : D \subseteq NewIds => o.nodes \in Lists(Others(D))
<1>1. o.nodes \in Lists(Others(NewIds))
  BY DEF Olds
<1>2. \A D : D \subseteq NewIds => Others(NewIds) \subseteq Others(D) /\ Others(D) \subseteq Entries
  BY DEF Others
<1>3. \A D : D \subseteq NewIds => o.nodes \in Lists(Others(D))
  BY <1>1, <1>2 DEF Lists
<1>4. \A N : o.nodes \in Lists(N) /\ N \subseteq Entries => o.nodes \in Lists(Entries)
  BY DEF Lists
<1> QED
  BY <1>1, <1>2, <1>3, <1>4

(* The deleted id is not in the last copy, and is not made by a later         *)
(* request.                                                                   *)
LEMMA DeleteEffect == ASSUME WInv, NEW r \in Requests, NodeDelete(r), UNCHANGED idVars PROVE Effect(r)
<1> DEFINE lid == LegacyId(r)
           m == Migrate(<<site>>, lid)
           arg(id) == [NoArg EXCEPT !.id = id]
           g(id) == Remove(<<site>>, lid, id)
<1>1. PICK id \in Ids(Now(m)) : BeginWith(r, "delete", arg(id), "finish", g(id), None)
  BY DEF NodeDelete, Begin
<1>2. Surroundings
  BY DEF NodeDelete, WInv, Surroundings, idVars
<1>3. /\ ~Started(r) /\ req'[r].op = "delete" /\ req'[r].at = "finish" /\ req'[r].arg.id = id
      /\ req'[r].h = g(id)
  <2>1. arg(id).id = id
    BY DEF NoArg
  <2> HIDE DEF arg, g
  <2> QED
    BY <1>1, <2>1, Starting DEF WInv, IInv, Formed
<1>4. AnyHistory(<<site>>) /\ \A q \in Requests : q > r => ~Started(q)
  BY <1>3, Found
<1>5. id \notin IdsOf(Now(g(id)).nodes) /\ Now(g(id)).nodes = Without(All(Now(m)), id)
  <2>1. History(<<site>>, Entries, SettingSet, Logs) /\ Makes(Entries, SettingSet, lid) /\ lid \in NodeIds
    BY <1>4, AllMake, IdFacts DEF AnyHistory, Closed
  <2>2. SettingSet \subseteq SettingSet /\ Entries \subseteq Entries
    OBVIOUS
  <2> DEFINE hh == <<site>>
             s == All(Now(m))
             w == Without(s, id)
  <2> HIDE DEF lid, hh
  <2>8. Spares(hh, lid, Entries, id)
    <3>1. Now(hh).old \in Olds
      BY <2>1, Puts DEF hh, CopiesOf
    <3> QED
      BY <3>1, OldFacts DEF Spares
  <2>3. Now(Remove(hh, lid, id)).nodes = w
    BY <1>1, <2>1, <2>2, <2>8, Removes DEF hh
  <2>4. History(m, Entries, SettingSet, Logs)
    BY <2>1, <2>2, Migrates DEF hh
  <2> HIDE DEF m
  <2>5. s \in Seq(Entries)
    BY <2>4, Puts DEF CopiesOf, Lists
  <2> HIDE DEF s
  <2>6. \A k \in DOMAIN w : \E j \in DOMAIN s : w[k] = s[j] /\ s[j].id # id
    BY <2>5, WithoutFacts
  <2>7. \A k \in DOMAIN w : w[k].id # id
    BY <2>6
  <2> HIDE DEF w
  <2> QED
    BY <2>3, <2>7 DEF IdsOf, hh, s, m, w
<1>6. id \in NodeIds
  <2>1. History(m, Entries, SettingSet, Logs)
    BY <1>4, AllMake, Operations DEF AnyHistory
  <2> HIDE DEF m
  <2>2. All(Now(m)) \in Seq(Entries)
    BY <2>1, Puts DEF CopiesOf, Lists
  <2>3. PICK i \in DOMAIN All(Now(m)) : id = All(Now(m))[i].id
    BY <1>1 DEF Ids, IdsOf
  <2>4. All(Now(m))[i] \in Entries
    BY <2>2, <2>3
  <2> QED
    BY <2>3, <2>4 DEF Entries
<1>7. ASSUME NEW q \in Requests, q > r PROVE id \notin {NewId(q), LegacyId(q)}
  <2> DEFINE D == {NewId(q), LegacyId(q)}
             N == Others(D)
  <2>1. NewId(r) \notin D /\ LegacyId(r) \notin D /\ None \notin D
    <3>1. q # r /\ q \in Nat /\ r \in Nat
      BY <1>7, IdFacts
    <3> QED
      BY <3>1, IdFacts
  <2>2. Closed(N, OtherSets(D), AllAgents \ D, TRUE, r)
    BY <2>1, OthersClosed
  <2>3. site \in CopiesOf(N, OtherSets(D), Logs)
    <3>1. D \subseteq Fresh
      BY <1>4, <1>7 DEF Fresh
    <3>2. Known \subseteq N
      BY <3>1 DEF Known, Others
    <3>3. SettingSet \subseteq OtherSets(D)
      BY IdFacts DEF OtherSets, SettingSet, AllAgents
    <3>4. site \in CopiesOf(Known, SettingSet, Logs)
      BY DEF WInv
    <3> HIDE DEF D, N
    <3>6. CopiesOf(Known, SettingSet, Logs) \subseteq CopiesOf(N, OtherSets(D), Logs)
      BY <3>2, <3>3, MoreCopies
    <3> QED
      BY <3>4, <3>6
  <2> HIDE DEF N
  <2>4. History(<<site>>, N, OtherSets(D), Logs)
    BY <2>3 DEF History
  <2>5. History(m, N, OtherSets(D), Logs)
    BY <2>2, <2>4, Operations
  <2> HIDE DEF m
  <2>6. All(Now(m)) \in Seq(N)
    BY <2>5, Puts DEF CopiesOf, Lists
  <2>7. PICK i \in DOMAIN All(Now(m)) : id = All(Now(m))[i].id
    BY <1>1 DEF Ids, IdsOf
  <2> QED
    BY <2>6, <2>7 DEF N, Others
<1>8. ReqOk(r, req'[r])
  <2>1. DeleteOk(r, req'[r])
    BY <1>3, <1>5, <1>6, <1>7 DEF DeleteOk
  <2> QED
    BY <1>3, <2>1 DEF ReqOk
<1>9. Derived(r, g(id))
  <2> SUFFICES ASSUME NEW N, NEW S, NEW L, NEW A, NEW E, Closed(N, S, A, E, r), History(<<site>>, N, S, L),
                      Now(g(id)).nodes # <<>> \/ Now(<<site>>).old.nodes \in Lists(N)
               PROVE  History(g(id), N, S, L) /\ Continues(<<site>>, g(id))
    BY <1>3, Found DEF Derived
  <2>1. Spares(<<site>>, lid, N, id)
    BY <1>5 DEF Spares
  <2> QED
    BY <2>1, Operations
<1> HIDE DEF arg, g
<1> QED
  BY <1>1, <1>2, <1>8, <1>9, Begun

(* An entry in the log changes nothing else.                                  *)
LEMMA LogKeeps ==
    ASSUME NEW h, AnyHistory(h), NEW r \in Requests
    PROVE  /\ AnyHistory(Log(h, r))
           /\ Now(Log(h, r)).nodes = Now(h).nodes /\ Now(Log(h, r)).active = Now(h).active
           /\ Now(Log(h, r)).settings = Now(h).settings /\ Now(Log(h, r)).old = Now(h).old
<1> DEFINE more == Logged(Now(h).audit, r)
           g == Put(h, "audit", more)
<1>1. Log(h, r) = g
  BY DEF Log, Logged
<1>2. History(h, Entries, SettingSet, Logs)
  BY DEF AnyHistory
<1>3. Now(h).audit \in Logs
  BY <1>2, Puts DEF CopiesOf
<1>4. more \in Logs
  BY <1>3, LoggedFacts
<1> HIDE DEF more
<1>5. /\ History(g, Entries, SettingSet, Logs)
      /\ Now(g).nodes = Now(h).nodes /\ Now(g).active = Now(h).active
      /\ Now(g).settings = Now(h).settings /\ Now(g).old = Now(h).old
  BY <1>2, <1>4, Puts
<1> QED
  BY <1>1, <1>5 DEF AnyHistory

(* A switch changes nothing but the active id.                                *)
LEMMA SwitchEffect == ASSUME WInv, NEW r \in Requests, SwitchNode(r), UNCHANGED idVars PROVE Effect(r)
<1> DEFINE arg(id) == [NoArg EXCEPT !.id = id]
           g(id) == SetActive(<<site>>, LegacyId(r), id)
<1>1. \E id : BeginWith(r, "switch", arg(id), "finish", g(id), None)
  BY DEF SwitchNode, Begin
<1>2. PICK id : BeginWith(r, "switch", arg(id), "finish", g(id), None)
  BY <1>1
<1>3. Surroundings
  BY DEF SwitchNode, WInv, Surroundings, idVars
<1>4. /\ ~Started(r) /\ req'[r].op = "switch" /\ req'[r].at = "finish"
  BY <1>2, Starting DEF WInv, IInv, Formed
<1>5. ReqOk(r, req'[r])
  BY <1>4 DEF ReqOk
<1>6. Derived(r, g(id))
  <2> SUFFICES ASSUME NEW N, NEW S, NEW L, NEW A, NEW E, Closed(N, S, A, E, r), History(<<site>>, N, S, L)
               PROVE  History(g(id), N, S, L) /\ Continues(<<site>>, g(id))
    BY <1>4, Found DEF Derived
  <2> QED
    BY Operations
<1> HIDE DEF arg, g
<1> QED
  BY <1>2, <1>3, <1>5, <1>6, Begun

(* Saved settings hold the entered credential or the kept one.                *)
LEMMA SaveEffect == ASSUME WInv, NEW r \in Requests, SaveSettings(r), UNCHANGED idVars PROVE Effect(r)
<1> DEFINE old == site.settings
           arg(url) == [NoArg EXCEPT !.agent = url]
           s(url, node, c) == Settings(url, IF c = None THEN old.cred ELSE c, node)
           g(url, node, c) == SetMany(<<site>>, s(url, node, c))
<1>1. PICK url \in Agents \cup {None}, node \in Agents \cup {None}, c \in Typed :
         /\ BeginWith(r, "save", arg(url), "finish", g(url, node, c), None)
         /\ edited' = (edited \/ ~SettingsOwned(s(url, node, c)))
         /\ UNCHANGED <<site, agent, cache>>
  BY DEF SaveSettings, Begin
<1> DEFINE ss == s(url, node, c)
           gg == g(url, node, c)
<1>2. Surroundings
  <2>1. edited => edited'
    BY <1>1, Zenon
  <2> QED
    BY <1>1, <2>1 DEF WInv, Surroundings, idVars
<1>3. /\ ~Started(r) /\ req'[r].op = "save" /\ req'[r].at = "finish" /\ req'[r].h = gg
  <2> HIDE DEF arg, g
  <2> QED
    BY <1>1, Starting DEF WInv, IInv, Formed
<1>4. /\ site \in CopiesOf(Entries, SettingSet, Logs) /\ AnyHistory(<<site>>) /\ Now(<<site>>) = site
  BY <1>3, Found
<1>5. old \in SettingSet /\ c \in Credentials
  BY <1>1, <1>4, TypedFacts DEF CopiesOf
<1>6. ss \in SettingSet /\ ss.node = node
  BY <1>1, <1>5 DEF Settings, SettingSet
<1>8. Now(gg).settings = ss
  <2> HIDE DEF ss
  <2>1. History(<<site>>, Entries, SettingSet, Logs)
    BY <1>4 DEF AnyHistory
  <2> QED
    BY <1>6, <2>1, SetsMany DEF ss
<1>9. Derived(r, gg)
  <2> SUFFICES ASSUME NEW N, NEW S, NEW L, NEW A, NEW E, Closed(N, S, A, E, r), History(<<site>>, N, S, L),
                      Now(gg).settings.node \in A, E \/ ~edited'
               PROVE  History(gg, N, S, L) /\ Continues(<<site>>, gg)
    <3> HIDE DEF gg
    <3> QED
      BY <1>3, Found, ZenonT(40) DEF Derived
  <2>1. old \in S
    BY <1>4, Puts DEF CopiesOf
  <2>2. E \/ SettingsOwned(ss)
    BY <1>1, Zenon
  <2>3. Saves(S, A, E) /\ node \in A /\ url \in AllAgents
    BY <1>1, <1>6, <1>8 DEF Closed, AllAgents
  <2>4. ss = Settings(url, IF c = None THEN old.cred ELSE c, node)
    OBVIOUS
  <2> HIDE DEF old, ss
  <2>5. ss \in S
    BY <1>5, <2>1, <2>2, <2>3, <2>4, Zenon DEF Saves
  <2> QED
    BY <2>5, Operations DEF ss
<1>11. node \in AllAgents
  BY DEF AllAgents
<1> HIDE DEF arg, gg, ss
<1>10. ReqOk(r, req'[r])
  BY <1>3, <1>6, <1>8, <1>11 DEF ReqOk
<1> QED
  BY <1>1, <1>2, <1>9, <1>10, Begun DEF gg

(* Pairing.                                                                   *)
LEMMA PairEffect == ASSUME WInv, NEW r \in Requests, Pair(r), UNCHANGED idVars PROVE Effect(r)
<1> DEFINE n(a) == Node(NewId(r), a, None)
           f(a) == Upsert(<<site>>, LegacyId(r), n(a))
           g(a) == SetActive(f(a), LegacyId(r), NewId(r))
           arg(a) == [NoArg EXCEPT !.id = ActiveId(site), !.agent = a]
<1>1. PICK a \in Agents : BeginWith(r, "pair", arg(a), "pair", g(a), None)
  BY DEF Pair, Begin
<1>2. Surroundings
  BY DEF Pair, WInv, Surroundings, idVars
<1>3. /\ ~Started(r) /\ req'[r].op = "pair" /\ req'[r].at = "pair"
      /\ req'[r].arg.agent = a /\ req'[r].arg.id = ActiveId(site) /\ req'[r].h = g(a)
      /\ req'[r].before = Now(Migrate(<<site>>, LegacyId(r)))
  <2>1. arg(a).agent = a /\ arg(a).id = ActiveId(site)
    BY DEF NoArg
  <2> HIDE DEF arg, g
  <2> QED
    BY <1>1, <2>1, Starting DEF WInv, IInv, Formed
<1>4. site \in CopiesOf(Others({NewId(r)}), SettingSet, Logs)
  BY <1>3, Found
<1>5. ReqOk(r, req'[r])
  <2>1. Asked(r, req'[r])
    BY <1>3, <1>4, PairAsks
  <2>2. PairOk(r, req'[r])
    BY <1>3, <2>1 DEF PairOk
  <2> QED
    BY <1>3, <2>2 DEF ReqOk
<1>6. Derived(r, g(a))
  <2> SUFFICES ASSUME NEW N, NEW S, NEW L, NEW A, NEW E, Closed(N, S, A, E, r), History(<<site>>, N, S, L)
               PROVE  History(g(a), N, S, L) /\ Continues(<<site>>, g(a))
    BY <1>3, Found DEF Derived
  <2>1. n(a) \in N
    BY DEF Closed, Adds
  <2> HIDE DEF n
  <2>2. History(f(a), N, S, L) /\ Continues(<<site>>, f(a))
    BY <2>1, Operations
  <2> HIDE DEF f
  <2>3. History(g(a), N, S, L) /\ Continues(f(a), g(a))
    BY <2>2, Operations
  <2> QED
    BY <2>2, <2>3, ContinuesOn
<1> HIDE DEF arg, g
<1> QED
  BY <1>1, <1>2, <1>5, <1>6, Begun

(* The answer of the agent: the provisional node is finished or taken back.   *)
LEMMA PairCallEffect == ASSUME WInv, NEW r \in Requests, PairCall(r), UNCHANGED idVars PROVE Effect(r)
<1> DEFINE x == req[r]
           a == x.arg.agent
           c == <<a, agent[a] + 1>>
           granted == PairGranted(x.h, r, a, c)
           failed == PairFailed(x.h, r, x.arg.id)
           Y(h, out, got) == [x EXCEPT !.h = Log(h, r), !.at = "finish", !.out = out, !.got = got]
<1>1. x.at = "pair" /\ UNCHANGED <<site, cache, edited>>
  BY DEF PairCall
<1>2. /\ x.op = "pair" /\ Started(r) /\ Asked(r, x) /\ a \in Agents /\ agent \in [Agents -> 1..MaxGen]
      /\ DOMAIN x = Fields
  BY <1>1 DEF WInv, ReqOk, PairOk, Asked, Started, IInv, Formed, Shaped
<1>3. AnyHistory(x.h) /\ Base(r) = x.h
  BY <1>2, Held
<1>4. agent[a] + 1 \in Nat /\ MaxGen \in Nat
  BY <1>2, BoundAssumption
<1>5. Surroundings
  <2>1. agent' \in [Agents -> 1..MaxGen]
    <3>1. UNCHANGED agent \/ (agent[a] < MaxGen /\ agent' = [agent EXCEPT ![a] = @ + 1])
      BY DEF PairCall
    <3> QED
      BY <1>2, <1>4, <3>1
  <2> QED
    BY <1>1, <2>1 DEF Surroundings, WInv, idVars
<1>6. PICK h, out, got :
        /\ req' = [req EXCEPT ![r] = Y(h, out, got)]
        /\ (h = granted /\ out = "ok" /\ got = c) \/ (h = failed /\ out = "failed")
  <2>1. \/ req' = [req EXCEPT ![r] = [@ EXCEPT !.h = Log(granted, r), !.at = "finish", !.out = "ok", !.got = c]]
        \/ req' = [req EXCEPT ![r] = [@ EXCEPT !.h = Log(failed, r), !.at = "finish", !.out = "failed", !.got = None]]
    BY DEF PairCall
  <2>2. Shaped
    BY DEF WInv, IInv, Formed
  <2> HIDE DEF granted, failed, a, c
  <2>3. \/ req' = [req EXCEPT ![r] = Y(granted, "ok", c)]
        \/ req' = [req EXCEPT ![r] = Y(failed, "failed", None)]
    BY <2>1, <2>2 DEF Shaped
  <2> QED
    BY <2>3
<1> DEFINE y == Y(h, out, got)
<1>7. /\ DOMAIN y = Fields /\ y = [k \in Fields |-> y[k]]
      /\ y.op = x.op /\ y.arg = x.arg /\ y.before = x.before /\ y.solo = x.solo
      /\ y.at = "finish" /\ y.out = out /\ y.got = got /\ y.h = Log(h, r)
  <2>1. x = [k \in Fields |-> x[k]]
    BY DEF WInv, IInv, Formed, Shaped
  <2> HIDE DEF granted, failed, a, c
  <2> QED
    BY <1>2, <2>1 DEF Fields
<1>8. Derived(r, h)
  <2>0. req'[r].op = "pair" /\ req'[r].arg.agent = a
    <3>1. req'[r] = y
      <4>1. Shaped
        BY DEF WInv, IInv, Formed
      <4> HIDE DEF granted, failed, a, c
      <4> QED
        BY <1>6, <4>1 DEF Shaped
    <3> HIDE DEF y
    <3> QED
      BY <1>2, <1>7, <3>1
  <2> SUFFICES ASSUME NEW N, NEW S, NEW L, NEW A, NEW E, Closed(N, S, A, E, r), History(x.h, N, S, L), a \in A
               PROVE  History(h, N, S, L) /\ Continues(x.h, h)
    BY <1>3, <2>0 DEF Derived
  <2> DEFINE lid == LegacyId(r)
             h1 == Remove(x.h, lid, NewId(r))
             h2 == Upsert(h1, lid, Node(a, a, c))
             h3 == SetActive(h2, lid, a)
             h4 == SetMany(h3, Settings(a, c, a))
             h5 == SetActive(h1, lid, x.arg.id)
  <2>1. History(h1, N, S, L) /\ Continues(x.h, h1)
    <3>1. Spares(x.h, lid, N, NewId(r))
      BY <1>2, <1>3, TakesBack
    <3> QED
      BY <3>1, Operations
  <2>2. Node(a, a, c) \in N /\ Settings(a, c, a) \in S
    <3>1. Pairs(N, S, A) /\ a \in A \cap Agents
      BY <1>2 DEF Closed
    <3> HIDE DEF a
    <3> QED
      BY <1>4, <3>1 DEF Pairs
  <2>3. granted = h4 /\ failed = h5
    BY DEF PairGranted, PairFailed
  <2> HIDE DEF h1, c, a, granted, failed
  <2>4. History(h5, N, S, L) /\ Continues(x.h, h5)
    <3>1. History(h5, N, S, L) /\ Continues(h1, h5)
      BY <2>1, Operations
    <3> HIDE DEF h5
    <3> QED
      BY <2>1, <3>1, ContinuesOn
  <2>5. History(h2, N, S, L) /\ Continues(x.h, h2)
    <3>1. History(h2, N, S, L) /\ Continues(h1, h2)
      BY <2>1, <2>2, Operations
    <3> HIDE DEF h2
    <3> QED
      BY <2>1, <3>1, ContinuesOn
  <2> HIDE DEF h2
  <2>6. History(h3, N, S, L) /\ Continues(x.h, h3)
    <3>1. History(h3, N, S, L) /\ Continues(h2, h3)
      BY <2>5, Operations
    <3> HIDE DEF h3
    <3> QED
      BY <2>5, <3>1, ContinuesOn
  <2> HIDE DEF h3
  <2>7. History(h4, N, S, L) /\ Continues(x.h, h4)
    <3>1. History(h4, N, S, L) /\ Continues(h3, h4)
      BY <2>2, <2>6, Operations
    <3> HIDE DEF h4
    <3> QED
      BY <2>6, <3>1, ContinuesOn
  <2> HIDE DEF h4, h5
  <2> QED
    BY <1>6, <2>3, <2>4, <2>7
<1>9. History(h, Entries, SettingSet, Logs)
  <2>1. Closed(Entries, SettingSet, AllAgents, TRUE, r) /\ Logs \subseteq Logs
    BY AllMake
  <2>2. History(Base(r), Entries, SettingSet, Logs)
    BY <1>3 DEF AnyHistory
  <2>3. req'[r].op = "pair" /\ req'[r].arg.agent \in AllAgents
    <3>1. Shaped
      BY DEF WInv, IInv, Formed
    <3> HIDE DEF granted, failed, c, Y
    <3>2. req'[r] = y
      BY <1>6, <3>1 DEF Shaped
    <3> HIDE DEF y
    <3> QED
      BY <1>2, <1>7, <3>2 DEF AllAgents
  <2> QED
    BY <1>8, <2>1, <2>2, <2>3, Zenon DEF Derived
<1>10. /\ Now(Log(h, r)).nodes = Now(h).nodes /\ Now(Log(h, r)).active = Now(h).active
       /\ Now(Log(h, r)).settings = Now(h).settings /\ Now(Log(h, r)).old = Now(h).old
  BY <1>9, LogKeeps DEF AnyHistory
<1>11. ReqOk(r, y)
  <2> DEFINE v == Now(h)
             w == Now(y.h)
  <2>1. w.nodes = v.nodes /\ w.active = v.active /\ w.settings = v.settings /\ w.old = v.old
    BY <1>7, <1>10
  <2>2. \/ out = "ok" /\ got = c /\ Granted(r, v, a, c)
        \/ out = "failed" /\ GivenUp(v, x.before)
    <3>1. Granted(r, Now(granted), a, c)
      BY <1>2, <1>3, <1>4, PairGrants
    <3>2. GivenUp(Now(failed), x.before)
      BY <1>2, <1>3, PairFails
    <3> HIDE DEF granted, failed, a, c
    <3> QED
      BY <1>6, <3>1, <3>2
  <2> HIDE DEF v, w
  <2>3. All(w) = All(v) /\ Ids(w) = Ids(v) /\ ActiveNode(w) = ActiveNode(v) /\ \A i : Get(w, i) = Get(v, i)
    BY <2>1 DEF Ids, All, ActiveId, ActiveNode, Get
  <2>4. PairOk(r, y)
    <3> HIDE DEF c, y
    <3>1. y.at = "finish" /\ y.arg.agent = a /\ y.out = out /\ y.got = got /\ y.before = x.before
      BY <1>7
    <3>2. GivenUp(v, x.before) => GivenUp(w, x.before)
      BY <2>1, <2>3 DEF GivenUp
    <3>3. Granted(r, v, a, c) => Granted(r, w, a, c)
      BY <2>1, <2>3 DEF Granted
    <3> HIDE DEF a
    <3> QED
      BY <1>2, <2>2, <3>1, <3>2, <3>3 DEF PairOk, w, a
  <2> HIDE DEF y
  <2> QED
    BY <1>2, <1>7, <2>4 DEF ReqOk
<1>12. Reaches(r, y)
  <2>1. Audits(y)
    BY <1>2, <1>7 DEF Audits
  <2> HIDE DEF y
  <2> QED
    BY <1>7, <1>8, <2>1 DEF Reaches
<1>13. req' = [req EXCEPT ![r] = y]
  BY <1>6
<1> HIDE DEF y, a, c, granted, failed
<1> QED
  BY <1>1, <1>2, <1>5, <1>7, <1>11, <1>12, <1>13, WentOn

(* Requests that write nothing but an entry of the log, and their copies.     *)
LEMMA IdsTyped == ASSUME NEW h, AnyHistory(h) PROVE Ids(Now(h)) \subseteq NodeIds
<1> SUFFICES ASSUME NEW i \in DOMAIN All(Now(h)) PROVE All(Now(h))[i].id \in NodeIds
  BY DEF Ids, IdsOf
<1>1. All(Now(h)) \in Seq(Entries)
  BY Puts DEF AnyHistory, CopiesOf, Lists
<1>2. All(Now(h))[i] \in Entries
  BY <1>1
<1> QED
  BY <1>2 DEF Entries

(* A request that writes no more than its entry of the log.                   *)
LEMMA Remains ==
    ASSUME WInv, NEW r \in Requests, Started(r), NEW y,
           y.h = IF y.at = "finish" /\ Audits(y) THEN Log(req[r].h, r) ELSE req[r].h
    PROVE  Reaches(r, y)
<1>1. Base(r) = req[r].h
  BY Held
<1>2. Derived(r, req[r].h)
  BY <1>1, Stays
<1> QED
  BY <1>2 DEF Reaches

(* Its record is as it should be.                                             *)
LEMMA RemainsOk ==
    ASSUME WInv, NEW r \in Requests, Started(r), NEW y, y.op = req[r].op, y.arg = req[r].arg,
           y.op \in {"forward", "status", "challenge", "callback", "bind"},
           y.at \in {"finish", "reread", "pend", "register"},
           y.h = req[r].h \/ y.h = Log(req[r].h, r)
    PROVE  ReqOk(r, y)
<1>1. y.op = "challenge" => Chosen(Now(req[r].h), y.arg.key)
  BY DEF WInv, ReqOk
<1>2. /\ Ids(Now(y.h)) = Ids(Now(req[r].h)) /\ Now(y.h).nodes = Now(req[r].h).nodes
      /\ Now(y.h).settings = Now(req[r].h).settings
  BY Held, LogKeeps DEF Ids, All
<1> QED
  BY <1>1, <1>2 DEF ReqOk, Chosen

(* A request that works on the copy it found, migrated or not.                *)
LEMMA MigratedOnly ==
    ASSUME WInv, NEW r \in Requests, ~Started(r), NEW h,
           h = <<site>> \/ h = Migrate(<<site>>, LegacyId(r))
    PROVE  Derived(r, h) /\ AnyHistory(h)
<1>1. AnyHistory(<<site>>) /\ Base(r) = <<site>>
  BY Found
<1>2. CASE h = <<site>>
  BY <1>1, <1>2, Stays
<1>3. CASE h = Migrate(<<site>>, LegacyId(r))
  <2>1. Derived(r, h)
    <3> SUFFICES ASSUME NEW N, NEW S, NEW L, NEW A, NEW E, Closed(N, S, A, E, r), History(<<site>>, N, S, L)
                 PROVE  History(h, N, S, L) /\ Continues(<<site>>, h)
      BY <1>1 DEF Derived
    <3> QED
      BY <1>3, Operations
  <2>2. AnyHistory(h)
    BY <1>1, <1>3, AllMake, Operations DEF AnyHistory
  <2> QED
    BY <2>1, <2>2
<1> QED
  BY <1>2, <1>3

(* A request is forwarded.                                                    *)
LEMMA ForwardEffect == ASSUME WInv, NEW r \in Requests, Forward(r), UNCHANGED idVars PROVE Effect(r)
<1> DEFINE g == Migrate(<<site>>, LegacyId(r))
           arg(id) == [NoArg EXCEPT !.id = id]
<1>1. \E id : BeginWith(r, "forward", arg(id), "forward", g, None)
  BY DEF Forward, Begin
<1>2. PICK id : BeginWith(r, "forward", arg(id), "forward", g, None)
  BY <1>1
<1>3. Surroundings
  BY DEF Forward, WInv, Surroundings, idVars
<1> HIDE DEF arg
<1>4. /\ ~Started(r) /\ req'[r].op = "forward" /\ req'[r].at = "forward"
  BY <1>2, Starting DEF WInv, IInv, Formed
<1>5. ReqOk(r, req'[r])
  BY <1>4 DEF ReqOk
<1>6. Derived(r, g)
  BY <1>4, MigratedOnly
<1> HIDE DEF g
<1> QED
  BY <1>2, <1>3, <1>5, <1>6, Begun

(* A snapshot is shown or asked for; its key is of a node that is there, or   *)
(* the active id.                                                             *)
LEMMA StatusEffect == ASSUME WInv, NEW r \in Requests, Status(r), UNCHANGED idVars PROVE Effect(r)
<1> DEFINE g == Migrate(<<site>>, LegacyId(r))
           key(what, id) == <<what, IF id = None THEN ActiveId(site) ELSE id>>
           arg(what, id) == [id |-> id, agent |-> None, key |-> key(what, id)]
<1>1. PICK what \in Projections, id \in Ids(Now(g)) \cup {None}, hit \in BOOLEAN :
         IF hit THEN BeginWith(r, "status", arg(what, id), "finish", <<site>>, cache[key(what, id)])
         ELSE BeginWith(r, "status", arg(what, id), "fetch", g, None)
  BY DEF Status, Begin
<1>2. \E got : \E at \in {"finish", "fetch"}, h \in {<<site>>, g} :
         BeginWith(r, "status", arg(what, id), at, h, got)
  <2> HIDE DEF g, arg, key
  <2> QED
    BY <1>1
<1>3. PICK got : \E at \in {"finish", "fetch"}, h \in {<<site>>, g} :
         BeginWith(r, "status", arg(what, id), at, h, got)
  BY <1>2
<1>4. PICK at \in {"finish", "fetch"}, h \in {<<site>>, g} :
         BeginWith(r, "status", arg(what, id), at, h, got)
  BY <1>3
<1>5. Surroundings
  BY DEF Status, WInv, Surroundings, idVars
<1>6. arg(what, id).key = key(what, id)
  OBVIOUS
<1> HIDE DEF arg
<1>7. /\ ~Started(r) /\ req'[r].op = "status" /\ req'[r].at = at /\ req'[r].arg = arg(what, id)
  BY <1>4, Starting DEF WInv, IInv, Formed
<1>8. Derived(r, h) /\ AnyHistory(g)
  BY <1>7, MigratedOnly
<1>9. key(what, id) \in Projections \X (NodeIds \cup {None})
  <2>1. Ids(Now(g)) \subseteq NodeIds
    BY <1>8, IdsTyped
  <2>2. ActiveId(site) \in NodeIds \cup {None}
    BY <1>7, Found DEF CopiesOf, Olds, ActiveId
  <2> HIDE DEF g
  <2> QED
    BY <1>1, <2>1, <2>2
<1> HIDE DEF key, g
<1>10. ReqOk(r, req'[r])
  BY <1>6, <1>7, <1>9 DEF ReqOk
<1> QED
  BY <1>4, <1>5, <1>8, <1>10, Begun

(* The answer to a forwarded request.                                         *)
LEMMA ForwardCallEffect == ASSUME WInv, NEW r \in Requests, ForwardCall(r), UNCHANGED idVars PROVE Effect(r)
<1> DEFINE x == req[r]
           Y(out) == [x EXCEPT !.h = Log(x.h, r), !.at = "finish", !.out = out]
<1>1. x.at = "forward" /\ Surroundings
  BY DEF ForwardCall, Surroundings, WInv, idVars
<1>2. /\ x.op = "forward" /\ Started(r) /\ Shaped
      /\ DOMAIN x = Fields /\ x = [k \in Fields |-> x[k]]
  BY <1>1 DEF WInv, ReqOk, Started, IInv, Formed, Shaped
<1>3. \E out : req' = [req EXCEPT ![r].h = Log(@, r), ![r].at = "finish", ![r].out = out]
  BY DEF ForwardCall
<1>4. PICK out : req' = [req EXCEPT ![r].h = Log(@, r), ![r].at = "finish", ![r].out = out]
  BY <1>3
<1> DEFINE y == Y(out)
<1>5. req' = [req EXCEPT ![r] = y]
  BY <1>2, <1>4 DEF Shaped
<1>6. /\ DOMAIN y = Fields /\ y = [k \in Fields |-> y[k]]
      /\ y.op = x.op /\ y.arg = x.arg /\ y.before = x.before /\ y.solo = x.solo
      /\ y.at = "finish" /\ y.h = Log(x.h, r)
  BY <1>2 DEF Fields
<1> HIDE DEF y, x
<1>7. Audits(y)
  BY <1>2, <1>6 DEF Audits
<1>8. Reaches(r, y)
  BY <1>2, <1>6, <1>7, Remains DEF x
<1>9. ReqOk(r, y)
  BY <1>2, <1>6, RemainsOk DEF x
<1> QED
  BY <1>1, <1>2, <1>5, <1>6, <1>8, <1>9, WentOn DEF x

(* The answer to a request for a snapshot.                                    *)
LEMMA FetchEffect == ASSUME WInv, NEW r \in Requests, FetchSnapshot(r), UNCHANGED idVars PROVE Effect(r)
<1> DEFINE x == req[r]
           Y(got) == [x EXCEPT !.at = "finish", !.got = got]
<1>1. /\ x.at = "fetch"
      /\ x.op = "status" /\ x.arg.key \in Projections \X (NodeIds \cup {None}) /\ Started(r) /\ Shaped
      /\ DOMAIN x = Fields /\ x = [k \in Fields |-> x[k]]
  BY DEF FetchSnapshot, WInv, ReqOk, Started, IInv, Formed, Shaped
<1>2. Surroundings
  <2>1. \E snapshot : cache' = [k \in DOMAIN cache \cup {x.arg.key} |->
                                  IF k = x.arg.key THEN snapshot ELSE cache[k]] \/ cache' = cache
    BY ZenonT(40) DEF FetchSnapshot
  <2>2. DOMAIN cache' \subseteq Projections \X (NodeIds \cup {None})
    BY <1>1, <2>1 DEF WInv
  <2> QED
    BY <2>2 DEF FetchSnapshot, Surroundings, WInv, idVars
<1>3. \E got : req' = [req EXCEPT ![r] = [@ EXCEPT !.at = "finish", !.got = got]]
  BY DEF FetchSnapshot
<1>4. PICK got : req' = [req EXCEPT ![r] = [@ EXCEPT !.at = "finish", !.got = got]]
  BY <1>3
<1> DEFINE y == Y(got)
<1>5. req' = [req EXCEPT ![r] = y]
  BY <1>1, <1>4 DEF Shaped
<1>6. /\ DOMAIN y = Fields /\ y = [k \in Fields |-> y[k]]
      /\ y.op = x.op /\ y.arg = x.arg /\ y.before = x.before /\ y.solo = x.solo
      /\ y.at = "finish" /\ y.h = x.h
  BY <1>1 DEF Fields
<1> HIDE DEF y, x
<1>7. ~Audits(y)
  BY <1>1, <1>6 DEF Audits
<1>8. Reaches(r, y)
  BY <1>1, <1>6, <1>7, Remains DEF x
<1>9. ReqOk(r, y)
  BY <1>1, <1>6, RemainsOk DEF x
<1> QED
  BY <1>1, <1>2, <1>5, <1>6, <1>8, <1>9, WentOn DEF x

(* The identity requests.                                                     *)
LEMMA ChallengeEffect == ASSUME WInv, NEW r \in Requests, MeChallenge(r) PROVE Effect(r)
<1> DEFINE g == Migrate(<<site>>, LegacyId(r))
           hist(id) == IF id = None THEN <<site>> ELSE g
<1>1. PICK u \in Users, id \in Ids(Now(g)) \cup {None} :
         BeginWith(r, "challenge", UserArg(u, id), "check", hist(id), None)
  BY DEF MeChallenge, Begin
<1>2. Surroundings
  BY DEF MeChallenge, WInv, Surroundings, idVars
<1>3. UserArg(u, id).key = id
  BY DEF UserArg, NoArg
<1> DEFINE h == hist(id)
<1>4. h = <<site>> \/ h = g
  OBVIOUS
<1>5. id # None => h = g
  OBVIOUS
<1> HIDE DEF h
<1>6. /\ ~Started(r) /\ req'[r].op = "challenge" /\ req'[r].at = "check"
      /\ req'[r].arg = UserArg(u, id) /\ req'[r].h = h
  <2>1. BeginWith(r, "challenge", UserArg(u, id), "check", h, None)
    BY <1>1 DEF h
  <2> QED
    BY <2>1, Starting DEF WInv, IInv, Formed
<1>7. Derived(r, h)
  BY <1>4, <1>6, MigratedOnly
<1>8. ReqOk(r, req'[r])
  <2>1. Now(g).nodes = <<>> => Now(g).settings.url = None
    BY <1>6, Found, Before
  <2>2. Chosen(Now(h), id)
    BY <1>1, <1>5, <2>1 DEF Chosen
  <2> QED
    BY <1>3, <1>6, <2>2 DEF ReqOk
<1> QED
  BY <1>1, <1>2, <1>7, <1>8, Begun DEF h

(* The mapping is checked and read again.                                     *)
LEMMA CheckEffect == ASSUME WInv, NEW r \in Requests, MeCheck(r) \/ MeReread(r) PROVE Effect(r)
<1> DEFINE x == req[r]
<1>1. /\ x.at \in {"check", "reread"} /\ x.op = "challenge" /\ Started(r) /\ Shaped
      /\ DOMAIN x = Fields /\ x = [k \in Fields |-> x[k]]
  BY DEF MeCheck, MeReread, WInv, IInv, RequestOk, Places, Started, Formed, Shaped
<1>2. Surroundings
  BY DEF MeCheck, MeReread, WInv, Surroundings, idVars
<1>3. \/ req' = [req EXCEPT ![r] = [@ EXCEPT !.at = "reread"]]
      \/ req' = [req EXCEPT ![r] = [@ EXCEPT !.at = "finish", !.out = "resolved"]]
      \/ req' = [req EXCEPT ![r].at = "pend", ![r].got = meta[x.arg.id]]
  BY DEF MeCheck, MeReread
<1>4. \E y : /\ req' = [req EXCEPT ![r] = y]
             /\ DOMAIN y = Fields /\ y = [k \in Fields |-> y[k]]
             /\ y.op = x.op /\ y.arg = x.arg /\ y.before = x.before /\ y.solo = x.solo
             /\ y.h = x.h /\ (y.at \in {"reread", "pend"} \/ (y.at = "finish" /\ y.out = "resolved"))
  <2>1. CASE req' = [req EXCEPT ![r] = [@ EXCEPT !.at = "reread"]]
    <3> DEFINE y == [x EXCEPT !.at = "reread"]
    <3>1. req' = [req EXCEPT ![r] = y]
      BY <1>1, <2>1 DEF Shaped
    <3>2. /\ DOMAIN y = Fields /\ y = [k \in Fields |-> y[k]]
          /\ y.op = x.op /\ y.arg = x.arg /\ y.before = x.before /\ y.solo = x.solo
          /\ y.h = x.h /\ y.at = "reread"
      BY <1>1 DEF Fields
    <3> HIDE DEF y, x
    <3> QED
      BY <3>1, <3>2
  <2>2. CASE req' = [req EXCEPT ![r] = [@ EXCEPT !.at = "finish", !.out = "resolved"]]
    <3> DEFINE y == [x EXCEPT !.at = "finish", !.out = "resolved"]
    <3>1. req' = [req EXCEPT ![r] = y]
      BY <1>1, <2>2 DEF Shaped
    <3>2. /\ DOMAIN y = Fields /\ y = [k \in Fields |-> y[k]]
          /\ y.op = x.op /\ y.arg = x.arg /\ y.before = x.before /\ y.solo = x.solo
          /\ y.h = x.h /\ y.at = "finish" /\ y.out = "resolved"
      BY <1>1 DEF Fields
    <3> HIDE DEF y, x
    <3> QED
      BY <3>1, <3>2
  <2>3. CASE req' = [req EXCEPT ![r].at = "pend", ![r].got = meta[x.arg.id]]
    <3> DEFINE y == [x EXCEPT !.at = "pend", !.got = meta[x.arg.id]]
    <3>1. req' = [req EXCEPT ![r] = y]
      BY <1>1, <2>3 DEF Shaped
    <3>2. /\ DOMAIN y = Fields /\ y = [k \in Fields |-> y[k]]
          /\ y.op = x.op /\ y.arg = x.arg /\ y.before = x.before /\ y.solo = x.solo
          /\ y.h = x.h /\ y.at = "pend"
      BY <1>1 DEF Fields
    <3> HIDE DEF y, x
    <3> QED
      BY <3>1, <3>2
  <2> QED
    BY <1>3, <2>1, <2>2, <2>3
<1>5. PICK y : /\ req' = [req EXCEPT ![r] = y]
               /\ DOMAIN y = Fields /\ y = [k \in Fields |-> y[k]]
               /\ y.op = x.op /\ y.arg = x.arg /\ y.before = x.before /\ y.solo = x.solo
               /\ y.h = x.h /\ (y.at \in {"reread", "pend"} \/ (y.at = "finish" /\ y.out = "resolved"))
  BY <1>4
<1> HIDE DEF x
<1>6. ~(y.at = "finish" /\ Audits(y))
  BY <1>1, <1>5 DEF Audits
<1>7. Reaches(r, y)
  BY <1>1, <1>5, <1>6, Remains DEF x
<1>8. ReqOk(r, y)
  BY <1>1, <1>5, RemainsOk DEF x
<1> QED
  BY <1>1, <1>2, <1>5, <1>7, <1>8, WentOn DEF x

(* The mapping is written, and the node to ask found.                         *)
LEMMA PendEffect == ASSUME WInv, NEW r \in Requests, MePend(r) PROVE Effect(r)
<1> DEFINE x == req[r]
           g == Migrate(x.h, LegacyId(r))
           y == [x EXCEPT !.at = "register", !.h = g]
<1>1. /\ x.at = "pend" /\ x.op = "challenge" /\ Started(r) /\ Shaped
      /\ DOMAIN x = Fields /\ x = [k \in Fields |-> x[k]]
  BY DEF MePend, WInv, IInv, RequestOk, Places, Started, Formed, Shaped
<1>2. Surroundings
  BY DEF MePend, WInv, Surroundings
<1>3. req' = [req EXCEPT ![r] = y]
  <2>1. req' = [req EXCEPT ![r].at = "register", ![r].h = Migrate(@, LegacyId(r))]
    BY DEF MePend
  <2> QED
    BY <1>1, <2>1 DEF Shaped
<1>4. /\ DOMAIN y = Fields /\ y = [k \in Fields |-> y[k]]
      /\ y.op = x.op /\ y.arg = x.arg /\ y.before = x.before /\ y.solo = x.solo
      /\ y.at = "register" /\ y.h = g
  <2> HIDE DEF g
  <2> QED
    BY <1>1 DEF Fields
<1>5. Base(r) = x.h /\ AnyHistory(x.h)
  BY <1>1, Held
<1>6. Derived(r, g)
  <2> SUFFICES ASSUME NEW N, NEW S, NEW L, NEW A, NEW E, Closed(N, S, A, E, r), History(x.h, N, S, L)
               PROVE  History(g, N, S, L) /\ Continues(x.h, g)
    BY <1>5 DEF Derived
  <2> QED
    BY Operations
<1>7. Chosen(Now(g), x.arg.key)
  <2>1. Chosen(Now(x.h), x.arg.key)
    BY <1>1 DEF WInv, ReqOk
  <2>2. CASE x.arg.key # None
    <3>1. Now(x.h).nodes # <<>> \/ Now(x.h).settings.url = None
      BY <2>1, <2>2 DEF Chosen
    <3>2. g = x.h
      BY <3>1 DEF Migrate
    <3> QED
      BY <2>1, <3>2
  <2> QED
    BY <2>2 DEF Chosen
<1> HIDE DEF y, g, x
<1>8. ReqOk(r, y)
  BY <1>1, <1>4, <1>7 DEF ReqOk
<1>9. Reaches(r, y)
  BY <1>4, <1>6 DEF Reaches
<1> QED
  BY <1>1, <1>2, <1>3, <1>4, <1>8, <1>9, WentOn DEF x

(* Only an agent of the list takes a challenge.                               *)
LEMMA RegisterEffect == ASSUME WInv, NEW r \in Requests, MeRegister(r) PROVE Effect(r)
<1> DEFINE x == req[r]
           v == Now(x.h)
           n == Selected(v, x.arg.key)
           Y(out) == [x EXCEPT !.h = Log(x.h, r), !.at = "finish", !.out = out]
<1>1. /\ x.at = "register" /\ x.op = "challenge" /\ Started(r) /\ Shaped
      /\ DOMAIN x = Fields /\ x = [k \in Fields |-> x[k]]
  BY DEF MeRegister, WInv, IInv, RequestOk, Places, Started, Formed, Shaped
<1>2. All(v) \in Lists(Entries) /\ (x.arg.key = None \/ x.arg.key \in Ids(v))
  BY <1>1, Held DEF WInv, ReqOk, CopiesOf, Chosen
<1>3. n \in Entries \/ n = Node(None, None, None)
  <2>1. All(v) \in Seq(Entries)
    BY <1>2 DEF Lists
  <2>2. CASE x.arg.key = None
    <3>1. n = ActiveNode(v)
      BY <2>2 DEF Selected
    <3>2. ActiveId(v) \in Ids(v) => Get(v, ActiveId(v)) \in Entries
      BY <2>1, GetFacts
    <3>3. All(v) # <<>> => All(v)[1] \in Entries
      BY <2>1
    <3> HIDE DEF n, v
    <3> QED
      BY <1>2, <3>1, <3>2, <3>3, Acting
  <2>3. CASE x.arg.key # None
    BY <1>2, <2>1, <2>3, GetFacts DEF Selected
  <2> QED
    BY <2>2, <2>3
<1>4. Surroundings
  <2>1. \/ chal' = chal
        \/ Served(n) /\ chal' = chal \cup {Challenge(x.arg.id, n.endpoint, v.settings)}
    BY DEF MeRegister
  <2>2. Served(n) => n.endpoint \in Agents
    BY <1>3 DEF Served, Entries, Node
  <2>3. \A u, e, s : Challenge(u, e, s).agent = e
    BY DEF Challenge
  <2> HIDE DEF n, v
  <2>4. \A c \in chal' : c.agent \in Agents
    BY <2>1, <2>2, <2>3 DEF WInv
  <2> QED
    BY <2>4 DEF MeRegister, WInv, Surroundings
<1>5. \E out \in {"ok", "failed"} :
        req' = [req EXCEPT ![r].h = Log(@, r), ![r].at = "finish", ![r].out = out]
  BY DEF MeRegister
<1>6. PICK out \in {"ok", "failed"} :
        req' = [req EXCEPT ![r].h = Log(@, r), ![r].at = "finish", ![r].out = out]
  BY <1>5
<1> DEFINE y == Y(out)
<1>7. req' = [req EXCEPT ![r] = y]
  BY <1>1, <1>6 DEF Shaped
<1>8. /\ DOMAIN y = Fields /\ y = [k \in Fields |-> y[k]]
      /\ y.op = x.op /\ y.arg = x.arg /\ y.before = x.before /\ y.solo = x.solo
      /\ y.at = "finish" /\ y.out = out /\ y.h = Log(x.h, r)
  BY <1>1 DEF Fields
<1> HIDE DEF y, x
<1>9. Audits(y)
  BY <1>1, <1>6, <1>8 DEF Audits
<1>10. Reaches(r, y)
  BY <1>1, <1>8, <1>9, Remains DEF x
<1>11. ReqOk(r, y)
  BY <1>1, <1>8, RemainsOk DEF x
<1> QED
  BY <1>1, <1>4, <1>7, <1>8, <1>10, <1>11, WentOn DEF x

(* An agent calls back.                                                       *)
LEMMA CallbackEffect == ASSUME WInv, NEW r \in Requests, Callback(r) PROVE Effect(r)
<1>1. \E c, key, got : \E at \in {"mark", "finish"} :
         /\ BeginWith(r, "callback", UserArg(c, key), at, <<site>>, got)
         /\ chal' \subseteq chal /\ UNCHANGED <<site, agent, cache, edited>>
  <2>1. PICK c \in chal, x \in Uids :
          LET out == Verdict(site.settings, c, x)
          IN  /\ BeginWith(r, "callback", UserArg(c.user, [c |-> c, uid |-> x, out |-> out]),
                           IF out = "verify" THEN "mark" ELSE "finish", <<site>>, meta[c.user])
              /\ chal' = chal \ {c}
              /\ UNCHANGED <<site, agent, cache, edited>>
    BY DEF Callback
  <2> DEFINE out == Verdict(site.settings, c, x)
             key == [c |-> c, uid |-> x, out |-> out]
             at  == IF out = "verify" THEN "mark" ELSE "finish"
  <2>2. BeginWith(r, "callback", UserArg(c.user, key), at, <<site>>, meta[c.user])
    BY <2>1
  <2>3. at \in {"mark", "finish"}
    OBVIOUS
  <2>4. chal' \subseteq chal /\ UNCHANGED <<site, agent, cache, edited>>
    BY <2>1
  <2> HIDE DEF key, at
  <2> QED
    BY <2>2, <2>3, <2>4, Zenon
<1>2. PICK c, key, got : \E at \in {"mark", "finish"} :
         /\ BeginWith(r, "callback", UserArg(c, key), at, <<site>>, got)
         /\ chal' \subseteq chal /\ UNCHANGED <<site, agent, cache, edited>>
  BY <1>1
<1>3. PICK at \in {"mark", "finish"} :
         /\ BeginWith(r, "callback", UserArg(c, key), at, <<site>>, got)
         /\ chal' \subseteq chal /\ UNCHANGED <<site, agent, cache, edited>>
  BY <1>2
<1>4. Surroundings
  BY <1>3 DEF WInv, Surroundings
<1>5. ~Started(r) /\ req'[r].op = "callback" /\ req'[r].at = at
  BY <1>3, Starting DEF WInv, IInv, Formed
<1>6. Derived(r, <<site>>)
  BY <1>5, MigratedOnly
<1>7. ReqOk(r, req'[r])
  BY <1>5 DEF ReqOk
<1> QED
  BY <1>3, <1>4, <1>6, <1>7, Begun

(* An administrator sets a status.                                            *)
LEMMA BindStatusEffect == ASSUME WInv, NEW r \in Requests, BindStatus(r) PROVE Effect(r)
<1>1. \E u, key, got : BeginWith(r, "bind", UserArg(u, key), "bind", <<site>>, got)
  BY DEF BindStatus
<1>2. PICK u, key, got : BeginWith(r, "bind", UserArg(u, key), "bind", <<site>>, got)
  BY <1>1
<1>3. Surroundings
  BY DEF BindStatus, WInv, Surroundings
<1>4. ~Started(r) /\ req'[r].op = "bind" /\ req'[r].at = "bind"
  BY <1>2, Starting DEF WInv, IInv, Formed
<1>5. Derived(r, <<site>>)
  BY <1>4, MigratedOnly
<1>6. ReqOk(r, req'[r])
  BY <1>4 DEF ReqOk
<1> QED
  BY <1>2, <1>3, <1>5, <1>6, Begun

(* The writes of a mapping: one that writes nothing leaves no entry.          *)
LEMMA BindEffect == ASSUME WInv, NEW r \in Requests, MarkVerified(r) \/ BindWrite(r) PROVE Effect(r)
<1> DEFINE x == req[r]
<1>1. /\ x.at \in {"mark", "bind"} /\ x.op \in {"callback", "bind"} /\ Started(r) /\ Shaped
      /\ DOMAIN x = Fields /\ x = [k \in Fields |-> x[k]]
  BY DEF MarkVerified, BindWrite, WInv, IInv, RequestOk, Places, Started, Formed, Shaped
<1>2. Surroundings
  BY DEF MarkVerified, BindWrite, WInv, Surroundings
<1>3. \/ req' = [req EXCEPT ![r].at = "finish", ![r].out = "failed"]
      \/ req' = [req EXCEPT ![r].h = Log(@, r), ![r].at = "finish", ![r].out = "ok"]
  BY DEF MarkVerified, BindWrite
<1>4. \E y : /\ req' = [req EXCEPT ![r] = y]
             /\ DOMAIN y = Fields /\ y = [k \in Fields |-> y[k]]
             /\ y.op = x.op /\ y.arg = x.arg /\ y.before = x.before /\ y.solo = x.solo
             /\ y.at = "finish"
             /\ (y.out = "failed" /\ y.h = x.h) \/ (y.out = "ok" /\ y.h = Log(x.h, r))
  <2>1. CASE req' = [req EXCEPT ![r].at = "finish", ![r].out = "failed"]
    <3> DEFINE y == [x EXCEPT !.at = "finish", !.out = "failed"]
    <3>1. req' = [req EXCEPT ![r] = y]
      BY <1>1, <2>1 DEF Shaped
    <3>2. /\ DOMAIN y = Fields /\ y = [k \in Fields |-> y[k]]
          /\ y.op = x.op /\ y.arg = x.arg /\ y.before = x.before /\ y.solo = x.solo
          /\ y.at = "finish" /\ y.out = "failed" /\ y.h = x.h
      BY <1>1 DEF Fields
    <3> HIDE DEF y, x
    <3> QED
      BY <3>1, <3>2
  <2>2. CASE req' = [req EXCEPT ![r].h = Log(@, r), ![r].at = "finish", ![r].out = "ok"]
    <3> DEFINE y == [x EXCEPT !.h = Log(x.h, r), !.at = "finish", !.out = "ok"]
    <3>1. req' = [req EXCEPT ![r] = y]
      BY <1>1, <2>2 DEF Shaped
    <3>2. /\ DOMAIN y = Fields /\ y = [k \in Fields |-> y[k]]
          /\ y.op = x.op /\ y.arg = x.arg /\ y.before = x.before /\ y.solo = x.solo
          /\ y.at = "finish" /\ y.out = "ok" /\ y.h = Log(x.h, r)
      BY <1>1 DEF Fields
    <3> HIDE DEF y, x
    <3> QED
      BY <3>1, <3>2
  <2> QED
    BY <1>3, <2>1, <2>2
<1>5. PICK y : /\ req' = [req EXCEPT ![r] = y]
               /\ DOMAIN y = Fields /\ y = [k \in Fields |-> y[k]]
               /\ y.op = x.op /\ y.arg = x.arg /\ y.before = x.before /\ y.solo = x.solo
               /\ y.at = "finish"
               /\ (y.out = "failed" /\ y.h = x.h) \/ (y.out = "ok" /\ y.h = Log(x.h, r))
  BY <1>4
<1> HIDE DEF x
<1>6. Audits(y) <=> y.out = "ok"
  BY <1>1, <1>5 DEF Audits
<1>7. Reaches(r, y)
  BY <1>1, <1>5, <1>6, Remains DEF x
<1>8. ReqOk(r, y)
  BY <1>1, <1>5, RemainsOk DEF x
<1> QED
  BY <1>1, <1>2, <1>5, <1>7, <1>8, WentOn DEF x

(* Every step writes an option or has such an effect.                         *)
LEMMA Effects ==
    ASSUME WInv, Next
    PROVE  \E r \in Requests : Effect(r) \/ (WriteOption(r) /\ UNCHANGED idVars)
<1>1. PICK r \in Requests : IdStep(r) \/ (NodeStep(r) /\ UNCHANGED idVars)
  BY DEF Next
<1>2. CASE IdStep(r)
  BY <1>2, ChallengeEffect, CheckEffect, PendEffect, RegisterEffect, CallbackEffect, BindStatusEffect,
     BindEffect DEF IdStep
<1>3. CASE NodeStep(r) /\ UNCHANGED idVars
  BY <1>3, AddEffect, UpdateEffect, DeleteEffect, SwitchEffect, SaveEffect, PairEffect, PairCallEffect,
     ForwardEffect, ForwardCallEffect, StatusEffect, FetchEffect DEF NodeStep
<1> QED
  BY <1>1, <1>2, <1>3

(* The write of an option: the options stay among the copies that the history *)
(* is made of, and follow it when they were its first copy.                   *)
Writes(r) ==
    /\ Frame(r) /\ Started(r) /\ Same(req[r], req'[r])
    /\ Len(req[r].h) > 1 /\ req'[r].h = Tail(req[r].h) /\ Now(req'[r].h) = Now(req[r].h)
    /\ OneByOne(req'[r].h)
    /\ \A N, S, L : site \in CopiesOf(N, S, L) /\ History(req[r].h, N, S, L)
                    => site' \in CopiesOf(N, S, L) /\ History(req'[r].h, N, S, L)
    /\ site = req[r].h[1] => site' = req'[r].h[1]
    /\ site'.old = site.old /\ req'[r].h[1].old = site.old
    /\ UNCHANGED <<agent, cache, edited, idVars>>

(* A history without its first copy.                                          *)
LEMMA TailFacts ==
    ASSUME NEW T, NEW h \in Seq(T), Len(h) > 1
    PROVE  /\ Tail(h) \in Seq(T) /\ Len(Tail(h)) = Len(h) - 1 /\ Tail(h) # <<>>
           /\ \A i \in 1..(Len(h) - 1) : Tail(h)[i] = h[i + 1]
           /\ Now(Tail(h)) = Now(h)
<1>1. Len(h) \in Nat /\ h # <<>>
  OBVIOUS
<1>2. Tail(h) \in Seq(T) /\ Len(Tail(h)) = Len(h) - 1 /\ \A i \in 1..(Len(h) - 1) : Tail(h)[i] = h[i + 1]
  BY <1>1
<1>3. Now(Tail(h)) = Now(h)
  BY <1>1, <1>2 DEF Now
<1>4. Tail(h) # <<>>
  <2> DEFINE t == Tail(h)
  <2>1. Len(t) > 0
    BY <1>1, <1>2
  <2> HIDE DEF t
  <2>2. t # <<>>
    BY <2>1
  <2> QED
    BY <2>2 DEF t
<1> QED
  BY <1>2, <1>3, <1>4

(* The option two neighbours differ in.                                       *)
LEMMA WrittenFacts ==
    ASSUME NEW v, NEW w, DOMAIN v = Parts, Differ(v, w)
    PROVE  LET o == Written(v, w)
           IN  o \in Options /\ w = [v EXCEPT ![o] = w[o]]
<1>0. PICK p \in Options : \E x : v[p] # x /\ w = [v EXCEPT ![p] = x]
  BY DEF Differ
<1>1. PICK x : v[p] # x /\ w = [v EXCEPT ![p] = x]
  BY <1>0
<1>2. w[p] = x /\ \A o \in Options : o # p => w[o] = v[o]
  BY <1>1 DEF Parts
<1>3. \E o \in Options : v[o] # w[o]
  BY <1>1, <1>2
<1>4. Written(v, w) \in Options /\ v[Written(v, w)] # w[Written(v, w)]
  BY <1>3 DEF Written
<1>5. Written(v, w) = p
  BY <1>2, <1>4
<1> QED
  BY <1>1, <1>2, <1>5

(* An option taken from one copy into another.                                *)
LEMMA OptionWritten ==
    ASSUME NEW N, NEW S, NEW L, NEW v \in CopiesOf(N, S, L), NEW w \in CopiesOf(N, S, L), w.old = v.old,
           NEW o \in Options
    PROVE  [v EXCEPT ![o] = w[o]] \in CopiesOf(N, S, L)
<1>1. /\ w.nodes \in Lists(N) /\ w.active \in NodeIds \cup {None} /\ w.settings \in S /\ w.audit \in L
  BY DEF CopiesOf
<1>6. w.nodes \in ListsFor(N, v)
  BY <1>1 DEF CopiesOf, ListsFor, All
<1>2. CASE o = "nodes"
  BY <1>6, <1>1, <1>2, Replaced
<1>3. CASE o = "active"
  BY <1>1, <1>3, Replaced
<1>4. CASE o = "settings"
  BY <1>1, <1>4, Replaced
<1>5. CASE o = "audit"
  BY <1>1, <1>5, Replaced
<1> QED
  BY <1>2, <1>3, <1>4, <1>5 DEF Options

(* WriteOption() is such a write.                                             *)
LEMMA WriteEffect == ASSUME WInv, NEW r \in Requests, WriteOption(r), UNCHANGED idVars PROVE Writes(r)
<1> DEFINE x == req[r]
           h == x.h
           y == [x EXCEPT !.h = Tail(h)]
           o == Written(h[1], h[2])
<1>1. /\ Started(r) /\ Len(h) > 1 /\ Shaped /\ DOMAIN x = Fields /\ x = [k \in Fields |-> x[k]]
      /\ site' = [site EXCEPT ![o] = h[2][o]] /\ UNCHANGED <<agent, cache, edited>>
  BY DEF WriteOption, WInv, IInv, Formed, Shaped
<1>2. History(h, Known, SettingSet, Logs) /\ OneByOne(h)
  BY <1>1 DEF WInv
<1>3. /\ Tail(h) # <<>> /\ Len(Tail(h)) = Len(h) - 1 /\ Len(h) \in Nat
      /\ \A i \in 1..(Len(h) - 1) : Tail(h)[i] = h[i + 1]
      /\ Now(Tail(h)) = Now(h)
  BY <1>1, <1>2, TailFacts DEF History
<1>4. req' = [req EXCEPT ![r] = y]
  BY <1>1 DEF WriteOption, Shaped
<1>5. /\ DOMAIN y = Fields /\ y = [k \in Fields |-> y[k]]
      /\ y.op = x.op /\ y.arg = x.arg /\ y.before = x.before /\ y.at = x.at
      /\ y.out = x.out /\ y.got = x.got /\ y.solo = x.solo /\ y.h = Tail(h)
  <2> DEFINE t == Tail(h)
  <2> HIDE DEF t
  <2> QED
    BY <1>1 DEF Fields, t
<1>6. Frame(r) /\ req'[r] = y
  <2> HIDE DEF x, y, h
  <2> QED
    BY <1>1, <1>4, <1>5, Continuing DEF x
<1>7. Differ(h[1], h[2])
  <2>1. 1 \in 1..(Len(h) - 1) /\ 1 + 1 = 2
    BY <1>1, <1>3
  <2>2. Differ(h[1], h[1 + 1])
    BY <1>2, <2>1 DEF OneByOne
  <2> QED
    BY <2>1, <2>2
<1>18. \A i \in 1..Len(Tail(h)) : Tail(h)[i].old = Tail(h)[1].old
  <2>1. \A i \in 1..Len(h) : h[i].old = h[1].old
    BY <1>2 DEF OneByOne
  <2>2. \A i \in 1..(Len(h) - 1) : Tail(h)[i].old = h[1].old
    <3> SUFFICES ASSUME NEW i \in 1..(Len(h) - 1) PROVE Tail(h)[i].old = h[1].old
      OBVIOUS
    <3>1. i + 1 \in 1..Len(h) /\ Tail(h)[i] = h[i + 1]
      BY <1>3
    <3> QED
      BY <2>1, <3>1
  <2>3. 1 \in 1..(Len(h) - 1)
    BY <1>1, <1>3
  <2> QED
    BY <1>3, <2>2, <2>3
<1>8. OneByOne(Tail(h))
  <2> SUFFICES ASSUME NEW i \in 1..(Len(Tail(h)) - 1) PROVE Differ(Tail(h)[i], Tail(h)[i + 1])
    BY <1>18 DEF OneByOne
  <2>1. i + 1 \in 1..(Len(h) - 1)
    BY <1>3
  <2>2. Differ(h[i + 1], h[i + 1 + 1])
    BY <1>2, <2>1 DEF OneByOne
  <2>3. Tail(h)[i] = h[i + 1] /\ Tail(h)[i + 1] = h[i + 1 + 1]
    BY <1>3, <2>1
  <2> QED
    BY <2>2, <2>3
<1>9. DOMAIN h[1] = Parts
  <2>1. h[1] \in CopiesOf(Known, SettingSet, Logs)
    BY <1>1, <1>2 DEF History
  <2> QED
    BY <2>1 DEF CopiesOf, Options, Parts
<1>10. o \in Options /\ h[2] = [h[1] EXCEPT ![o] = h[2][o]]
  BY <1>7, <1>9, WrittenFacts
<1> HIDE DEF o
<1>11. site = h[1] => site' = Tail(h)[1]
  BY <1>1, <1>3, <1>10
<1>12. ASSUME NEW N, NEW S, NEW L, site \in CopiesOf(N, S, L), History(h, N, S, L)
       PROVE  site' \in CopiesOf(N, S, L) /\ History(Tail(h), N, S, L)
  <2>1. h[2] \in CopiesOf(N, S, L)
    BY <1>1, <1>3, <1>12 DEF History
  <2>4. h[2].old = site.old
    BY <1>1, <1>2, <1>3 DEF WInv, OneByOne
  <2>2. site' \in CopiesOf(N, S, L)
    BY <1>1, <1>10, <1>12, <2>1, <2>4, OptionWritten
  <2>3. Tail(h) \in Seq(CopiesOf(N, S, L))
    BY <1>1, <1>12, TailFacts DEF History
  <2> QED
    BY <1>3, <2>2, <2>3 DEF History
<1>13. Same(x, y)
  BY <1>5 DEF Same
<1>14. req'[r].h = Tail(h)
  BY <1>5, <1>6
<1>15. \A N, S, L : site \in CopiesOf(N, S, L) /\ History(h, N, S, L)
                   => site' \in CopiesOf(N, S, L) /\ History(req'[r].h, N, S, L)
  BY <1>12, <1>14
<1> HIDE DEF y
<1>16. /\ Len(h) > 1 /\ Now(req'[r].h) = Now(h) /\ OneByOne(req'[r].h)
       /\ site = h[1] => site' = req'[r].h[1]
  BY <1>1, <1>3, <1>8, <1>11, <1>14
<1>17. Same(req[r], req'[r])
  BY <1>6, <1>13
<1>19. site'.old = site.old
  <2>1. "old" \in DOMAIN site /\ "old" \notin Options
    BY DEF WInv, CopiesOf, Options
  <2> QED
    BY <1>1, <1>10, <2>1
<1>20. Tail(h)[1].old = site.old
  <2>1. \A i \in 1..Len(h) : h[i].old = h[1].old
    BY <1>2 DEF OneByOne
  <2>2. 2 \in 1..Len(h) /\ Tail(h)[1] = h[2]
    BY <1>1, <1>3
  <2>3. h[1].old = site.old
    BY <1>1 DEF WInv
  <2> QED
    BY <2>1, <2>2, <2>3
<1> QED
  BY <1>1, <1>6, <1>14, <1>15, <1>16, <1>17, <1>19, <1>20, Zenon DEF Writes

(* What a step leaves alone of the other requests, and of the ids to come.    *)
LEMMA Framed ==
    ASSUME NEW r \in Requests, Frame(r)
    PROVE  /\ req'[r].op # "none" /\ Started(r)'
           /\ \A q \in Requests \ {r} : /\ Same(req[q], req'[q]) /\ req'[q].h = req[q].h
                                        /\ req'[q].solo => req[q].solo
                                        /\ Started(q)' <=> Started(q)
           /\ \A q \in Requests : Started(q) => Started(q)'
           /\ Fresh' \subseteq Fresh /\ NewId(r) \notin Fresh' /\ LegacyId(r) \notin Fresh'
           /\ \A q \in Requests, p \in Requests : /\ q < p /\ Started(p)'
                                                  /\ (\A i, j \in Requests : j < i /\ Started(i) => Started(j))
                                                  => Started(q)'
<1>1. req'[r].op # "none" /\ Started(r)'
  BY DEF Frame, Started
<1>2. ASSUME NEW q \in Requests \ {r}
      PROVE  Same(req[q], req'[q]) /\ req'[q].h = req[q].h /\ (req'[q].solo => req[q].solo)
  <2>1. CASE Started(r)
    BY <2>1, Zenon DEF Frame, Same
  <2>2. CASE ~Started(r)
    BY <2>2, Zenon DEF Frame
  <2> QED
    BY <2>1, <2>2
<1>3. \A q \in Requests \ {r} : Started(q)' <=> Started(q)
  BY <1>2 DEF Started, Same
<1>4. \A q \in Requests : Started(q) => Started(q)'
  BY <1>1, <1>3
<1>5. Fresh' \subseteq Fresh
  <2>1. \A q : NewId(q)' = NewId(q) /\ LegacyId(q)' = LegacyId(q)
    BY DEF NewId, LegacyId
  <2> QED
    BY <1>4, <2>1 DEF Fresh
<1>6. NewId(r) \notin Fresh' /\ LegacyId(r) \notin Fresh'
  <2>1. \A q \in Requests \ {r} : /\ NewId(r) \notin {NewId(q), LegacyId(q)}
                                  /\ LegacyId(r) \notin {NewId(q), LegacyId(q)}
    BY IdFacts
  <2> QED
    BY <1>1, <2>1 DEF Fresh
<1>7. ASSUME NEW q \in Requests, NEW p \in Requests, q < p, Started(p)',
             \A i, j \in Requests : j < i /\ Started(i) => Started(j)
      PROVE  Started(q)'
  <2>1. CASE Started(p)
    BY <1>4, <1>7, <2>1
  <2>2. CASE ~Started(p)
    <3>1. p = r
      BY <1>3, <1>7, <2>2
    <3>2. \A i \in 1..(r - 1) : Started(i)
      BY <2>2, <3>1 DEF Frame
    <3>3. q \in 1..(r - 1)
      BY <1>7, <3>1 DEF Requests
    <3> QED
      BY <1>4, <3>2, <3>3
  <2> QED
    BY <2>1, <2>2
<1> QED
  BY <1>1, <1>2, <1>3, <1>4, <1>5, <1>6, <1>7

(* A record that differs in solo and in earlier copies only.                  *)
LEMMA SameReqOk ==
    ASSUME NEW r, NEW x, NEW y, ReqOk(r, x), Same(x, y), Now(y.h) = Now(x.h), x.op = "none" => y.h = x.h
    PROVE  ReqOk(r, y)
<1>1. x.op = "pair" => PairOk(r, y)
  BY DEF ReqOk, Same, PairOk, Asked
<1>2. x.op = "delete" => DeleteOk(r, y)
  BY DEF ReqOk, Same, DeleteOk
<1>3. x.op = "save" => y.at = "finish" /\ Now(y.h).settings.node \in AllAgents
  BY DEF ReqOk, Same
<1> QED
  BY <1>1, <1>2, <1>3 DEF ReqOk, Same

(* What may enter the copies grows with the requests that have started.       *)
LEMMA KnownClosed ==
    ASSUME NEW r \in Requests, Frame(r)
    PROVE  /\ Known \subseteq Known'
           /\ Closed(Known', SettingSet, AllAgents, TRUE, r)
           /\ \A o \in Olds : o.nodes \in Lists(Known')
<1> DEFINE D == Fresh'
<1>1. D \subseteq Fresh /\ NewId(r) \notin D /\ LegacyId(r) \notin D
  BY Framed
<1>2. \A a \in AllAgents : a \notin D
  <2>1. \A q \in Requests : NewId(q) \notin AllAgents /\ LegacyId(q) \notin AllAgents
    BY IdFacts
  <2> QED
    BY <2>1 DEF Fresh
<1>3. None \notin D
  BY <1>2 DEF AllAgents
<1>4. Known' = Others(D)
  BY DEF Known, Others, Entries, NodeIds, Credentials
<1> HIDE DEF D
<1>5. Closed(Others(D), OtherSets(D), AllAgents \ D, TRUE, r)
  BY <1>1, <1>3, OthersClosed
<1>6. OtherSets(D) = SettingSet
  <2>1. \A s \in SettingSet : s.node \in AllAgents
    BY DEF SettingSet, AllAgents
  <2> QED
    BY <1>2, <2>1 DEF OtherSets
<1>7. AllAgents \ D = AllAgents
  BY <1>2
<1>8. Known \subseteq Others(D)
  BY <1>1 DEF Known, Others
<1>9. D \subseteq NewIds
  BY <1>1, IdFacts DEF Fresh
<1>10. \A o \in Olds : o.nodes \in Lists(Others(D))
  BY <1>9, OldFacts
<1> QED
  BY <1>4, <1>5, <1>6, <1>7, <1>8, <1>10

(* The invariant after a step, with the primes where the provers need them.   *)
Restated(K) ==
    /\ site' \in CopiesOf(K, SettingSet, Logs)
    /\ \A q \in Requests : Started(q)' => History(req'[q].h, K, SettingSet, Logs) /\ OneByOne(req'[q].h)
    /\ \A q \in Requests : Started(q)' => req'[q].h[1].old = site'.old
    /\ \A q \in Requests : ReqOk(q, req'[q])
    /\ \A p, q \in Requests : q < p /\ Started(p)' => Started(q)'
    /\ agent' \in [Agents -> 1..MaxGen]
    /\ DOMAIN cache' \subseteq Projections \X (NodeIds \cup {None})
    /\ \A c \in chal' : c.agent \in Agents

LEMMA Restating == IInv' /\ Restated(Known') => WInv'
BY DEF Restated, WInv

(* The options of the former name stay as they are in every copy.             *)
LEMMA BaseOld ==
    ASSUME WInv, NEW r \in Requests
    PROVE  Now(Base(r)).old = site.old /\ Base(r)[1].old = site.old
<1>1. CASE Started(r)
  <2> DEFINE h == req[r].h
  <2>1. History(h, Known, SettingSet, Logs) /\ OneByOne(h) /\ h[1].old = site.old
    BY <1>1 DEF WInv
  <2>2. Len(h) \in 1..Len(h)
    BY <2>1 DEF History
  <2>3. h[Len(h)].old = h[1].old
    BY <2>1, <2>2 DEF OneByOne
  <2> QED
    BY <1>1, <2>1, <2>3 DEF Base, Now
<1>2. CASE ~Started(r)
  BY <1>2 DEF Base, Now
<1> QED
  BY <1>1, <1>2

(* A step that writes no option keeps the invariant.                          *)
LEMMA EffectWInv == ASSUME WInv, IInv', NEW r \in Requests, Effect(r) PROVE WInv'
<1> DEFINE K == Known'
<1>1. /\ Frame(r) /\ ReqOk(r, req'[r]) /\ Reaches(r, req'[r]) /\ Surroundings
  BY DEF Effect
<1>2. /\ Known \subseteq K /\ Closed(K, SettingSet, AllAgents, TRUE, r)
      /\ \A o \in Olds : o.nodes \in Lists(K)
  BY <1>1, KnownClosed
<1> HIDE DEF K
<1>3. /\ CopiesOf(Known, SettingSet, Logs) \subseteq CopiesOf(K, SettingSet, Logs)
      /\ \A h : History(h, Known, SettingSet, Logs) => History(h, K, SettingSet, Logs)
  <2>1. SettingSet \subseteq SettingSet
    OBVIOUS
  <2> QED
    BY <1>2, <2>1, MoreCopies
<1>4. site' \in CopiesOf(K, SettingSet, Logs)
  BY <1>1, <1>3 DEF WInv, Surroundings
<1>5. History(Base(r), K, SettingSet, Logs) /\ OneByOne(Base(r))
  <2>1. CASE Started(r)
    BY <2>1, <1>3 DEF WInv, Base
  <2>2. CASE ~Started(r)
    <3>1. History(<<site>>, Known, SettingSet, Logs) /\ Base(r) = <<site>>
      BY <2>2, Found
    <3>2. OneByOne(<<site>>)
      BY DEF OneByOne, Differ
    <3> QED
      BY <1>3, <3>1, <3>2
  <2> QED
    BY <2>1, <2>2
<1>6. History(req'[r].h, K, SettingSet, Logs) /\ OneByOne(req'[r].h) /\ req'[r].h[1] = Base(r)[1]
  <2>1. PICK g : /\ Derived(r, g)
                 /\ req'[r].h = IF req'[r].at = "finish" /\ Audits(req'[r]) THEN Log(g, r) ELSE g
    BY <1>1 DEF Reaches
  <2>2. req'[r].op = "pair" => req'[r].arg.agent \in AllAgents
    BY <1>1 DEF ReqOk, PairOk, AllAgents
  <2>7. req'[r].op = "save" => Now(g).settings.node \in AllAgents
    BY <1>1, <2>1 DEF ReqOk, Audits
  <2>8. Now(Base(r)).old.nodes \in Lists(K)
    <3>1. Now(Base(r)) \in CopiesOf(K, SettingSet, Logs)
      BY <1>5, Puts
    <3> QED
      BY <1>2, <3>1 DEF CopiesOf
  <2>3. Logs \subseteq Logs
    OBVIOUS
  <2>4. History(g, K, SettingSet, Logs) /\ Continues(Base(r), g)
    BY <1>2, <1>5, <2>1, <2>2, <2>3, <2>7, <2>8 DEF Derived
  <2>5. OneByOne(g) /\ g[1] = Base(r)[1]
    BY <1>5, <2>4 DEF Continues
  <2>6. History(Log(g, r), K, SettingSet, Logs) /\ OneByOne(Log(g, r)) /\ Log(g, r)[1] = g[1]
    <3> DEFINE more == Logged(Now(g).audit, r)
    <3>1. /\ History(Log(g, r), K, SettingSet, Logs \cup {more}) /\ more \in Logs
          /\ Continues(g, Log(g, r))
      BY <2>3, <2>4, Logging
    <3> HIDE DEF more
    <3>2. Logs \cup {more} = Logs
      BY <3>1
    <3> QED
      BY <2>5, <3>1, <3>2 DEF Continues
  <2> QED
    BY <2>1, <2>4, <2>5, <2>6
<1>7. /\ Started(r)'
      /\ \A q \in Requests \ {r} : /\ Same(req[q], req'[q]) /\ req'[q].h = req[q].h
                                   /\ Started(q)' <=> Started(q)
      /\ \A q \in Requests, p \in Requests : /\ q < p /\ Started(p)'
                                             /\ (\A i, j \in Requests : j < i /\ Started(i) => Started(j))
                                             => Started(q)'
  BY <1>1, Framed
<1>8. \A q \in Requests : Started(q)' => History(req'[q].h, K, SettingSet, Logs) /\ OneByOne(req'[q].h)
  BY <1>3, <1>6, <1>7 DEF WInv
<1>9. \A q \in Requests : ReqOk(q, req'[q])
  <2> SUFFICES ASSUME NEW q \in Requests, q # r PROVE ReqOk(q, req'[q])
    BY <1>1
  <2>1. ReqOk(q, req[q]) /\ Same(req[q], req'[q]) /\ req'[q].h = req[q].h
    BY <1>7 DEF WInv
  <2> QED
    BY <2>1, SameReqOk
<1>10. \A p, q \in Requests : q < p /\ Started(p)' => Started(q)'
  BY <1>7 DEF WInv
<1>11. /\ agent' \in [Agents -> 1..MaxGen]
       /\ DOMAIN cache' \subseteq Projections \X (NodeIds \cup {None})
       /\ \A c \in chal' : c.agent \in Agents
  BY <1>1 DEF Surroundings
<1>13. \A q \in Requests : Started(q)' => req'[q].h[1].old = site'.old
  BY <1>1, <1>6, <1>7, BaseOld DEF WInv, Surroundings
<1>12. Restated(K)
  BY <1>4, <1>8, <1>9, <1>13, <1>10, <1>11 DEF Restated
<1> QED
  BY <1>12, Restating DEF K

(* A write of an option keeps the invariant.                                  *)
LEMMA WriteWInv == ASSUME WInv, IInv', NEW r \in Requests, Writes(r) PROVE WInv'
<1> DEFINE K == Known'
<1>1. /\ Frame(r) /\ Started(r) /\ Same(req[r], req'[r])
      /\ Now(req'[r].h) = Now(req[r].h) /\ OneByOne(req'[r].h)
      /\ \A N, S, L : site \in CopiesOf(N, S, L) /\ History(req[r].h, N, S, L)
                      => site' \in CopiesOf(N, S, L) /\ History(req'[r].h, N, S, L)
      /\ site'.old = site.old /\ req'[r].h[1].old = site.old
      /\ UNCHANGED <<agent, cache, idVars>>
  BY DEF Writes
<1>2. Known \subseteq K
  BY <1>1, KnownClosed
<1> HIDE DEF K
<1>3. /\ CopiesOf(Known, SettingSet, Logs) \subseteq CopiesOf(K, SettingSet, Logs)
      /\ \A h : History(h, Known, SettingSet, Logs) => History(h, K, SettingSet, Logs)
  <2>1. SettingSet \subseteq SettingSet
    OBVIOUS
  <2> QED
    BY <1>2, <2>1, MoreCopies
<1>4. site' \in CopiesOf(K, SettingSet, Logs) /\ History(req'[r].h, K, SettingSet, Logs)
  <2>1. site \in CopiesOf(Known, SettingSet, Logs) /\ History(req[r].h, Known, SettingSet, Logs)
    BY <1>1 DEF WInv
  <2>2. site' \in CopiesOf(Known, SettingSet, Logs) /\ History(req'[r].h, Known, SettingSet, Logs)
    BY <1>1, <2>1
  <2> QED
    BY <1>3, <2>2
<1>5. /\ \A q \in Requests \ {r} : /\ Same(req[q], req'[q]) /\ req'[q].h = req[q].h
                                   /\ Started(q)' <=> Started(q)
      /\ \A q \in Requests, p \in Requests : /\ q < p /\ Started(p)'
                                             /\ (\A i, j \in Requests : j < i /\ Started(i) => Started(j))
                                             => Started(q)'
  BY <1>1, Framed
<1>6. \A q \in Requests : Started(q)' => History(req'[q].h, K, SettingSet, Logs) /\ OneByOne(req'[q].h)
  BY <1>1, <1>3, <1>4, <1>5 DEF WInv
<1>7. \A q \in Requests : ReqOk(q, req'[q])
  <2> SUFFICES ASSUME NEW q \in Requests PROVE ReqOk(q, req'[q])
    OBVIOUS
  <2>1. ReqOk(q, req[q])
    BY DEF WInv
  <2>2. CASE q = r
    <3>1. req[r].op # "none"
      BY <1>1 DEF Started
    <3> QED
      BY <1>1, <2>1, <2>2, <3>1, SameReqOk
  <2>3. CASE q # r
    BY <1>5, <2>1, <2>3, SameReqOk
  <2> QED
    BY <2>2, <2>3
<1>8. \A p, q \in Requests : q < p /\ Started(p)' => Started(q)'
  BY <1>5 DEF WInv
<1>9. /\ agent' \in [Agents -> 1..MaxGen]
      /\ DOMAIN cache' \subseteq Projections \X (NodeIds \cup {None})
      /\ \A c \in chal' : c.agent \in Agents
  BY <1>1 DEF WInv, idVars
<1>11. \A q \in Requests : Started(q)' => req'[q].h[1].old = site'.old
  BY <1>1, <1>5 DEF WInv
<1>10. Restated(K)
  BY <1>4, <1>11, <1>6, <1>7, <1>8, <1>9 DEF Restated
<1> QED
  BY <1>10, Restating DEF K

(* A stuttering step.                                                         *)
LEMMA StillWInv == WInv /\ UNCHANGED vars => WInv'
<1> SUFFICES ASSUME WInv, UNCHANGED vars PROVE WInv'
  OBVIOUS
<1>1. IInv'
  BY NextIInv DEF WInv
<1>2. site' = site /\ req' = req /\ agent' = agent /\ cache' = cache /\ chal' = chal
  BY DEF vars, nodeVars, idVars
<1>3. Known' = Known
  BY <1>2 DEF Known, Others, Fresh, Started, Entries, NodeIds, Credentials, NewId, LegacyId
<1>4. Restated(Known)
  BY <1>2 DEF WInv, Restated, Started
<1> QED
  BY <1>1, <1>3, <1>4, Restating

(* The options the plugin may start from.                                     *)
LEMMA SiteFacts ==
    ASSUME NEW s \in Sites
    PROVE  /\ s.nodes \in Lists(Others(NewIds)) /\ s.old.nodes \in Lists(Others(NewIds))
           /\ s.settings \in SettingSet /\ Owned(s)
           /\ \A N, S : /\ s.nodes \in Lists(N) /\ s.old.nodes \in Lists(N) /\ s.settings \in S
                      => s \in CopiesOf(N, S, Logs)
<1>1. /\ s \in [nodes : Seq(Entries), active : NodeIds \cup {None}, settings : SettingSet, audit : {<<>>},
                old : [nodes : Seq(Entries), active : NodeIds \cup {None}]]
      /\ Unique(s.nodes) /\ Unique(s.old.nodes) /\ Owned(s)
      /\ IdsOf(s.nodes) \cap NewIds = {} /\ IdsOf(s.old.nodes) \cap NewIds = {}
  BY SitesAssumption
<1>2. ASSUME NEW l \in Seq(Entries), Unique(l), IdsOf(l) \cap NewIds = {}
      PROVE  l \in Lists(Others(NewIds))
  <2>1. \A i \in 1..Len(l) : l[i] \in Others(NewIds)
    BY <1>2 DEF IdsOf, Others
  <2>2. l \in Seq(Others(NewIds))
    BY <2>1, SeqDef
  <2> QED
    BY <1>2, <2>2 DEF Lists
<1>3. s.nodes \in Lists(Others(NewIds)) /\ s.old.nodes \in Lists(Others(NewIds))
  BY <1>1, <1>2
<1>4. s.old \in Olds
  BY <1>1, <1>3 DEF Olds
<1>5. <<>> \in Logs
  BY AuditMaxAssumption DEF Logs
<1>6. ASSUME NEW N, NEW S, s.nodes \in Lists(N), s.old.nodes \in Lists(N), s.settings \in S
      PROVE  s \in CopiesOf(N, S, Logs)
  BY <1>1, <1>4, <1>5, <1>6 DEF CopiesOf, All
<1> QED
  BY <1>1, <1>3, <1>6

(* At the start all ids are known but those that are made later.              *)
LEMMA InitWInv == Init => WInv
<1> SUFFICES ASSUME Init PROVE WInv
  OBVIOUS
<1>1. /\ site \in Sites /\ req = [r \in Requests |-> Idle] /\ agent = [a \in Agents |-> 1]
      /\ cache = <<>>
  BY DEF Init, NodeInit
<1>2. Idle.op = "none" /\ Idle.h = <<>> /\ Idle.at = "idle"
  BY DEF Idle
<1>3. \A r \in Requests : ~Started(r) /\ ReqOk(r, req[r])
  BY <1>1, <1>2 DEF Started, ReqOk
<1>4. Fresh \subseteq NewIds
  BY IdFacts DEF Fresh
<1>5. Others(NewIds) \subseteq Known /\ Known \subseteq Entries
  BY <1>4 DEF Known, Others
<1>6. site.nodes \in Lists(Known) /\ site.old.nodes \in Lists(Known) /\ site.settings \in SettingSet
  BY <1>1, <1>5, SiteFacts DEF Lists
<1>7. site \in CopiesOf(Known, SettingSet, Logs)
  BY <1>1, <1>6, SiteFacts
<1>8. agent \in [Agents -> 1..MaxGen]
  BY <1>1, BoundAssumption
<1>9. DOMAIN cache \subseteq Projections \X (NodeIds \cup {None})
  BY <1>1
<1>10. \A c \in chal : c.agent \in Agents
  <2> DEFINE J == {j \in DOMAIN site.nodes : site.nodes[j].cred # None /\ site.settings.cred # None}
  <2>1. chal = {} \/ \E u \in Users, i \in J : chal = {Challenge(u, site.nodes[i].endpoint, site.settings)}
    BY DEF Init
  <2>2. \A i \in DOMAIN site.nodes : site.nodes[i].endpoint \in Agents
    <3>1. site.nodes \in Seq(Entries)
      BY <1>5, <1>6 DEF Lists
    <3>2. \A i \in DOMAIN site.nodes : site.nodes[i] \in Entries
      BY <3>1
    <3> QED
      BY <3>2 DEF Entries
  <2>3. \A u, e, s : Challenge(u, e, s).agent = e
    BY DEF Challenge
  <2> QED
    <3>1. \A c \in chal : \E u, s : \E i \in DOMAIN site.nodes : c = Challenge(u, site.nodes[i].endpoint, s)
      BY <2>1
    <3> QED
      BY <2>2, <2>3, <3>1
<1> QED
  BY <1>3, <1>7, <1>8, <1>9, <1>10, InitIInv DEF WInv

(* Every step keeps the invariant.                                            *)
LEMMA NextWInv == WInv /\ [Next]_vars => WInv'
<1> SUFFICES ASSUME WInv, [Next]_vars PROVE WInv'
  OBVIOUS
<1>1. IInv'
  BY NextIInv DEF WInv
<1>2. CASE Next
  BY <1>1, <1>2, Effects, WriteEffect, EffectWInv, WriteWInv
<1> QED
  BY <1>2, StillWInv

(* The invariant holds in every state of every run.                           *)
LEMMA WInvHolds == Spec => []WInv
<1>1. WInv /\ [Next]_vars => WInv'
  BY NextWInv
<1> QED
  BY <1>1, InitWInv, PTL DEF Spec

(* What is in a copy of the options.                                          *)
LEMMA CopiesTyped == WInv => \A v \in Copies : v \in CopiesOf(Entries, SettingSet, Logs)
<1> SUFFICES ASSUME WInv, NEW v \in Copies PROVE v \in CopiesOf(Entries, SettingSet, Logs)
  OBVIOUS
<1>1. Known \subseteq Entries /\ SettingSet \subseteq SettingSet
  BY DEF Known, Others
<1>2. /\ CopiesOf(Known, SettingSet, Logs) \subseteq CopiesOf(Entries, SettingSet, Logs)
      /\ site \in CopiesOf(Known, SettingSet, Logs)
  BY <1>1, MoreCopies DEF WInv
<1>3. \A r \in Requests : ~Started(r) => req[r].h = <<>>
  BY DEF WInv, ReqOk, Started
<1>4. \A r \in Requests : \A i \in DOMAIN req[r].h : req[r].h[i] \in CopiesOf(Known, SettingSet, Logs)
  <2> SUFFICES ASSUME NEW r \in Requests, NEW i \in DOMAIN req[r].h
               PROVE  req[r].h[i] \in CopiesOf(Known, SettingSet, Logs)
    OBVIOUS
  <2>1. Started(r)
    BY <1>3
  <2>2. History(req[r].h, Known, SettingSet, Logs)
    BY <2>1 DEF WInv
  <2> QED
    BY <2>2 DEF History
<1>5. v = site \/ \E r \in Requests : \E i \in DOMAIN req[r].h : v = req[r].h[i]
  BY DEF Copies
<1> QED
  BY <1>2, <1>4, <1>5

(* The options of the former name are the same in all copies.                 *)
LEMMA CopiesOld == WInv => \A v \in Copies : v.old = site.old
<1> SUFFICES ASSUME WInv, NEW r \in Requests, NEW i \in DOMAIN req[r].h PROVE req[r].h[i].old = site.old
  BY DEF Copies
<1>1. Started(r)
  BY DEF WInv, ReqOk, Started
<1>2. History(req[r].h, Known, SettingSet, Logs) /\ OneByOne(req[r].h) /\ req[r].h[1].old = site.old
  BY <1>1 DEF WInv
<1>3. i \in 1..Len(req[r].h)
  BY <1>2 DEF History
<1> QED
  BY <1>2, <1>3 DEF OneByOne

(* Every request is idle or where its operation may be, and every copy of the *)
(* options is a list of nodes with ids of their own.                          *)
THEOREM TypesHold == Spec => []TypeOK
<1>1. ASSUME WInv PROVE TypeOK
  <2>1. \A v \in Copies : /\ v.active \in NodeIds \cup {None}
                          /\ v.nodes \in Seq(Entries) /\ Unique(v.nodes)
                          /\ Len(v.audit) <= AuditMax
    BY <1>1, CopiesTyped DEF CopiesOf, Lists, Logs
  <2>2. \A r \in Requests : Started(r) <=> Len(req[r].h) > 0
    <3> SUFFICES ASSUME NEW r \in Requests PROVE Started(r) <=> Len(req[r].h) > 0
      OBVIOUS
    <3>1. CASE Started(r)
      BY <1>1, <3>1 DEF WInv, History
    <3>2. CASE ~Started(r)
      BY <1>1, <3>2 DEF WInv, ReqOk, Started
    <3> QED
      BY <3>1, <3>2
  <2>3. meta \in [Users -> [status : Open \cup {"verified", "revoked"}, uid : Uids \cup {None},
                        stored : BOOLEAN]]
    <3>1. Open \cup {"verified", "revoked"} = {"unbound", "pending", "verified", "revoked"}
      BY DEF Open
    <3> QED
      BY <1>1, <3>1 DEF WInv, IInv, Formed, Mappings
  <2> QED
    BY <1>1, <2>1, <2>2, <2>3 DEF WInv, IInv, Formed, Secrets, TypeOK
<1> QED
  BY <1>1, WInvHolds, PTL

-----------------------------------------------------------------------------
(* A step stays within entries and settings its operation cannot leave.       *)
LEMMA ClosedStep ==
    ASSUME WInv, NEW r \in Requests, Effect(r), NEW N, NEW S, NEW A, NEW E, Closed(N, S, A, E, r),
           req'[r].op = "pair" => req'[r].arg.agent \in A,
           req'[r].op = "save" => Now(req'[r].h).settings.node \in A,
           req'[r].op = "delete" => Now(req'[r].h).nodes # <<>> \/ site.old.nodes \in Lists(N),
           E \/ ~edited', History(Base(r), N, S, Logs)
    PROVE  History(req'[r].h, N, S, Logs)
<1>1. PICK g : /\ Derived(r, g)
               /\ req'[r].h = IF req'[r].at = "finish" /\ Audits(req'[r]) THEN Log(g, r) ELSE g
  BY DEF Effect, Reaches
<1>2. Logs \subseteq Logs
  OBVIOUS
<1>5. req'[r].op \in {"save", "delete"} => req'[r].h = g
  BY <1>1 DEF Audits
<1>6. Now(Base(r)).old = site.old
  BY BaseOld
<1>3. History(g, N, S, Logs)
  BY <1>1, <1>2, <1>5, <1>6 DEF Derived
<1>4. History(Log(g, r), N, S, Logs)
  <2> DEFINE more == Logged(Now(g).audit, r)
  <2>1. History(Log(g, r), N, S, Logs \cup {more}) /\ more \in Logs
    BY <1>2, <1>3, Logging
  <2> HIDE DEF more
  <2>2. Logs \cup {more} = Logs
    BY <2>1
  <2> QED
    BY <2>1, <2>2
<1> QED
  BY <1>1, <1>3, <1>4

(* The history of a request that has just read the options.                   *)
LEMMA HistoryOfOne == ASSUME NEW N, NEW S, NEW L, site \in CopiesOf(N, S, L) PROVE History(<<site>>, N, S, L)
BY DEF History

(* Until a credential is left beside another endpoint, only entries and        *)
(* settings whose credential is of their endpoint are ever in a copy.         *)
OwnInv ==
    ~edited => /\ site.old.nodes \in Lists(OwnNodes)
               /\ site \in CopiesOf(OwnNodes, OwnSets, Logs)
               /\ \A r \in Requests : Started(r) => History(req[r].h, OwnNodes, OwnSets, Logs)

(* A step of a request leaves every credential beside its endpoint.           *)
LEMMA EffectOwn == ASSUME WInv, OwnInv, NEW r \in Requests, Effect(r), ~edited' PROVE OwnInv'
<1>1. Frame(r) /\ Surroundings /\ ReqOk(r, req'[r])
  BY DEF Effect
<1>2. ~edited /\ site' = site
  BY <1>1 DEF Surroundings
<1>3. site.old.nodes \in Lists(OwnNodes) /\ site \in CopiesOf(OwnNodes, OwnSets, Logs)
  BY <1>2 DEF OwnInv
<1>4. History(Base(r), OwnNodes, OwnSets, Logs)
  BY <1>2, <1>3, HistoryOfOne DEF OwnInv, Base
<1>5. Closed(OwnNodes, OwnSets, AllAgents, FALSE, r)
  BY OwnClosed
<1>6. /\ req'[r].op = "pair" => req'[r].arg.agent \in AllAgents
      /\ req'[r].op = "save" => Now(req'[r].h).settings.node \in AllAgents
  BY <1>1 DEF ReqOk, PairOk, AllAgents
<1>7. History(req'[r].h, OwnNodes, OwnSets, Logs)
  BY <1>3, <1>4, <1>5, <1>6, ClosedStep
<1>8. \A q \in Requests \ {r} : req'[q].h = req[q].h /\ (Started(q)' <=> Started(q))
  BY <1>1, Framed
<1>9. \A q \in Requests : Started(q)' => History(req'[q].h, OwnNodes, OwnSets, Logs)
  BY <1>2, <1>7, <1>8 DEF OwnInv
<1> QED
  BY <1>2, <1>3, <1>9 DEF OwnInv

(* So does every step.                                                        *)
LEMMA NextOwn == WInv /\ OwnInv /\ [Next]_vars => OwnInv'
<1> SUFFICES ASSUME WInv, OwnInv, [Next]_vars, ~edited' PROVE OwnInv'
  BY DEF OwnInv
<1>1. CASE Next
  <2>1. PICK r \in Requests : Effect(r) \/ Writes(r)
    BY <1>1, Effects, WriteEffect
  <2>2. CASE Effect(r)
    BY <2>2, EffectOwn
  <2>3. CASE Writes(r)
    <3>1. Frame(r) /\ Started(r) /\ edited' = edited /\ site'.old = site.old
      BY <2>3 DEF Writes
    <3>2. site.old.nodes \in Lists(OwnNodes) /\ site \in CopiesOf(OwnNodes, OwnSets, Logs) /\ History(req[r].h, OwnNodes, OwnSets, Logs)
      BY <3>1 DEF OwnInv
    <3>3. site' \in CopiesOf(OwnNodes, OwnSets, Logs) /\ History(req'[r].h, OwnNodes, OwnSets, Logs)
      BY <2>3, <3>2 DEF Writes
    <3>4. \A q \in Requests \ {r} : req'[q].h = req[q].h /\ (Started(q)' <=> Started(q))
      BY <3>1, Framed
    <3>5. \A q \in Requests : Started(q)' => History(req'[q].h, OwnNodes, OwnSets, Logs)
      BY <3>1, <3>3, <3>4 DEF OwnInv
    <3> QED
      BY <3>1, <3>2, <3>3, <3>5 DEF OwnInv
  <2> QED
    BY <2>1, <2>2, <2>3
<1>2. CASE UNCHANGED vars
  BY <1>2 DEF vars, nodeVars, OwnInv, Started
<1> QED
  BY <1>1, <1>2

(* So do the options the plugin starts from.                                  *)
LEMMA InitOwn == Init => OwnInv
<1> SUFFICES ASSUME Init PROVE OwnInv
  OBVIOUS
<1>1. site \in Sites /\ \A r \in Requests : ~Started(r)
  BY DEF Init, NodeInit, Started, Idle
<1>2. /\ site.nodes \in Lists(Entries) /\ site.old.nodes \in Lists(Entries)
      /\ site.settings \in SettingSet /\ Owned(site)
  <2>1. Others(NewIds) \subseteq Entries
    BY DEF Others
  <2> QED
    BY <1>1, <2>1, SiteFacts DEF Lists
<1>3. ASSUME NEW l \in Lists(Entries), \A i \in DOMAIN l : NodeOwned(l[i]) PROVE l \in Lists(OwnNodes)
  <2>1. l \in Seq(Entries) /\ \A i \in 1..Len(l) : l[i] \in OwnNodes
    BY <1>3 DEF Lists, OwnNodes
  <2>2. l \in Seq(OwnNodes)
    BY <2>1, SeqDef
  <2> QED
    BY <2>2 DEF Lists
<1>4. site.nodes \in Lists(OwnNodes) /\ site.old.nodes \in Lists(OwnNodes) /\ site.settings \in OwnSets
  BY <1>2, <1>3 DEF Owned, OwnSets
<1> QED
  BY <1>1, <1>4, SiteFacts DEF OwnInv

(* As long as no administrator leaves a credential beside an endpoint it is   *)
(* not of, one is only ever stored beside the endpoint that issued it.        *)
THEOREM CredentialsStay == Spec => []CredentialsOwned
<1>1. ASSUME WInv, OwnInv PROVE CredentialsOwned
  <2> SUFFICES ASSUME ~edited, NEW v \in Copies PROVE Owned(v)
    BY DEF CredentialsOwned
  <2>1. \A r \in Requests : ~Started(r) => req[r].h = <<>>
    BY <1>1 DEF WInv, ReqOk, Started
  <2>2. v \in CopiesOf(OwnNodes, OwnSets, Logs)
    <3>1. CASE v = site
      BY <1>1, <3>1 DEF OwnInv
    <3>2. CASE \E r \in Requests : \E i \in DOMAIN req[r].h : v = req[r].h[i]
      <4>1. PICK r \in Requests : \E i \in DOMAIN req[r].h : v = req[r].h[i]
        BY <3>2
      <4>2. PICK i \in DOMAIN req[r].h : v = req[r].h[i]
        BY <4>1
      <4>3. History(req[r].h, OwnNodes, OwnSets, Logs)
        BY <1>1, <2>1, <4>2 DEF OwnInv
      <4> QED
        BY <4>2, <4>3 DEF History
    <3> QED
      BY <3>1, <3>2 DEF Copies
  <2>5. v.old = site.old
    BY <1>1, CopiesOld
  <2>3. v.nodes \in Seq(OwnNodes) /\ v.settings \in OwnSets /\ v.old.nodes \in Seq(OwnNodes)
    BY <1>1, <2>2, <2>5 DEF CopiesOf, Lists, OwnInv
  <2>4. /\ \A i \in DOMAIN v.nodes : v.nodes[i] \in OwnNodes
        /\ \A i \in DOMAIN v.old.nodes : v.old.nodes[i] \in OwnNodes
    BY <2>3
  <2> QED
    BY <2>3, <2>4 DEF Owned, OwnNodes, OwnSets
<1>2. Spec => []OwnInv
  <2>1. WInv /\ OwnInv /\ [Next]_vars => OwnInv'
    BY NextOwn
  <2> QED
    BY <2>1, InitOwn, WInvHolds, PTL DEF Spec
<1> QED
  BY <1>1, <1>2, WInvHolds, PTL

-----------------------------------------------------------------------------
(* A request that nothing overlaps: the earlier ones are done, no later one   *)
(* starts while it runs, and the options are where its history is.            *)
SoloInv ==
    /\ \A r, q \in Requests : q < r /\ Started(r) /\ req[r].solo => Done(q)
    /\ \A r, q \in Requests : q > r /\ Running(r) /\ req[r].solo => ~Started(q)
    /\ \A r \in Requests : Started(r) /\ req[r].solo /\ (\A q \in Requests : q > r => ~Started(q))
                           => site = req[r].h[1]

Step(r) == Effect(r) \/ Writes(r)

(* A request that is done makes no step.                                      *)
LEMMA StepFacts ==
    ASSUME WInv, NEW r \in Requests, Step(r)
    PROVE  /\ Frame(r) /\ ~Done(r)
           /\ \A q \in Requests \ {r} : (Done(q)' <=> Done(q)) /\ (Running(q)' <=> Running(q))
           /\ \A q \in Requests : Done(q) => Done(q)'
<1>1. Frame(r)
  BY DEF Step, Effect, Writes
<1>2. ~Done(r)
  <2>1. Effect(r) => req[r].at # "finish"
    BY DEF Effect
  <2>2. Writes(r) => Len(req[r].h) # 1
    <3> SUFFICES ASSUME Writes(r) PROVE Len(req[r].h) # 1
      OBVIOUS
    <3>1. Started(r) /\ Len(req[r].h) > 1
      BY DEF Writes
    <3>2. Len(req[r].h) \in Nat
      BY <3>1, Held DEF AnyHistory, History
    <3> DEFINE n == Len(req[r].h)
    <3>3. n > 1 /\ n \in Nat
      BY <3>1, <3>2
    <3> HIDE DEF n
    <3>4. n # 1
      BY <3>3
    <3> QED
      BY <3>4 DEF n
  <2> QED
    BY <2>1, <2>2 DEF Step, Done
<1>3. \A q \in Requests \ {r} : (Done(q)' <=> Done(q)) /\ (Running(q)' <=> Running(q))
  <2> SUFFICES ASSUME NEW q \in Requests \ {r}
               PROVE  (Done(q)' <=> Done(q)) /\ (Running(q)' <=> Running(q))
    OBVIOUS
  <2>1. req'[q].at = req[q].at /\ req'[q].h = req[q].h /\ (Started(q)' <=> Started(q))
    BY <1>1, Framed DEF Same
  <2> QED
    BY <2>1 DEF Done, Running
<1> QED
  BY <1>1, <1>2, <1>3

(* A request that is done is at the end of its history.                       *)
LEMMA DoneFacts ==
    ASSUME WInv, NEW r \in Requests
    PROVE  /\ Done(r) => Started(r) /\ Now(req[r].h) = req[r].h[1]
           /\ Started(r) => Running(r) \/ Done(r)
<1>1. Done(r) => Started(r)
  BY DEF WInv, ReqOk, Done, Started
<1> QED
  BY <1>1 DEF Done, Now, Running

(* What a step that writes no option does before the log.                     *)
LEMMA Goes ==
    ASSUME WInv, NEW r \in Requests, ReqOk(r, req'[r]), NEW g, Derived(r, g),
           req'[r].h = IF req'[r].at = "finish" /\ Audits(req'[r]) THEN Log(g, r) ELSE g,
           NEW L, L \subseteq Logs, History(Base(r), Entries, SettingSet, L)
    PROVE  History(g, Entries, SettingSet, L) /\ Continues(Base(r), g)
<1>1. Closed(Entries, SettingSet, AllAgents, TRUE, r)
  BY AllMake
<1>2. req'[r].op = "pair" => req'[r].arg.agent \in AllAgents
  BY DEF ReqOk, PairOk, AllAgents
<1>3. req'[r].op = "save" => Now(g).settings.node \in AllAgents
  BY DEF ReqOk, Audits
<1>4. Now(Base(r)).old.nodes \in Lists(Entries)
  <2>1. site.old \in Olds
    BY DEF WInv, CopiesOf
  <2> QED
    BY <2>1, BaseOld, OldFacts
<1> QED
  BY <1>1, <1>2, <1>3, <1>4 DEF Derived

(* A history begins with what the request found, and goes on from there.      *)
LEMMA StepFirst == ASSUME WInv, NEW r \in Requests, Effect(r) PROVE req'[r].h[1] = Base(r)[1]
<1>1. PICK g : /\ Derived(r, g)
               /\ req'[r].h = IF req'[r].at = "finish" /\ Audits(req'[r]) THEN Log(g, r) ELSE g
  BY DEF Effect, Reaches
<1>2. Logs \subseteq Logs
  OBVIOUS
<1>3. ReqOk(r, req'[r])
  BY DEF Effect
<1>4. AnyHistory(Base(r))
  BY Found, Held
<1>5. AnyHistory(g) /\ Continues(Base(r), g)
  BY <1>1, <1>2, <1>3, <1>4, Goes DEF AnyHistory
<1>6. Continues(g, Log(g, r))
  BY <1>2, <1>5, Logging DEF AnyHistory
<1> QED
  BY <1>1, <1>5, <1>6 DEF Continues

(* A step of request p keeps all three.                                       *)
LEMMA StepSolo == ASSUME WInv, SoloInv, NEW p \in Requests, Step(p) PROVE SoloInv'
<1>1. /\ Frame(p) /\ ~Done(p) /\ Started(p)'
      /\ \A q \in Requests \ {p} : /\ (Done(q)' <=> Done(q)) /\ (Running(q)' <=> Running(q))
                                   /\ (Started(q)' <=> Started(q))
                                   /\ req'[q].solo => req[q].solo
                                   /\ req'[q].h = req[q].h
      /\ \A q \in Requests : Done(q) => Done(q)'
  BY StepFacts, Framed
<1>2. /\ Started(p) => (req'[p].solo => req[p].solo)
      /\ ~Started(p) => /\ \A q \in 1..(p - 1) : Started(q)
                        /\ req'[p].solo => \A q \in Requests : ~Running(q)
                        /\ \A q \in Requests \ {p} : req'[q].solo => ~Running(q)
  <2>1. Started(p) => (req'[p].solo => req[p].solo)
    BY <1>1, Zenon DEF Frame
  <2>2. ~Started(p) => /\ \A q \in 1..(p - 1) : Started(q)
                       /\ req'[p].solo => \A q \in Requests : ~Running(q)
                       /\ \A q \in Requests \ {p} : req'[q].solo => ~Running(q)
    BY <1>1, Zenon DEF Frame
  <2> QED
    BY <2>1, <2>2
<1>3. ASSUME NEW r \in Requests, NEW q \in Requests, q < r, Started(r)', req'[r].solo
      PROVE  Done(q)'
  <2>1. CASE r # p
    <3>1. Started(r) /\ req[r].solo
      BY <1>1, <1>3, <2>1
    <3> QED
      BY <1>1, <1>3, <3>1 DEF SoloInv
  <2>2. CASE r = p /\ Started(p)
    <3>1. req[r].solo
      BY <1>2, <1>3, <2>2
    <3> QED
      BY <1>1, <1>3, <2>2, <3>1 DEF SoloInv
  <2>3. CASE r = p /\ ~Started(p)
    <3>1. q \in 1..(p - 1)
      BY <1>3, <2>3 DEF Requests
    <3>2. Started(q) /\ ~Running(q)
      BY <1>2, <1>3, <2>3, <3>1
    <3> QED
      BY <1>1, <3>2, DoneFacts
  <2> QED
    BY <2>1, <2>2, <2>3
<1>4. ASSUME NEW r \in Requests, NEW q \in Requests, q > r, Running(r)', req'[r].solo, Started(q)'
      PROVE  FALSE
  <2>1. CASE Started(q)
    <3>1. Started(r)
      BY <1>4, <2>1 DEF WInv
    <3>2. Running(r)
      <4>1. CASE r = p
        BY <1>1, <3>1, <4>1, DoneFacts
      <4>2. CASE r # p
        BY <1>1, <1>4, <4>2
      <4> QED
        BY <4>1, <4>2
    <3>3. req[r].solo
      BY <1>1, <1>2, <1>4, <3>1
    <3> QED
      BY <1>4, <2>1, <3>2, <3>3 DEF SoloInv
  <2>2. CASE ~Started(q)
    <3>1. q = p /\ r # p
      BY <1>1, <1>4, <2>2 DEF Requests
    <3>2. ~Running(r)
      BY <1>2, <1>4, <2>2, <3>1
    <3> QED
      BY <1>1, <1>4, <3>1, <3>2
  <2> QED
    BY <2>1, <2>2
<1>5. ASSUME NEW r \in Requests, Started(r)', req'[r].solo, \A q \in Requests : q > r => ~Started(q)'
      PROVE  site' = req'[r].h[1]
  <2>1. CASE r = p
    <3>1. CASE Writes(p)
      <4>1. Started(p)
        BY <3>1 DEF Writes
      <4>2. req[p].solo /\ \A q \in Requests : q > p => ~Started(q)
        BY <1>1, <1>2, <1>5, <2>1, <4>1
      <4>3. site = req[p].h[1]
        BY <4>1, <4>2 DEF SoloInv
      <4> QED
        BY <2>1, <3>1, <4>3 DEF Writes
    <3>2. CASE Effect(p)
      <4>1. site' = site /\ req'[p].h[1] = Base(p)[1]
        BY <3>2, StepFirst DEF Effect, Surroundings
      <4>2. Base(p)[1] = site
        <5>1. CASE Started(p)
          <6>1. req[p].solo /\ \A q \in Requests : q > p => ~Started(q)
            BY <1>1, <1>2, <1>5, <2>1, <5>1
          <6> QED
            BY <5>1, <6>1 DEF SoloInv, Base
        <5>2. CASE ~Started(p)
          BY <5>2 DEF Base
        <5> QED
          BY <5>1, <5>2
      <4> QED
        BY <2>1, <4>1, <4>2
    <3> QED
      BY <3>1, <3>2 DEF Step
  <2>2. CASE r # p
    <3>1. p < r
      <4>1. ~(p > r)
        BY <1>1, <1>5
      <4> QED
        BY <2>2, <4>1 DEF Requests
    <3>2. Started(r) /\ req[r].solo
      BY <1>1, <1>5, <2>2
    <3> QED
      BY <1>1, <3>1, <3>2 DEF SoloInv
  <2> QED
    BY <2>1, <2>2
<1>6. \A r, q \in Requests : q < r /\ Started(r)' /\ req'[r].solo => Done(q)'
  BY <1>3
<1>7. \A r, q \in Requests : q > r /\ Running(r)' /\ req'[r].solo => ~Started(q)'
  BY <1>4
<1>8. \A r \in Requests : Started(r)' /\ req'[r].solo /\ (\A q \in Requests : q > r => ~Started(q)')
                          => site' = req'[r].h[1]
  BY <1>5
<1> QED
  BY <1>6, <1>7, <1>8 DEF SoloInv

LEMMA Stepping ==
    ASSUME WInv, Next
    PROVE  \E r \in Requests : Step(r)
BY Effects, WriteEffect DEF Step

(* They hold in every state of every run.                                     *)
LEMMA SoloHolds == Spec => []SoloInv
<1>1. WInv /\ SoloInv /\ [Next]_vars => SoloInv'
  <2> SUFFICES ASSUME WInv, SoloInv, [Next]_vars PROVE SoloInv'
    OBVIOUS
  <2>1. CASE Next
    BY <2>1, Stepping, StepSolo
  <2>2. CASE UNCHANGED vars
    BY <2>2 DEF vars, nodeVars, SoloInv, Started, Running, Done
  <2> QED
    BY <2>1, <2>2
<1>2. Init => SoloInv
  BY DEF Init, NodeInit, SoloInv, Started, Running, Idle
<1> QED
  BY <1>1, <1>2, WInvHolds, PTL DEF Spec

(* A request that ran last and alone has left the options as its history ends.*)
LEMMA LastLeaves ==
    ASSUME WInv, SoloInv, NEW r \in Requests, LastAlone(r), req[r].op = "pair"
    PROVE  PairOk(r, req[r]) /\ site = Now(req[r].h) /\ req[r].at = "finish"
<1>1. Done(r) /\ req[r].solo /\ \A q \in Requests : q > r => ~Started(q)
  BY DEF LastAlone
<1>2. Started(r) /\ Now(req[r].h) = req[r].h[1]
  BY <1>1, DoneFacts
<1>3. site = req[r].h[1]
  BY <1>1, <1>2 DEF SoloInv
<1> QED
  BY <1>1, <1>2, <1>3 DEF WInv, ReqOk, Done

(* A pairing that fails, whatever it had stored and wherever the answer of    *)
(* the agent was lost, leaves the list, the acting node and the settings as   *)
(* it found them.                                                             *)
THEOREM FailureRestores == Spec => []FailedPairRestores
<1>1. ASSUME WInv, SoloInv PROVE FailedPairRestores
  <2> SUFFICES ASSUME NEW r \in Requests, LastAlone(r), req[r].op = "pair", req[r].out = "failed"
               PROVE  GivenUp(site, req[r].before)
    BY DEF FailedPairRestores, GivenUp
  <2> QED
    BY <1>1, LastLeaves DEF PairOk
<1> QED
  BY <1>1, WInvHolds, SoloHolds, PTL

(* A pairing that succeeds leaves one entry for the agent with the credential *)
(* it issued, active and named by the settings, and no provisional one.       *)
THEOREM SuccessAgrees == Spec => []PairedAgrees
<1>1. ASSUME WInv, SoloInv PROVE PairedAgrees
  <2> SUFFICES ASSUME NEW r \in Requests, LastAlone(r), req[r].op = "pair", req[r].out = "ok"
               PROVE  Granted(r, site, req[r].arg.agent, req[r].got)
    BY DEF PairedAgrees, Granted
  <2> QED
    BY <1>1, LastLeaves DEF PairOk
<1> QED
  BY <1>1, WInvHolds, SoloHolds, PTL

-----------------------------------------------------------------------------
(* Node d after request r deleted it: a request names it when it pairs agent  *)
(* d, when the settings name d that r leaves or a later request saves, and    *)
(* when a list is left empty for the one of the former name, which holds d.   *)
Names(r, d) ==
    \E q \in Requests : /\ q >= r /\ Started(q)
                        /\ \/ req[q].op = "pair" /\ req[q].arg.agent = d
                           \/ /\ q = r \/ req[q].op = "save"
                              /\ Now(req[q].h).settings.node = d
                           \/ /\ req[q].op = "delete" /\ Now(req[q].h).nodes = <<>>
                              /\ d \in IdsOf(site.old.nodes)
OneByOneFrom(r) == \A q \in Requests : q >= r /\ Started(q) => req[q].solo

(* Nothing that overlaps nothing brings the node back unless it is named.     *)
DelInv ==
    \A r \in Requests : \A d :
        /\ Done(r) /\ req[r].op = "delete" /\ d = req[r].arg.id
        /\ OneByOneFrom(r) /\ ~Names(r, d)
        => /\ site \in CopiesOf(Others({d}), OtherSets({d}), Logs)
           /\ \A q \in Requests : q > r /\ Started(q) => History(req[q].h, Others({d}), OtherSets({d}), Logs)

(* The last copy of a request that deletes a node is without it.              *)
LeftWithout ==
    \A r \in Requests : \A d :
        Started(r) /\ req[r].op = "delete" /\ d = req[r].arg.id /\ ~Names(r, d) =>
            Now(req[r].h) \in CopiesOf(Others({d}), OtherSets({d}), Logs)

(* The list of the former name holds the node or can take its place.          *)
LEMMA OldWithout ==
    ASSUME WInv, NEW d, d \notin IdsOf(site.old.nodes)
    PROVE  site.old.nodes \in Lists(Others({d}))
<1> DEFINE l == site.old.nodes
<1>1. l \in Lists(Entries)
  BY OldFacts DEF WInv, CopiesOf
<1>2. \A i \in 1..Len(l) : l[i] \in Others({d})
  <2> SUFFICES ASSUME NEW i \in 1..Len(l) PROVE l[i] \in Others({d})
    OBVIOUS
  <2>1. l \in Seq(Entries)
    BY <1>1 DEF Lists
  <2>2. i \in DOMAIN l /\ l[i] \in Entries
    BY <2>1
  <2>3. l[i].id # d
    BY <2>2 DEF IdsOf
  <2> QED
    BY <2>2, <2>3 DEF Others
<1>3. l \in Seq(Others({d}))
  <2> DEFINE O == Others({d})
  <2>1. l \in Seq(Entries) /\ \A i \in 1..Len(l) : l[i] \in O
    BY <1>1, <1>2 DEF Lists
  <2> HIDE DEF O, l
  <2>2. l \in Seq(O)
    BY <2>1, SeqDef
  <2> QED
    BY <2>2 DEF O
<1> QED
  BY <1>1, <1>3 DEF Lists

(* Nothing else could carry the id: an entry was taken out of the list, the   *)
(* settings would be a name, and the entry of migration has the id "legacy".  *)
LEMMA WithoutNamed == WInv => LeftWithout
<1> SUFFICES ASSUME WInv, NEW r \in Requests, NEW d, d = req[r].arg.id,
                    Started(r), req[r].op = "delete", ~Names(r, d)
             PROVE  Now(req[r].h) \in CopiesOf(Others({d}), OtherSets({d}), Logs)
  BY DEF LeftWithout
<1> DEFINE v == Now(req[r].h)
           D == {d}
<1>1. v \in CopiesOf(Entries, SettingSet, Logs) /\ DeleteOk(r, req[r])
  BY Held DEF WInv, ReqOk
<1>2. /\ d \notin IdsOf(v.nodes) /\ v.settings.node # d
      /\ v.nodes = <<>> => d \notin IdsOf(site.old.nodes)
  BY <1>1 DEF DeleteOk, Names, Requests
<1>7. v.old = site.old
  BY BaseOld, Held
<1>8. v.nodes = <<>> => v.old.nodes \in Lists(Others(D))
  BY <1>2, <1>7, OldWithout
<1>3. \A x : x \in D => x = d
  OBVIOUS
<1> HIDE DEF v, D
<1>4. v.nodes \in Lists(Others(D))
  <2>1. v.nodes \in Seq(Entries) /\ Unique(v.nodes)
    BY <1>1 DEF CopiesOf, Lists
  <2>2. \A i \in 1..Len(v.nodes) : v.nodes[i] \in Entries /\ v.nodes[i].id # d
    BY <1>2, <2>1 DEF IdsOf
  <2>3. \A i \in 1..Len(v.nodes) : v.nodes[i] \in Others(D)
    BY <1>3, <2>2 DEF Others
  <2>4. v.nodes \in Seq(Others(D))
    BY <2>1, <2>3, SeqDef
  <2> QED
    BY <2>1, <2>4 DEF Lists
<1>5. v.settings \in OtherSets(D)
  <2>1. v.settings \in SettingSet
    BY <1>1 DEF CopiesOf
  <2> QED
    BY <1>2, <1>3, <2>1 DEF OtherSets
<1>6. v \in CopiesOf(Others(D), OtherSets(D), Logs)
  BY <1>1, <1>4, <1>5, <1>8 DEF CopiesOf, All
<1> QED
  BY <1>6 DEF v, D

(* An overlap is not forgotten.                                               *)
LEMMA SoloBack ==
    ASSUME WInv, NEW p \in Requests, Step(p), NEW r \in Requests, OneByOneFrom(r)'
    PROVE  OneByOneFrom(r)
<1>1. Frame(p)
  BY StepFacts
<1>2. Started(p) => (req'[p].solo => req[p].solo)
  BY <1>1, Zenon DEF Frame
<1>3. \A q \in Requests \ {p} : req'[q].solo => req[q].solo
  BY <1>1, Framed
<1>4. \A q \in Requests : Started(q) => Started(q)'
  BY <1>1, Framed
<1> QED
  BY <1>2, <1>3, <1>4 DEF OneByOneFrom

(* Nor is that a request named the node.                                      *)
LEMMA NamesStay ==
    ASSUME WInv, NEW p \in Requests, Step(p), NEW r \in Requests, Started(r), req[r].op = "delete",
           NEW d, Names(r, d)
    PROVE  Names(r, d)'
<1>1. PICK q \in Requests : /\ q >= r /\ Started(q)
                            /\ \/ req[q].op = "pair" /\ req[q].arg.agent = d
                               \/ /\ q = r \/ req[q].op = "save"
                                  /\ Now(req[q].h).settings.node = d
                               \/ /\ req[q].op = "delete" /\ Now(req[q].h).nodes = <<>>
                                  /\ d \in IdsOf(site.old.nodes)
  BY DEF Names
<1>2. Frame(p) /\ Started(q)' /\ \A i \in Requests \ {p} : Same(req[i], req'[i]) /\ req'[i].h = req[i].h
  BY <1>1, StepFacts, Framed
<1>3. req'[q].op = req[q].op /\ req'[q].arg = req[q].arg
  <2>1. CASE q = p
    BY <1>1, <1>2, <2>1, Zenon DEF Frame
  <2>2. CASE q # p
    BY <1>2, <2>2 DEF Same
  <2> QED
    BY <2>1, <2>2
<1>4. req[q].op \in {"save", "delete"} => Now(req'[q].h) = Now(req[q].h)
  <2> SUFFICES ASSUME req[q].op \in {"save", "delete"} PROVE Now(req'[q].h) = Now(req[q].h)
    OBVIOUS
  <2>1. CASE q = p
    <3>1. req[q].at = "finish"
      BY DEF WInv, ReqOk, DeleteOk
    <3>2. Writes(q)
      BY <2>1, <3>1 DEF Step, Effect
    <3> QED
      BY <3>2 DEF Writes
  <2>2. CASE q # p
    BY <1>2, <2>2
  <2> QED
    BY <2>1, <2>2
<1>5. site'.old = site.old
  BY DEF Step, Effect, Surroundings, Writes
<1>6. IdsOf(site.old.nodes)' = IdsOf(site.old.nodes)
  BY <1>5 DEF IdsOf
<1> QED
  BY <1>1, <1>2, <1>3, <1>4, <1>6 DEF Names

(* A step of a later request brings nothing with the deleted id into a copy.  *)
LEMMA StepDel ==
    ASSUME WInv, SoloInv, SoloInv', WInv', LeftWithout', DelInv, NEW p \in Requests, Step(p)
    PROVE  DelInv'
<1> SUFFICES ASSUME NEW r \in Requests, NEW d, d = req'[r].arg.id, Done(r)', req'[r].op = "delete",
                    OneByOneFrom(r)', ~Names(r, d)'
             PROVE  /\ site' \in CopiesOf(Others({d}), OtherSets({d}), Logs)
                    /\ \A q \in Requests : q > r /\ Started(q)'
                          => History(req'[q].h, Others({d}), OtherSets({d}), Logs)
  BY DEF DelInv
<1> DEFINE O == Others({d})
           OS == OtherSets({d})
<1>1. /\ Frame(p) /\ ~Done(p) /\ Started(p)'
      /\ \A q \in Requests \ {p} : /\ Done(q)' <=> Done(q)
                                   /\ Started(q)' <=> Started(q)
                                   /\ Same(req[q], req'[q]) /\ req'[q].h = req[q].h
  BY StepFacts, Framed
<1>2. OneByOneFrom(r)
  BY SoloBack
<1>3. CASE r = p
  <2>1. \A q \in Requests : q > r => ~Started(q)
    <3>1. CASE Started(r)
      <4>1. Running(r) /\ req[r].solo
        BY <1>1, <1>2, <1>3, <3>1 DEF Running, OneByOneFrom, Requests
      <4> QED
        BY <4>1 DEF SoloInv
    <3>2. CASE ~Started(r)
      BY <3>2 DEF WInv
    <3> QED
      BY <3>1, <3>2
  <2>2. \A q \in Requests : q > r => ~Started(q)'
    BY <1>1, <1>3, <2>1 DEF Requests
  <2>3. Started(r)' /\ req'[r].solo
    BY <1>1, <1>3 DEF OneByOneFrom, Requests
  <2>4. site' = req'[r].h[1]
    BY <2>2, <2>3 DEF SoloInv
  <2>5. Now(req'[r].h) = req'[r].h[1]
    BY DEF Done, Now
  <2>6. site' \in CopiesOf(O, OS, Logs)
    BY <2>3, <2>4, <2>5 DEF LeftWithout
  <2> QED
    BY <2>2, <2>6
<1>4. CASE r # p
  <2>1. Done(r) /\ Started(r) /\ req[r].op = "delete" /\ d = req[r].arg.id /\ req[r].solo
    <3>1. Done(r) /\ req[r].op = "delete" /\ d = req[r].arg.id
      BY <1>1, <1>4 DEF Same
    <3>2. Started(r)
      BY <3>1, DoneFacts
    <3> QED
      BY <1>2, <3>1, <3>2 DEF OneByOneFrom, Requests
  <2> HIDE DEF O, OS
  <2>2. ~Names(r, d)
    BY <2>1, NamesStay
  <2>3. /\ site \in CopiesOf(O, OS, Logs)
        /\ \A q \in Requests : q > r /\ Started(q) => History(req[q].h, O, OS, Logs)
    BY <1>2, <2>1, <2>2 DEF DelInv, O, OS
  <2>4. p > r
    <3>1. ~(p < r)
      BY <1>1, <2>1 DEF SoloInv
    <3> QED
      BY <1>4, <3>1 DEF Requests
  <2>5. site' \in CopiesOf(O, OS, Logs) /\ History(req'[p].h, O, OS, Logs)
    <3>1. CASE Writes(p)
      <4>1. Started(p)
        BY <3>1 DEF Writes
      <4> QED
        BY <2>3, <2>4, <3>1, <4>1 DEF Writes
    <3>2. CASE Effect(p)
      <4>1. site' = site /\ ReqOk(p, req'[p])
        BY <3>2 DEF Effect, Surroundings
      <4>2. DeleteOk(r, req[r])
        BY <2>1 DEF WInv, ReqOk
      <4>3. NewId(p) \notin {d} /\ LegacyId(p) \notin {d} /\ None \notin {d}
        BY <2>1, <2>4, <4>2, NoneAssumption DEF DeleteOk
      <4>4. Closed(O, OS, AllAgents \ {d}, TRUE, p)
        <5> DEFINE D == {d}
        <5>1. NewId(p) \notin D /\ LegacyId(p) \notin D /\ None \notin D
          BY <4>3
        <5> HIDE DEF D
        <5>2. Closed(Others(D), OtherSets(D), AllAgents \ D, TRUE, p)
          BY <5>1, OthersClosed
        <5> QED
          BY <5>2 DEF D, O, OS
      <4>5. /\ req'[p].op = "pair" => req'[p].arg.agent \in AllAgents \ {d}
            /\ req'[p].op = "save" => Now(req'[p].h).settings.node \in AllAgents \ {d}
        <5>1. /\ req'[p].op = "pair" => req'[p].arg.agent \in AllAgents
              /\ req'[p].op = "save" => Now(req'[p].h).settings.node \in AllAgents
          BY <4>1 DEF ReqOk, PairOk, AllAgents
        <5>2. /\ ~(req'[p].op = "pair" /\ req'[p].arg.agent = d)
              /\ ~(req'[p].op = "save" /\ Now(req'[p].h).settings.node = d)
          BY <1>1, <2>4 DEF Names, Requests, Now
        <5> QED
          BY <5>1, <5>2
      <4>8. req'[p].op = "delete" => Now(req'[p].h).nodes # <<>> \/ site.old.nodes \in Lists(O)
        <5>1. ~(req'[p].op = "delete" /\ Now(req'[p].h).nodes = <<>> /\ d \in IdsOf(site.old.nodes))
          BY <1>1, <2>4, <4>1 DEF Names, Requests, Now, IdsOf
        <5> QED
          BY <5>1, OldWithout DEF O
      <4>6. History(Base(p), O, OS, Logs)
        <5>1. CASE Started(p)
          BY <2>3, <2>4, <5>1 DEF Base
        <5>2. CASE ~Started(p)
          BY <2>3, <5>2, HistoryOfOne DEF Base
        <5> QED
          BY <5>1, <5>2
      <4>7. History(req'[p].h, O, OS, Logs)
        BY <3>2, <4>4, <4>5, <4>6, <4>8, ClosedStep
      <4> QED
        BY <2>3, <4>1, <4>7
    <3> QED
      BY <3>1, <3>2 DEF Step
  <2>6. \A q \in Requests : q > r /\ Started(q)' => History(req'[q].h, O, OS, Logs)
    BY <1>1, <2>3, <2>5
  <2> QED
    BY <2>5, <2>6 DEF O, OS
<1> QED
  BY <1>3, <1>4

(* The invariant about deleted nodes holds.                                   *)
LEMMA DelHolds == Spec => []DelInv
<1>1. WInv /\ WInv' /\ SoloInv /\ SoloInv' /\ LeftWithout' /\ DelInv /\ [Next]_vars => DelInv'
  <2> SUFFICES ASSUME WInv, WInv', SoloInv, SoloInv', LeftWithout', DelInv, [Next]_vars PROVE DelInv'
    OBVIOUS
  <2>1. CASE Next
    BY <2>1, Stepping, StepDel
  <2>2. CASE UNCHANGED vars
    <3>1. req' = req /\ site' = site
      BY <2>2 DEF vars, nodeVars
    <3> QED
      BY <3>1 DEF DelInv, Names, OneByOneFrom, Started, Done
  <2> QED
    BY <2>1, <2>2
<1>2. Init => DelInv
  BY DEF Init, NodeInit, DelInv, Done, Idle
<1> QED
  BY <1>1, <1>2, WInvHolds, SoloHolds, WithoutNamed, PTL DEF Spec

(* A deleted node comes back only by a pairing of its agent, because the      *)
(* settings some request left name it, or because a delete left an empty list *)
(* and the option of the former name still holds it.                          *)
THEOREM DeletionHolds == Spec => []DeletedUnlessNamed
<1>1. ASSUME WInv, DelInv PROVE DeletedUnlessNamed
  <2> SUFFICES ASSUME NEW r \in Requests, Done(r), req[r].op = "delete", req[r].arg.id \in Ids(site),
                      \A q \in Requests : q >= r => req[q].solo
               PROVE  \E q \in Requests : /\ q >= r /\ Started(q)
                                  /\ \/ req[q].op = "pair" /\ req[q].arg.agent = req[r].arg.id
                                     \/ Now(req[q].h).settings.node = req[r].arg.id
                                     \/ /\ req[q].op = "delete" /\ Now(req[q].h).nodes = <<>>
                                        /\ req[r].arg.id \in IdsOf(site.old.nodes)
    BY DEF DeletedUnlessNamed
  <2> DEFINE d == req[r].arg.id
  <2>1. OneByOneFrom(r)
    BY DEF OneByOneFrom
  <2>2. Names(r, d)
    <3> SUFFICES ASSUME ~Names(r, d) PROVE FALSE
      OBVIOUS
    <3>1. site \in CopiesOf(Others({d}), OtherSets({d}), Logs)
      BY <1>1, <2>1 DEF DelInv
    <3>2. All(site) \in Seq(Others({d}))
      BY <3>1 DEF CopiesOf, Lists
    <3>3. \A i \in DOMAIN All(site) : All(site)[i] \in Others({d})
      BY <3>2
    <3> QED
      BY <3>3 DEF Others, Ids, IdsOf
  <2> QED
    BY <2>2 DEF Names
<1> QED
  BY <1>1, WInvHolds, DelHolds, PTL

-----------------------------------------------------------------------------
(* The log while no two requests overlap: it is recent (the conclusion of     *)
(* AuditIsRecent), and the request that runs has copies that all hold it, but *)
(* the last one, which has the entry of a request that ends.                  *)
NoOverlap == \A r \in Requests : Started(r) => req[r].solo

Recent(log) ==
    /\ \A i \in DOMAIN log : log[i] \in Requests /\ Audited(log[i])
    /\ \A i, j \in DOMAIN log : i < j => log[i] < log[j]
    /\ \A r \in Requests : Audited(r) =>
           \/ \E i \in DOMAIN log : log[i] = r
           \/ Len(log) = AuditMax /\ \A i \in DOMAIN log : r < log[i]

Carries(h, log, last) ==
    /\ \A i \in 1..(Len(h) - 1) : h[i].audit = log
    /\ Now(h).audit = last

Ends(x) == x.at = "finish" /\ Audits(x)

AudInv ==
    NoOverlap => /\ Recent(site.audit)
                 /\ \A r \in Requests : Running(r) =>
                      Carries(req[r].h, site.audit,
                              IF Ends(req[r]) THEN Logged(site.audit, r) ELSE site.audit)

(* A log is recent after the one request that may add an entry did so.        *)
LEMMA RecentStep ==
    ASSUME NEW p \in Requests, NEW log \in Logs, Recent(log), Audited(p)',
           \A q \in Requests \ {p} : Audited(q)' <=> Audited(q),
           \A q \in Requests : Audited(q) => q < p,
           NEW more, more = Logged(log, p)
    PROVE  Recent(more)'
<1> DEFINE k == IF Len(log) < AuditMax THEN 0 ELSE 1
<1>1. /\ more \in Logs /\ Len(log) \in 0..AuditMax
      /\ Len(more) = Len(log) + 1 - k /\ more[Len(more)] = p
      /\ \A i \in 1..(Len(more) - 1) : more[i] = log[i + k]
  BY LoggedFacts
<1>2. /\ AuditMax \in Nat /\ AuditMax >= 1 /\ k \in {0, 1}
      /\ k = 1 => Len(log) = AuditMax
      /\ k = 0 => Len(log) < AuditMax
  BY <1>1, AuditMaxAssumption
<1>3. DOMAIN log = 1..Len(log) /\ DOMAIN more = 1..Len(more)
  BY <1>1 DEF Logs
<1>4. /\ \A i \in 1..Len(log) : log[i] \in Requests /\ Audited(log[i]) /\ log[i] < p
      /\ \A i, j \in 1..Len(log) : i < j => log[i] < log[j]
      /\ \A r \in Requests : Audited(r) =>
             \/ \E i \in 1..Len(log) : log[i] = r
             \/ Len(log) = AuditMax /\ \A i \in 1..Len(log) : r < log[i]
  BY <1>3 DEF Recent
<1>5. Requests \subseteq Nat /\ more \in Seq(Requests)
  BY <1>1 DEF Requests, Logs
<1> HIDE DEF k
<1>6. \A i \in 1..(Len(more) - 1) : i + k \in 1..Len(log)
  BY <1>1, <1>2
<1>7. \A i \in 1..(Len(more) - 1) : /\ more[i] \in Requests /\ Audited(more[i]) /\ more[i] < p
                                    /\ more[i] # p
  BY <1>1, <1>4, <1>5, <1>6
<1>8. \A i \in 1..Len(more) : i = Len(more) \/ i \in 1..(Len(more) - 1)
  BY <1>1, <1>2
<1>9. \A i \in 1..Len(more) : more[i] \in Requests /\ Audited(more[i])'
  <2> SUFFICES ASSUME NEW i \in 1..Len(more) PROVE more[i] \in Requests /\ Audited(more[i])'
    OBVIOUS
  <2>1. CASE i = Len(more)
    BY <1>1, <2>1
  <2>2. CASE i \in 1..(Len(more) - 1)
    BY <1>7, <2>2
  <2> QED
    BY <1>8, <2>1, <2>2
<1>10. \A i, j \in 1..Len(more) : i < j => more[i] < more[j]
  <2> SUFFICES ASSUME NEW i \in 1..Len(more), NEW j \in 1..Len(more), i < j PROVE more[i] < more[j]
    OBVIOUS
  <2>1. i \in 1..(Len(more) - 1)
    BY <1>1, <1>2
  <2>2. CASE j = Len(more)
    BY <1>1, <1>7, <2>1, <2>2
  <2>3. CASE j \in 1..(Len(more) - 1)
    <3>1. log[i + k] < log[j + k]
      <4>1. i + k < j + k
        BY <1>2
      <4> QED
        BY <1>4, <1>6, <2>1, <2>3, <4>1
    <3> QED
      BY <1>1, <2>1, <2>3, <3>1
  <2> QED
    BY <1>8, <2>2, <2>3
<1>11. ASSUME NEW r \in Requests, Audited(r)'
       PROVE  \/ \E i \in 1..Len(more) : more[i] = r
              \/ Len(more) = AuditMax /\ \A i \in 1..Len(more) : r < more[i]
  <2>1. CASE r = p
    <3>1. Len(more) \in 1..Len(more)
      BY <1>1, <1>2
    <3> QED
      BY <1>1, <2>1, <3>1
  <2>2. CASE r # p
    <3>1. Audited(r) /\ r < p
      BY <1>11, <2>2
    <3>2. ASSUME k = 1, \A i \in 2..Len(log) : r < log[i]
          PROVE  Len(more) = AuditMax /\ \A i \in 1..Len(more) : r < more[i]
      <4>1. Len(more) = AuditMax
        BY <1>1, <1>2, <3>2
      <4>2. \A i \in 1..(Len(more) - 1) : i + 1 \in 2..Len(log) /\ more[i] = log[i + 1]
        BY <1>1, <1>6, <3>2
      <4>3. \A i \in 1..(Len(more) - 1) : r < more[i]
        BY <3>2, <4>2
      <4> QED
        BY <1>1, <1>8, <3>1, <4>1, <4>3
    <3>3. CASE \E i \in 1..Len(log) : log[i] = r
      <4>1. PICK i \in 1..Len(log) : log[i] = r
        BY <3>3
      <4>2. CASE k = 0 \/ i > 1
        <5>1. i - k \in 1..(Len(more) - 1) /\ i - k + k = i
          BY <1>1, <1>2, <4>2
        <5>2. more[i - k] = r
          BY <1>1, <4>1, <5>1
        <5>3. i - k \in 1..Len(more)
          BY <1>1, <1>2, <5>1
        <5> QED
          BY <5>2, <5>3
      <4>3. CASE k = 1 /\ i = 1
        <5>1. \A j \in 2..Len(log) : r < log[j]
          BY <1>1, <1>4, <4>1, <4>3
        <5> QED
          BY <3>2, <4>3, <5>1
      <4> QED
        BY <1>2, <4>2, <4>3
    <3>4. CASE Len(log) = AuditMax /\ \A i \in 1..Len(log) : r < log[i]
      <4>1. k = 1
        BY <1>2, <3>4
      <4>2. \A i \in 2..Len(log) : r < log[i]
        BY <1>1, <3>4
      <4> QED
        BY <3>2, <4>1, <4>2
    <3> QED
      BY <1>4, <3>1, <3>3, <3>4
  <2> QED
    BY <2>1, <2>2
<1>12. DOMAIN more = 1..Len(more)
  BY <1>5
<1>13. \A r \in Requests : Audited(r)' =>
           \/ \E i \in 1..Len(more) : more[i] = r
           \/ Len(more) = AuditMax /\ \A i \in 1..Len(more) : r < more[i]
  BY <1>11
<1> QED
  BY <1>9, <1>10, <1>12, <1>13 DEF Recent

(* A history whose copies all hold the same log.                              *)
LEMMA SameLog ==
    ASSUME NEW a
    PROVE  /\ \A h : AnyHistory(h) /\ (\A i \in 1..Len(h) : h[i].audit = a)
                     => History(h, Entries, SettingSet, {a})
           /\ \A h : History(h, Entries, SettingSet, {a})
                     => (\A i \in 1..Len(h) : h[i].audit = a) /\ Now(h).audit = a
<1> DEFINE L == {a}
<1>1. \A x : x \in L <=> x = a
  OBVIOUS
<1> HIDE DEF L
<1>2. ASSUME NEW h, AnyHistory(h), \A i \in 1..Len(h) : h[i].audit = a
      PROVE  History(h, Entries, SettingSet, L)
  <2>1. h \in Seq(CopiesOf(Entries, SettingSet, Logs)) /\ h # <<>>
    BY <1>2 DEF AnyHistory, History
  <2>2. \A i \in 1..Len(h) : h[i] \in CopiesOf(Entries, SettingSet, L)
    <3> SUFFICES ASSUME NEW i \in 1..Len(h) PROVE h[i] \in CopiesOf(Entries, SettingSet, L)
      OBVIOUS
    <3>1. h[i] \in CopiesOf(Entries, SettingSet, Logs) /\ h[i].audit \in L
      BY <1>1, <1>2, <2>1
    <3> QED
      BY <3>1 DEF CopiesOf
  <2>3. h \in Seq(CopiesOf(Entries, SettingSet, L))
    BY <2>1, <2>2, SeqDef
  <2> QED
    BY <2>1, <2>3 DEF History
<1>3. ASSUME NEW h, History(h, Entries, SettingSet, L)
      PROVE  (\A i \in 1..Len(h) : h[i].audit = a) /\ Now(h).audit = a
  <2>1. h \in Seq(CopiesOf(Entries, SettingSet, L)) /\ Now(h) \in CopiesOf(Entries, SettingSet, L)
    BY <1>3, Puts DEF History
  <2>2. \A i \in 1..Len(h) : h[i] \in CopiesOf(Entries, SettingSet, L)
    BY <2>1
  <2>3. \A v \in CopiesOf(Entries, SettingSet, L) : v.audit = a
    BY <1>1 DEF CopiesOf
  <2> QED
    BY <2>1, <2>2, <2>3
<1> QED
  BY <1>2, <1>3 DEF L

(* What a step that writes no option does to the copies of its request.       *)
LEMMA EffectCarries ==
    ASSUME WInv, NEW r \in Requests, Effect(r), NEW a \in Logs, \A i \in 1..Len(Base(r)) : Base(r)[i].audit = a
    PROVE  Carries(req'[r].h, a, IF Ends(req'[r]) THEN Logged(a, r) ELSE a)
<1> DEFINE L == {a}
<1>1. AnyHistory(Base(r))
  BY Found, Held
<1>2. History(Base(r), Entries, SettingSet, L)
  BY <1>1, SameLog
<1>3. PICK g : /\ Derived(r, g)
               /\ req'[r].h = IF req'[r].at = "finish" /\ Audits(req'[r]) THEN Log(g, r) ELSE g
  BY DEF Effect, Reaches
<1>4. L \subseteq Logs
  OBVIOUS
<1>5. ReqOk(r, req'[r])
  BY DEF Effect
<1>6. History(g, Entries, SettingSet, L)
  <2> HIDE DEF L
  <2> QED
    BY <1>2, <1>3, <1>4, <1>5, Goes
<1>7. (\A i \in 1..Len(g) : g[i].audit = a) /\ Now(g).audit = a /\ Len(g) \in Nat /\ g # <<>>
  <2>1. (\A i \in 1..Len(g) : g[i].audit = a) /\ Now(g).audit = a
    BY <1>6, SameLog
  <2>2. Len(g) \in Nat /\ g # <<>>
    BY <1>6 DEF History
  <2> QED
    BY <2>1, <2>2
<1>8. CASE Ends(req'[r])
  <2> DEFINE w == Now(Log(g, r))
  <2>1. w.audit = Logged(a, r) /\ (Log(g, r) = g \/ Log(g, r) = Append(g, w))
    <3> HIDE DEF L
    <3>1. Now(Log(g, r)).audit = Logged(Now(g).audit, r)
      BY <1>4, <1>6, LogNow
    <3>2. Log(g, r) = g \/ Log(g, r) = Append(g, w)
      BY <1>4, <1>6, LogAppends
    <3> QED
      BY <1>7, <3>1, <3>2
  <2>2. w \in CopiesOf(Entries, SettingSet, Logs) /\ g \in Seq(CopiesOf(Entries, SettingSet, Logs))
    <3>1. AnyHistory(g)
      <4>1. Entries \subseteq Entries /\ SettingSet \subseteq SettingSet
        OBVIOUS
      <4> HIDE DEF L
      <4> QED
        BY <1>4, <1>6, <4>1, Larger DEF AnyHistory
    <3>2. AnyHistory(Log(g, r))
      BY <3>1, LogKeeps
    <3> QED
      BY <3>1, <3>2, Puts DEF AnyHistory, History
  <2> HIDE DEF w
  <2>3. \A i \in 1..(Len(Log(g, r)) - 1) : Log(g, r)[i].audit = a
    <3>1. CASE Log(g, r) = g
      BY <1>7, <3>1
    <3>2. CASE Log(g, r) = Append(g, w)
      <4>1. Len(Append(g, w)) = Len(g) + 1 /\ \A i \in 1..Len(g) : Append(g, w)[i] = g[i]
        BY <2>2, AppendProperties
      <4>2. \A i \in 1..Len(g) : Append(g, w)[i].audit = a
        BY <1>7, <4>1
      <4> QED
        BY <1>7, <3>2, <4>1, <4>2
    <3> QED
      BY <2>1, <3>1, <3>2
  <2>4. req'[r].h = Log(g, r)
    BY <1>3, <1>8 DEF Ends
  <2> QED
    BY <1>8, <2>1, <2>3, <2>4 DEF Carries, w
<1>9. CASE ~Ends(req'[r])
  <2>1. req'[r].h = g
    BY <1>3, <1>9 DEF Ends
  <2> QED
    BY <1>7, <1>9, <2>1 DEF Carries
<1> QED
  BY <1>8, <1>9

LEMMA NowOfOne == ASSUME NEW h, Len(h) = 1 PROVE Now(h) = h[1]
BY DEF Now

(* The request that makes a step is the last one that has started, and the    *)
(* others are done or have not.                                               *)
LEMMA Alone ==
    ASSUME WInv, SoloInv, SoloInv', NEW p \in Requests, Step(p), NoOverlap'
    PROVE  /\ NoOverlap
           /\ Started(p)' /\ req'[p].solo /\ ~Done(p)
           /\ \A q \in Requests : q < p => Done(q) /\ Done(q)'
           /\ \A q \in Requests : q > p => ~Started(q) /\ ~Started(q)'
           /\ Started(p) => Running(p)
           /\ site' = req'[p].h[1]
           /\ Started(p) => site = req[p].h[1]
           /\ \A q \in Requests \ {p} : Audited(q)' <=> Audited(q)
           /\ \A q \in Requests \ {p} : ~Running(q)'
<1>1. /\ Frame(p) /\ ~Done(p) /\ Started(p)'
      /\ \A q \in Requests \ {p} : /\ Done(q)' <=> Done(q)
                                   /\ Started(q)' <=> Started(q)
                                   /\ Same(req[q], req'[q])
                                   /\ req'[q].solo => req[q].solo
  BY StepFacts, Framed
<1>2. req'[p].solo
  BY <1>1 DEF NoOverlap
<1>3. Started(p) => req[p].solo
  BY <1>1, <1>2, Zenon DEF Frame
<1>4. NoOverlap
  BY <1>1, <1>3 DEF NoOverlap
<1>5. \A q \in Requests : q < p => Done(q) /\ Done(q)'
  <2>1. \A q \in Requests : q < p => Done(q)'
    BY <1>1, <1>2 DEF SoloInv
  <2> QED
    BY <1>1, <2>1 DEF Requests
<1>6. Started(p) => Running(p)
  BY <1>1 DEF Running
<1>7. \A q \in Requests : q > p => ~Started(q) /\ ~Started(q)'
  <2>1. CASE Started(p)
    BY <1>1, <1>3, <1>6, <2>1 DEF SoloInv, Requests
  <2>2. CASE ~Started(p)
    BY <1>1, <2>2 DEF WInv, Requests
  <2> QED
    BY <2>1, <2>2
<1>8. site' = req'[p].h[1]
  BY <1>1, <1>2, <1>7 DEF SoloInv
<1>9. Started(p) => site = req[p].h[1]
  BY <1>3, <1>7 DEF SoloInv
<1>10. \A q \in Requests \ {p} : Audited(q)' <=> Audited(q)
  <2> SUFFICES ASSUME NEW q \in Requests \ {p} PROVE Audited(q)' <=> Audited(q)
    OBVIOUS
  <2>1. req'[q].op = req[q].op /\ req'[q].out = req[q].out /\ (Done(q)' <=> Done(q))
    BY <1>1 DEF Same
  <2> QED
    BY <2>1 DEF Audited
<1>11. \A q \in Requests \ {p} : ~Running(q)'
  <2> SUFFICES ASSUME NEW q \in Requests \ {p} PROVE ~Running(q)'
    OBVIOUS
  <2>1. q < p \/ q > p
    BY DEF Requests
  <2> QED
    BY <1>5, <1>7, <2>1 DEF Running
<1> QED
  BY <1>1, <1>2, <1>4, <1>5, <1>6, <1>7, <1>8, <1>9, <1>10, <1>11

LEMMA AuditedEnds == ASSUME NEW r \in Requests PROVE Audited(r) <=> Done(r) /\ Ends(req[r])
BY DEF Audited, Done, Ends, Audits

(* A step keeps the log recent: the one request that runs adds its entry,     *)
(* once.                                                                      *)
LEMMA StepAud ==
    ASSUME WInv, WInv', SoloInv, SoloInv', AudInv, NEW p \in Requests, Step(p)
    PROVE  AudInv'
<1> SUFFICES ASSUME NoOverlap'
             PROVE  /\ Recent(site.audit)'
                    /\ \A r \in Requests : Running(r)' =>
                         Carries(req'[r].h, site'.audit,
                                 IF Ends(req'[r]) THEN Logged(site'.audit, r) ELSE site'.audit)
  BY DEF AudInv
<1> DEFINE a == site.audit
           b == site'.audit
           h == req'[p].h
           x == req'[p]
           end == IF Ends(x) THEN Logged(a, p) ELSE a
<1>1. /\ NoOverlap
      /\ Started(p)' /\ req'[p].solo /\ ~Done(p)
      /\ \A q \in Requests : q < p => Done(q) /\ Done(q)'
      /\ \A q \in Requests : q > p => ~Started(q) /\ ~Started(q)'
      /\ Started(p) => Running(p)
      /\ site' = h[1]
      /\ Started(p) => site = req[p].h[1]
      /\ \A q \in Requests \ {p} : Audited(q)' <=> Audited(q)
      /\ \A q \in Requests \ {p} : ~Running(q)'
  BY Alone
<1>2. /\ Recent(a)
      /\ Running(p) => Carries(req[p].h, a, IF Ends(req[p]) THEN Logged(a, p) ELSE a)
  BY <1>1 DEF AudInv
<1>3. a \in Logs
  BY DEF WInv, CopiesOf
<1>4. Len(h) \in Nat /\ Len(h) >= 1
  <2>1. History(h, Known', SettingSet, Logs)
    BY <1>1 DEF WInv
  <2> QED
    BY <2>1 DEF History
<1>5. Carries(h, a, end)
  <2>1. CASE Effect(p)
    <3>1. \A i \in 1..Len(Base(p)) : Base(p)[i].audit = a
      <4>1. CASE Started(p)
        <5>1. ~Ends(req[p])
          BY <2>1 DEF Effect, Ends
        <5>2. /\ \A i \in 1..(Len(req[p].h) - 1) : req[p].h[i].audit = a
              /\ Now(req[p].h).audit = a
          BY <1>1, <1>2, <4>1, <5>1 DEF Carries
        <5>3. Len(req[p].h) \in Nat
          BY <4>1, Held DEF AnyHistory, History
        <5> QED
          BY <4>1, <5>2, <5>3 DEF Base, Now
      <4>2. CASE ~Started(p)
        <5>1. Base(p) = <<site>>
          BY <4>2 DEF Base
        <5> QED
          BY <5>1
      <4> QED
        BY <4>1, <4>2
    <3> HIDE DEF a
    <3> QED
      BY <1>3, <2>1, <3>1, EffectCarries
  <2>2. CASE Writes(p)
    <3> DEFINE f == req[p].h
    <3>1. Started(p) /\ h = Tail(f) /\ Now(h) = Now(f) /\ Len(f) > 1 /\ Same(req[p], x)
      BY <2>2 DEF Writes
    <3>2. Ends(x) <=> Ends(req[p])
      BY <3>1 DEF Same, Ends, Audits
    <3>3. (\A i \in 1..(Len(f) - 1) : f[i].audit = a) /\ Now(f).audit = end
      BY <1>1, <1>2, <3>1, <3>2 DEF Carries
    <3>4. f \in Seq(CopiesOf(Entries, SettingSet, Logs))
      BY <3>1, Held DEF AnyHistory, History
    <3>5. Len(h) = Len(f) - 1 /\ Len(f) \in Nat /\ \A i \in 1..(Len(f) - 1) : h[i] = f[i + 1]
      BY <3>1, <3>4, TailFacts
    <3> HIDE DEF f, h, end
    <3>6. \A i \in 1..(Len(h) - 1) : h[i].audit = a
      <4> SUFFICES ASSUME NEW i \in 1..(Len(h) - 1) PROVE h[i].audit = a
        OBVIOUS
      <4>1. i + 1 \in 1..(Len(f) - 1) /\ i \in 1..(Len(f) - 1)
        BY <3>5
      <4> QED
        BY <3>3, <3>5, <4>1
    <3> QED
      BY <3>1, <3>3, <3>6 DEF Carries
  <2> QED
    BY <2>1, <2>2 DEF Step
<1> HIDE DEF end, h, a
<1>6. b = IF Len(h) = 1 THEN end ELSE a
  <2>1. b = h[1].audit
    BY <1>1
  <2>2. Len(h) = 1 => Now(h) = h[1]
    BY NowOfOne
  <2>3. Len(h) # 1 => 1 \in 1..(Len(h) - 1)
    <3> DEFINE n == Len(h)
    <3>1. n \in Nat /\ n >= 1
      BY <1>4
    <3> HIDE DEF n
    <3>2. n # 1 => 1 \in 1..(n - 1)
      BY <3>1
    <3> QED
      BY <3>2 DEF n
  <2> HIDE DEF b
  <2> QED
    BY <1>5, <2>1, <2>2, <2>3 DEF Carries
<1>7. Running(p)' => Carries(h, b, IF Ends(x) THEN Logged(b, p) ELSE b)
  <2>1. CASE Len(h) = 1
    <3> SUFFICES ASSUME Running(p)' PROVE Carries(h, b, IF Ends(x) THEN Logged(b, p) ELSE b)
      OBVIOUS
    <3>1. ~Ends(x)
      BY <2>1 DEF Running, Done, Ends, h
    <3>2. Now(h).audit = b /\ b = a
      BY <1>5, <1>6, <2>1, <3>1 DEF Carries, end
    <3>3. \A i \in 1..(Len(h) - 1) : h[i].audit = b
      BY <1>4, <2>1
    <3> QED
      BY <3>1, <3>2, <3>3 DEF Carries
  <2>2. CASE Len(h) # 1
    BY <1>5, <1>6, <2>2 DEF end
  <2> QED
    BY <2>1, <2>2
<1>8. Recent(site.audit)'
  <2>1. Audited(p)' <=> Len(h) = 1 /\ Ends(x)
    BY DEF Audited, Done, Ends, Audits, h
  <2>2. ~Audited(p)
    BY <1>1 DEF Audited
  <2>3. CASE Audited(p)'
    <3>1. b = Logged(a, p)
      BY <1>6, <2>1, <2>3 DEF end
    <3>2. \A q \in Requests : Audited(q) => q < p
      <4> SUFFICES ASSUME NEW q \in Requests, Audited(q) PROVE q < p
        OBVIOUS
      <4>1. q # p /\ Started(q)
        BY <2>2, DoneFacts DEF Audited
      <4>2. ~(q > p)
        BY <1>1, <4>1
      <4> QED
        BY <4>1, <4>2 DEF Requests
    <3>3. PICK m : m = Logged(a, p)
      OBVIOUS
    <3>4. PICK log : log = a
      OBVIOUS
    <3>5. log \in Logs /\ Recent(log) /\ m = Logged(log, p)
      BY <1>2, <1>3, <3>3, <3>4
    <3>6. \A q \in Requests \ {p} : Audited(q)' <=> Audited(q)
      BY <1>1
    <3>7. Recent(m)'
      BY <2>3, <3>2, <3>5, <3>6, RecentStep
    <3> QED
      BY <3>1, <3>3, <3>7 DEF Recent
  <2>4. CASE ~Audited(p)'
    <3>1. b = a
      BY <1>6, <2>1, <2>4 DEF end
    <3>2. \A q \in Requests : Audited(q)' <=> Audited(q)
      BY <1>1, <2>2, <2>4
    <3> QED
      BY <1>2, <3>1, <3>2 DEF Recent
  <2> QED
    BY <2>3, <2>4
<1> QED
  BY <1>1, <1>7, <1>8 DEF h

(* The invariant about the log holds.                                         *)
LEMMA AudHolds == Spec => []AudInv
<1>1. WInv /\ WInv' /\ SoloInv /\ SoloInv' /\ AudInv /\ [Next]_vars => AudInv'
  <2> SUFFICES ASSUME WInv, WInv', SoloInv, SoloInv', AudInv, [Next]_vars PROVE AudInv'
    OBVIOUS
  <2>1. CASE Next
    BY <2>1, Stepping, StepAud
  <2>2. CASE UNCHANGED vars
    <3>1. req' = req /\ site' = site
      BY <2>2 DEF vars, nodeVars
    <3> QED
      BY <3>1 DEF AudInv, NoOverlap, Recent, Audited, Started, Running, Done
  <2> QED
    BY <2>1, <2>2
<1>2. Init => AudInv
  <2> SUFFICES ASSUME Init PROVE AudInv
    OBVIOUS
  <2>1. site.audit = <<>>
    BY SitesAssumption DEF Init, NodeInit
  <2>2. \A r \in Requests : ~Started(r) /\ ~Audited(r)
    BY DEF Init, NodeInit, Started, Audited, Done, Idle
  <2> QED
    BY <2>1, <2>2 DEF AudInv, Recent, Running
<1> QED
  BY <1>1, <1>2, WInvHolds, SoloHolds, PTL DEF Spec

(* As long as no two requests overlap, the audit log holds the newest         *)
(* entries, in order and none twice.                                          *)
THEOREM LogIsRecent == Spec => []AuditIsRecent
<1>1. ASSUME AudInv PROVE AuditIsRecent
  <2> SUFFICES ASSUME \A r \in Requests : req[r].solo PROVE Recent(site.audit)
    BY DEF AuditIsRecent, Recent
  <2> QED
    BY <1>1 DEF AudInv, NoOverlap
<1> QED
  BY <1>1, AudHolds, PTL
=============================================================================
