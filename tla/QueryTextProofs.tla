--------------------------- MODULE QueryTextProofs ---------------------------
(***************************************************************************)
(* Proofs about the text of ServerQuery, for all texts, requests and       *)
(* reports.  A command is one line: buildCommand() escapes whatever would  *)
(* separate lines, entries or parameters, and parseKeyValueLine() reads    *)
(* from the line what the request held.  A response is read as the records *)
(* it was made from, and no value passes to another key.                   *)
(*                                                                         *)
(* The functions of QueryText are recursive over the characters of a text. *)
(* Each is described by the sequence of its steps (...Steps), which is     *)
(* shown to exist (...Run); what holds after every step follows by         *)
(* induction over the numbers up to a length (UpTo).  A command is then a  *)
(* sequence of pieces at known places, and reading it goes from one place  *)
(* to the next.  For responses the steps over characters, entries and      *)
(* lines are those of one operator, After(): a text behind another is read *)
(* from the state the other leaves, so that each part of a response has    *)
(* its lemma, and the parts are put together.                              *)
(***************************************************************************)
EXTENDS TeamSpeakRequests, SequenceTheorems, FiniteSetTheorems, WellFoundedInduction, TLAPS

(* Induction up to n, with the set of numbers a claim holds of.              *)
LEMMA UpTo ==
    ASSUME NEW n \in Nat, NEW T, 0 \in T, \A i \in 1..n : i - 1 \in T => i \in T
    PROVE  \A i \in 0..n : i \in T
<1> DEFINE Bad == {i \in 0..n : i \notin T}
<1> SUFFICES ASSUME Bad # {} PROVE FALSE
  OBVIOUS
<1>1. IsWellFoundedOn(OpToRel(<, Nat), Nat)
  BY NatLessThanWellFounded
<1>2. Bad \subseteq Nat
  OBVIOUS
<1> HIDE DEF Bad
<1>3. PICK x \in Bad : \A y \in Bad : ~(<<y, x>> \in OpToRel(<, Nat))
  BY <1>1, <1>2, WFMin
<1>4. x \in 0..n /\ x \notin T
  BY DEF Bad
<1>5. x - 1 \in Bad
  BY <1>4 DEF Bad
<1>6. x - 1 < x /\ x - 1 \in Nat /\ x \in Nat
  BY <1>2, <1>4, <1>5
<1>7. <<x - 1, x>> \in OpToRel(<, Nat)
  BY <1>6 DEF OpToRel
<1> QED
  BY <1>3, <1>5, <1>7

(* g goes from first, by the steps of the function F, up to n.               *)
Steps(F, first, g, n) == g[0] = first /\ \A i \in 1..n : g[i] = F[<<g[i - 1], i>>]

(* Such a sequence of steps exists.                                          *)
LEMMA StepsExist ==
    ASSUME NEW States, NEW first \in States, NEW n \in Nat, NEW F \in [States \X (1..n) -> States]
    PROVE  \E g \in [0..n -> States] : Steps(F, first, g, n)
<1> DEFINE T == {m \in 0..n : \E g \in [0..m -> States] : Steps(F, first, g, m)}
<1>1. 0 \in T
  <2> DEFINE g == [i \in 0..0 |-> first]
  <2>1. g \in [0..0 -> States] /\ Steps(F, first, g, 0)
    BY DEF Steps
  <2> QED
    BY <2>1
<1>2. ASSUME NEW m \in 1..n, m - 1 \in T PROVE m \in T
  <2>1. PICK f \in [0..(m - 1) -> States] : Steps(F, first, f, m - 1)
    BY <1>2
  <2>2. m \in Nat /\ m - 1 \in 0..(m - 1) /\ 0..m = (0..(m - 1)) \cup {m}
    OBVIOUS
  <2> DEFINE top == F[<<f[m - 1], m>>]
             g == [i \in 0..m |-> IF i = m THEN top ELSE f[i]]
  <2>3. top \in States
    BY <2>2
  <2>4. g \in [0..m -> States]
    BY <2>2, <2>3
  <2>5. \A i \in 0..(m - 1) : g[i] = f[i]
    BY <2>2
  <2>6. g[m] = top /\ m # 0
    BY <2>2
  <2>7. g[0] = first
    BY <2>1, <2>5, <2>2 DEF Steps
  <2>8. ASSUME NEW i \in 1..m PROVE g[i] = F[<<g[i - 1], i>>]
    <3>1. CASE i = m
      <4>1. g[m - 1] = f[m - 1]
        BY <2>5, <2>2
      <4> QED
        BY <3>1, <4>1, <2>6
    <3>2. CASE i # m
      <4>1. i \in 1..(m - 1) /\ i \in 0..(m - 1) /\ i - 1 \in 0..(m - 1)
        BY <3>2
      <4>2. g[i] = f[i] /\ g[i - 1] = f[i - 1]
        BY <2>5, <4>1
      <4>3. f[i] = F[<<f[i - 1], i>>]
        BY <2>1, <4>1 DEF Steps
      <4> QED
        BY <4>2, <4>3
    <3> QED
      BY <3>1, <3>2
  <2> HIDE DEF g
  <2>9. Steps(F, first, g, m)
    BY <2>7, <2>8 DEF Steps
  <2> QED
    BY <2>4, <2>9
<1> HIDE DEF T
<1>3. n \in T
  <2>1. \A i \in 0..n : i \in T
    BY <1>1, <1>2, UpTo, Zenon
  <2> QED
    BY <2>1
<1> QED
  BY <1>3 DEF T

-----------------------------------------------------------------------------
(* The characters of texts and lines.                                        *)
Letters == {"\\", "/", "a", "b", "f", "n", "r", "t", "v", "s", "p"}
Keys == {"clid", "channel_name", "cpid", "channel_order", "cid", "channel_topic",
         "channel_description", "force", "order", "reasonid", "reasonmsg", "banreason", "time", "msg"}
Commands == {"serverinfo", "clientlist", "clientinfo", "channellist", "channelcreate", "channeledit",
             "channeldelete", "channelmove", "clientkick", "banclient", "clientmove", "clientpoke"}
AllChars == Chars \cup Special \cup Letters \cup Keys \cup Commands \cup Names \cup Events
            \cup Wide \cup {"=", "error", "clid", "9"}

(* Those that do not separate lines, entries or parameters.                  *)
Clean == AllChars \ (Blanks \cup {"|"})

(* The characters lines are made of, among all.                              *)
LEMMA Alphabet ==
    /\ Chars \subseteq AllChars /\ Special \subseteq AllChars /\ Letters \subseteq AllChars
    /\ Keys \subseteq AllChars /\ Commands \subseteq AllChars /\ "=" \in AllChars
    /\ "\\" \in Letters /\ "\\" \in Special /\ Space \in Special /\ "|" \in Special
BY DEF AllChars, Letters, Special

(* The letter that stands for each special character.                        *)
LEMMA LetterOf ==
    /\ Letter["\\"] = "\\" /\ Letter["/"] = "/" /\ Letter["BEL"] = "a" /\ Letter["BS"] = "b"
    /\ Letter["\f"] = "f" /\ Letter[Newline] = "n" /\ Letter["\r"] = "r" /\ Letter["\t"] = "t"
    /\ Letter["VT"] = "v" /\ Letter[Space] = "s" /\ Letter["|"] = "p"
BY DEF Letter, Special, Space, Newline

(* It is a letter.                                                           *)
LEMMA LetterType == Letter \in [Special -> Letters]
<1>1. \A c \in Special : Letter[c] \in Letters
  BY LetterOf DEF Special, Letters
<1> QED
  BY <1>1 DEF Letter

(* No two characters share one.                                              *)
LEMMA LetterInjective ==
    ASSUME NEW c \in Special, NEW d \in Special, Letter[c] = Letter[d]
    PROVE  c = d
BY LetterOf DEF Special

(* Letters, keys and names of commands are no characters that separate.      *)
LEMMA Disjoint ==
    /\ Blanks \subseteq Special /\ Letters \cap (Blanks \cup {"|"}) = {}
    /\ Keys \cap Special = {} /\ Commands \cap Special = {} /\ "=" \notin Special
<1>1. Blanks \subseteq Special
  BY DEF Blanks, Special
<1>2. Letters \cap (Blanks \cup {"|"}) = {}
  BY DEF Blanks, Letters, Space, Newline
<1>3. Keys \cap Special = {}
  BY DEF Keys, Special, Space, Newline
<1>4. Commands \cap Special = {}
  BY DEF Commands, Special, Space, Newline
<1>5. "=" \notin Special
  BY DEF Special, Space, Newline
<1> QED
  BY <1>1, <1>2, <1>3, <1>4, <1>5

(* What is left in an escaped text.                                          *)
LEMMA CleanChars ==
    /\ Clean \subseteq AllChars /\ Letters \subseteq Clean /\ AllChars \ Special \subseteq Clean
    /\ Keys \subseteq Clean /\ Commands \subseteq Clean /\ "=" \in Clean
BY Alphabet, Disjoint DEF Clean

(* An escaped character separates nothing.                                   *)
LEMMA EscapedType ==
    ASSUME NEW c \in AllChars
    PROVE  Escaped(c) \in Seq(Clean)
<1>1. CASE c \in Special
  <2>1. "\\" \in Clean /\ Letter[c] \in Clean
    BY <1>1, Alphabet, LetterType, CleanChars
  <2> QED
    BY <1>1, <2>1 DEF Escaped
<1>2. CASE c \notin Special
  <2>1. c \in Clean
    BY <1>2, CleanChars
  <2> QED
    BY <1>2, <2>1 DEF Escaped
<1> QED
  BY <1>1, <1>2

(* e[i] is the escaped form of the first i characters of v.                  *)
EscapeSteps(v, e) ==
    /\ e \in [0..Len(v) -> Seq(Clean)] /\ e[0] = <<>> /\ e[Len(v)] = Escape(v)
    /\ \A i \in 1..Len(v) : e[i] = e[i - 1] \o Escaped(v[i])

(* Escape() makes these steps.                                               *)
LEMMA EscapeRun ==
    ASSUME NEW v \in Seq(Chars)
    PROVE  \E e : EscapeSteps(v, e)
<1> DEFINE S == Seq(Clean)
           P(g) == g = [i \in 0..Len(v) |-> IF i = 0 THEN <<>> ELSE g[i - 1] \o Escaped(v[i])]
           F == [x \in S \X (1..Len(v)) |-> x[1] \o Escaped(v[x[2]])]
<1>1. Len(v) \in Nat /\ <<>> \in S /\ \A i \in 1..Len(v) : v[i] \in AllChars
  BY Alphabet
<1>2. ASSUME NEW s \in S, NEW i \in 1..Len(v)
      PROVE  s \o Escaped(v[i]) \in S
  <2>1. Escaped(v[i]) \in Seq(Clean)
    BY <1>1, EscapedType
  <2> QED
    BY <2>1
<1>3. F \in [S \X (1..Len(v)) -> S] /\ \A s \in S, i \in 1..Len(v) : F[<<s, i>>] = s \o Escaped(v[i])
  BY <1>2
<1> HIDE DEF S, F
<1>4. PICK g \in [0..Len(v) -> S] : Steps(F, <<>>, g, Len(v))
  BY <1>1, <1>3, StepsExist
<1>5. \A i \in 0..Len(v) : g[i] = IF i = 0 THEN <<>> ELSE g[i - 1] \o Escaped(v[i])
  <2>1. g[0] = <<>> /\ \A i \in 1..Len(v) : g[i] = F[<<g[i - 1], i>>]
    BY <1>4 DEF Steps
  <2>2. \A i \in 1..Len(v) : g[i - 1] \in S
    BY <1>1
  <2>3. \A i \in 1..Len(v) : g[i] = g[i - 1] \o Escaped(v[i])
    BY <2>1, <2>2, <1>3
  <2>4. \A i \in 0..Len(v) : i = 0 \/ i \in 1..Len(v)
    BY <1>1
  <2> QED
    BY <2>1, <2>3, <2>4
<1>6. P(g)
  BY <1>5
<1> DEFINE e == CHOOSE f : P(f)
<1>7. P(e)
  BY <1>6
<1>8. Escape(v) = e[Len(v)]
  BY DEF Escape
<1> HIDE DEF e
<1>9. e[0] = <<>> /\ \A i \in 1..Len(v) : e[i] = e[i - 1] \o Escaped(v[i])
  BY <1>1, <1>7
<1>10. \A i \in 0..Len(v) : e[i] \in S
  <2> DEFINE T == {i \in 0..Len(v) : e[i] \in S}
  <2>1. 0 \in T
    BY <1>1, <1>9
  <2>2. ASSUME NEW i \in 1..Len(v), i - 1 \in T PROVE i \in T
    <3>1. i \in 0..Len(v) /\ e[i - 1] \in S
      BY <1>1, <2>2
    <3>2. e[i - 1] \o Escaped(v[i]) \in S
      BY <1>2, <3>1
    <3> QED
      BY <1>9, <3>1, <3>2
  <2> HIDE DEF T
  <2>3. \A i \in 0..Len(v) : i \in T
    BY <1>1, <2>1, <2>2, UpTo, Zenon
  <2> QED
    BY <2>3 DEF T
<1>11. e \in [0..Len(v) -> S]
  BY <1>7, <1>10
<1> QED
  BY <1>8, <1>9, <1>11 DEF EscapeSteps, S

-----------------------------------------------------------------------------
(* Each g[i] continues the one before it with h[i].                          *)
Grows(A, n, g, h) ==
    /\ n \in Nat /\ g \in [0..n -> Seq(A)] /\ h \in [1..n -> Seq(A)]
    /\ \A i \in 1..n : g[i] = g[i - 1] \o h[i]

(* The last one begins with all of them.                                     *)
Begins(n, g, h) ==
    /\ Len(g[0]) <= Len(g[n]) /\ \A k \in 1..Len(g[0]) : g[n][k] = g[0][k]
    /\ \A i \in 1..n : /\ Len(g[i]) = Len(g[i - 1]) + Len(h[i])
                       /\ Len(g[i]) <= Len(g[n])
                       /\ \A k \in 1..Len(h[i]) : g[n][Len(g[i - 1]) + k] = h[i][k]
                       /\ Len(g[i - 1]) \in Nat /\ Len(h[i]) \in Nat

(* The last of a growing sequence holds every piece at its place.            *)
LEMMA Pieces ==
    ASSUME NEW A, NEW n, NEW g, NEW h, Grows(A, n, g, h)
    PROVE  Begins(n, g, h)
<1> USE DEF Grows
<1> DEFINE Starts(x, y) == Len(x) <= Len(y) /\ \A k \in 1..Len(x) : y[k] = x[k]
           T == {m \in 0..n : \A i \in 0..m : Starts(g[i], g[m])}
<1>1. ASSUME NEW i \in 1..n
      PROVE  /\ Len(g[i]) = Len(g[i - 1]) + Len(h[i])
             /\ \A k \in 1..Len(g[i - 1]) : g[i][k] = g[i - 1][k]
             /\ \A k \in 1..Len(h[i]) : g[i][Len(g[i - 1]) + k] = h[i][k]
             /\ i - 1 \in 0..n /\ g[i] \in Seq(A) /\ g[i - 1] \in Seq(A) /\ h[i] \in Seq(A)
             /\ Len(g[i]) \in Nat /\ Len(g[i - 1]) \in Nat /\ Len(h[i]) \in Nat
  <2>1. i - 1 \in 0..n /\ i \in 0..n
    OBVIOUS
  <2>2. g[i - 1] \in Seq(A) /\ h[i] \in Seq(A) /\ g[i] \in Seq(A)
    BY <2>1
  <2> QED
    BY <2>1, <2>2
<1>2. 0 \in T
  BY <1>1
<1>3. ASSUME NEW m \in 1..n, m - 1 \in T PROVE m \in T
  <2>1. m \in 0..n /\ Len(g[m]) = Len(g[m - 1]) + Len(h[m])
    BY <1>1
  <2>2. \A k \in 1..Len(g[m - 1]) : g[m][k] = g[m - 1][k]
    BY <1>1
  <2>3. Len(g[m - 1]) \in Nat /\ Len(h[m]) \in Nat
    BY <1>1
  <2>4. ASSUME NEW i \in 0..(m - 1) PROVE Starts(g[i], g[m])
    <3>1. Starts(g[i], g[m - 1]) /\ i \in 0..n
      BY <1>3, <2>4
    <3>2. Len(g[i]) \in Nat
      BY <3>1
    <3> QED
      BY <2>1, <2>2, <2>3, <3>1, <3>2
  <2>5. Starts(g[m], g[m])
    BY <2>1
  <2>6. \A i \in 0..m : i \in 0..(m - 1) \/ i = m
    OBVIOUS
  <2> HIDE DEF Starts
  <2> QED
    BY <2>1, <2>4, <2>5, <2>6
<1> HIDE DEF T
<1>4. n \in T
  <2>1. \A i \in 0..n : i \in T
    BY <1>2, <1>3, UpTo, Zenon
  <2> QED
    BY <2>1
<1>5. \A i \in 0..n : Starts(g[i], g[n])
  BY <1>4 DEF T
<1>6. ASSUME NEW i \in 1..n
      PROVE  /\ Len(g[i]) = Len(g[i - 1]) + Len(h[i])
             /\ Len(g[i]) <= Len(g[n])
             /\ \A k \in 1..Len(h[i]) : g[n][Len(g[i - 1]) + k] = h[i][k]
             /\ Len(g[i - 1]) \in Nat /\ Len(h[i]) \in Nat
  <2>1. Starts(g[i], g[n])
    BY <1>5
  <2>2. Len(g[i]) = Len(g[i - 1]) + Len(h[i]) /\ Len(g[i - 1]) \in Nat /\ Len(h[i]) \in Nat
    BY <1>1
  <2>3. ASSUME NEW k \in 1..Len(h[i]) PROVE g[n][Len(g[i - 1]) + k] = h[i][k]
    <3>1. g[i][Len(g[i - 1]) + k] = h[i][k]
      BY <1>1
    <3>2. Len(g[i - 1]) + k \in 1..Len(g[i])
      BY <2>2
    <3> QED
      BY <2>1, <3>1, <3>2
  <2> QED
    BY <2>1, <2>2, <2>3
<1> QED
  BY <1>5, <1>6 DEF Begins

(* A text grows by its characters.                                           *)
LEMMA SubTexts ==
    ASSUME NEW A, NEW v \in Seq(A)
    PROVE  /\ SubSeq(v, 1, 0) = <<>> /\ SubSeq(v, 1, Len(v)) = v
           /\ \A i \in 1..Len(v) : /\ SubSeq(v, 1, i - 1) \o <<v[i]>> = SubSeq(v, 1, i)
                                   /\ Append(SubSeq(v, 1, i - 1), v[i]) = SubSeq(v, 1, i)
OBVIOUS

-----------------------------------------------------------------------------
(* u[i] is what unescapeQueryValue() has read of i characters of w.          *)
UnescapeStates == [out : Seq(AllChars), esc : BOOLEAN]

UnescapeSteps(w, u) ==
    /\ u \in [0..Len(w) -> UnescapeStates] /\ u[0] = [out |-> <<>>, esc |-> FALSE]
    /\ \A i \in 1..Len(w) : u[i] = UnescapeChar(u[i - 1], w[i])
    /\ Unescape(w) = IF u[Len(w)].esc THEN Append(u[Len(w)].out, "\\") ELSE u[Len(w)].out

(* What an escape means is characters.                                       *)
LEMMA MeantType ==
    ASSUME NEW c \in AllChars
    PROVE  Meant(c) \in Seq(AllChars)
<1>1. CASE \E d \in Special : Letter[d] = c
  <2> DEFINE d == CHOOSE d \in Special : Letter[d] = c
  <2>1. d \in AllChars
    BY <1>1, Alphabet
  <2>2. Meant(c) = <<d>>
    BY <1>1 DEF Meant
  <2> QED
    BY <2>1, <2>2
<1>2. CASE ~\E d \in Special : Letter[d] = c
  <2>1. Meant(c) = <<"\\", c>> /\ "\\" \in AllChars
    BY <1>2, Alphabet DEF Meant
  <2> QED
    BY <2>1
<1> QED
  BY <1>1, <1>2

(* A step of Unescape() keeps the types.                                     *)
LEMMA UnescapeCharType ==
    ASSUME NEW s \in UnescapeStates, NEW c \in AllChars
    PROVE  UnescapeChar(s, c) \in UnescapeStates
<1>1. Meant(c) \in Seq(AllChars) /\ s.out \in Seq(AllChars) /\ s.esc \in BOOLEAN
  BY MeantType DEF UnescapeStates
<1>2. s.out \o Meant(c) \in Seq(AllChars) /\ Append(s.out, c) \in Seq(AllChars)
  BY <1>1
<1> QED
  BY <1>1, <1>2 DEF UnescapeChar, UnescapeStates

(* Unescape() makes these steps.                                             *)
LEMMA UnescapeRun ==
    ASSUME NEW w \in Seq(AllChars)
    PROVE  \E u : UnescapeSteps(w, u)
<1> DEFINE S == UnescapeStates
           first == [out |-> <<>>, esc |-> FALSE]
           P(g) == g = [i \in 0..Len(w) |-> IF i = 0 THEN [out |-> <<>>, esc |-> FALSE]
                                            ELSE UnescapeChar(g[i - 1], w[i])]
           F == [x \in S \X (1..Len(w)) |-> UnescapeChar(x[1], w[x[2]])]
<1>1. Len(w) \in Nat /\ first \in S /\ \A i \in 1..Len(w) : w[i] \in AllChars
  BY DEF UnescapeStates
<1>2. ASSUME NEW s \in S, NEW i \in 1..Len(w)
      PROVE  UnescapeChar(s, w[i]) \in S
  BY <1>1, UnescapeCharType
<1>3. F \in [S \X (1..Len(w)) -> S] /\ \A s \in S, i \in 1..Len(w) : F[<<s, i>>] = UnescapeChar(s, w[i])
  BY <1>2
<1> HIDE DEF S, F
<1>4. PICK g \in [0..Len(w) -> S] : Steps(F, first, g, Len(w))
  BY <1>1, <1>3, StepsExist
<1>5. \A i \in 0..Len(w) : g[i] = IF i = 0 THEN first ELSE UnescapeChar(g[i - 1], w[i])
  <2>1. g[0] = first /\ \A i \in 1..Len(w) : g[i] = F[<<g[i - 1], i>>]
    BY <1>4 DEF Steps
  <2>2. \A i \in 1..Len(w) : g[i - 1] \in S
    BY <1>1
  <2>3. \A i \in 1..Len(w) : g[i] = UnescapeChar(g[i - 1], w[i])
    BY <2>1, <2>2, <1>3
  <2>4. \A i \in 0..Len(w) : i = 0 \/ i \in 1..Len(w)
    BY <1>1
  <2> QED
    BY <2>1, <2>3, <2>4
<1>6. P(g)
  BY <1>5
<1> DEFINE u == CHOOSE f : P(f)
<1>7. P(u)
  BY <1>6
<1>8. Unescape(w) = IF u[Len(w)].esc THEN Append(u[Len(w)].out, "\\") ELSE u[Len(w)].out
  BY DEF Unescape
<1> HIDE DEF u
<1>9. u[0] = first /\ \A i \in 1..Len(w) : u[i] = UnescapeChar(u[i - 1], w[i])
  <2>1. \A i \in 0..Len(w) : u[i] = IF i = 0 THEN first ELSE UnescapeChar(u[i - 1], w[i])
    BY <1>7
  <2>2. 0 \in 0..Len(w) /\ \A i \in 1..Len(w) : i \in 0..Len(w) /\ i # 0
    BY <1>1
  <2> HIDE DEF first
  <2> QED
    BY <2>1, <2>2
<1>10. \A i \in 0..Len(w) : u[i] \in S
  <2> DEFINE T == {i \in 0..Len(w) : u[i] \in S}
  <2>1. 0 \in T
    BY <1>1, <1>9
  <2>2. ASSUME NEW i \in 1..Len(w), i - 1 \in T PROVE i \in T
    <3>1. i \in 0..Len(w) /\ u[i - 1] \in S
      BY <1>1, <2>2
    <3>2. UnescapeChar(u[i - 1], w[i]) \in S
      BY <1>2, <3>1
    <3> QED
      BY <1>9, <3>1, <3>2
  <2> HIDE DEF T
  <2>3. \A i \in 0..Len(w) : i \in T
    BY <1>1, <2>1, <2>2, UpTo, Zenon
  <2> QED
    BY <2>3 DEF T
<1>11. u \in [0..Len(w) -> S]
  BY <1>7, <1>10
<1> QED
  BY <1>8, <1>9, <1>11 DEF UnescapeSteps, S

-----------------------------------------------------------------------------
(* Reading an escaped text.                                                  *)

(* What an escape letter means is what it was written for.                   *)
LEMMA MeantOf ==
    ASSUME NEW c \in Special
    PROVE  Meant(Letter[c]) = <<c>>
<1> DEFINE d == CHOOSE d \in Special : Letter[d] = Letter[c]
<1>1. d \in Special /\ Letter[d] = Letter[c]
  OBVIOUS
<1>2. d = c
  BY <1>1, LetterInjective
<1> QED
  BY <1>2 DEF Meant

Unread(out, esc) == [out |-> out, esc |-> esc]

(* The three ways a character is read.                                       *)
LEMMA UnescapeCases ==
    ASSUME NEW s, NEW c
    PROVE  /\ UnescapeChar(Unread(s, TRUE), c) = Unread(s \o Meant(c), FALSE)
           /\ c = "\\" => UnescapeChar(Unread(s, FALSE), c) = Unread(s, TRUE)
           /\ c # "\\" => UnescapeChar(Unread(s, FALSE), c) = Unread(Append(s, c), FALSE)
<1>1. UnescapeChar(Unread(s, TRUE), c) = Unread(s \o Meant(c), FALSE)
  BY DEF UnescapeChar, Unread
<1>2. c = "\\" => UnescapeChar(Unread(s, FALSE), c) = Unread(s, TRUE)
  BY DEF UnescapeChar, Unread
<1>3. c # "\\" => UnescapeChar(Unread(s, FALSE), c) = Unread(Append(s, c), FALSE)
  BY DEF UnescapeChar, Unread
<1> QED
  BY <1>1, <1>2, <1>3

(* Where in Escape(v) the escaped form of each character is.                 *)
EscapePlaces(v, e) ==
    \A i \in 1..Len(v) :
        /\ Len(e[i - 1]) \in Nat /\ Len(e[i]) = Len(e[i - 1]) + Len(Escaped(v[i]))
        /\ Len(e[i]) <= Len(Escape(v))
        /\ \A k \in 1..Len(Escaped(v[i])) : Escape(v)[Len(e[i - 1]) + k] = Escaped(v[i])[k]

(* Every character of a text has its place in the escaped one.               *)
LEMMA EscapePieces ==
    ASSUME NEW v \in Seq(Chars), NEW e, EscapeSteps(v, e)
    PROVE  EscapePlaces(v, e)
<1> DEFINE n == Len(v)
           h == [i \in 1..n |-> Escaped(v[i])]
<1>1. n \in Nat /\ e \in [0..n -> Seq(Clean)] /\ e[0] = <<>> /\ e[n] = Escape(v)
      /\ \A i \in 1..n : e[i] = e[i - 1] \o Escaped(v[i])
  BY DEF EscapeSteps
<1>2. \A i \in 1..n : v[i] \in AllChars /\ Escaped(v[i]) \in Seq(Clean)
  BY EscapedType, Alphabet
<1>3. h \in [1..n -> Seq(Clean)] /\ \A j \in 1..n : h[j] = Escaped(v[j])
  BY <1>2
<1> HIDE DEF h, n
<1>4. Grows(Clean, n, e, h)
  BY <1>1, <1>3 DEF Grows
<1>5. Begins(n, e, h)
  BY <1>4, Pieces
<1>6. ASSUME NEW i \in 1..n
      PROVE  /\ Len(e[i - 1]) \in Nat /\ Len(e[i]) = Len(e[i - 1]) + Len(Escaped(v[i]))
             /\ Len(e[i]) <= Len(Escape(v))
             /\ \A k \in 1..Len(Escaped(v[i])) : Escape(v)[Len(e[i - 1]) + k] = Escaped(v[i])[k]
  <2>1. /\ Len(e[i - 1]) \in Nat /\ Len(e[i]) = Len(e[i - 1]) + Len(h[i])
        /\ Len(e[i]) <= Len(e[n])
        /\ \A k \in 1..Len(h[i]) : e[n][Len(e[i - 1]) + k] = h[i][k]
    BY <1>5 DEF Begins
  <2>2. h[i] = Escaped(v[i]) /\ e[n] = Escape(v)
    BY <1>1, <1>3
  <2> QED
    BY <2>1, <2>2
<1> QED
  BY <1>6 DEF EscapePlaces, n

(* unescapeQueryValue() undoes escapeQueryValue().                           *)
LEMMA UnescapeEscape ==
    ASSUME NEW v \in Seq(Chars)
    PROVE  Unescape(Escape(v)) = v
<1> DEFINE w == Escape(v)
           n == Len(v)
<1>1. PICK e : EscapeSteps(v, e)
  BY EscapeRun
<1>2. n \in Nat /\ e \in [0..n -> Seq(Clean)] /\ e[0] = <<>> /\ e[n] = w
  BY <1>1 DEF EscapeSteps
<1>3. w \in Seq(AllChars) /\ n \in 0..n
  BY <1>2, CleanChars
<1>4. PICK u : UnescapeSteps(w, u)
  BY <1>3, UnescapeRun
<1>5. /\ Len(w) \in Nat /\ u[0] = Unread(<<>>, FALSE)
      /\ \A i \in 1..Len(w) : u[i] = UnescapeChar(u[i - 1], w[i])
      /\ Unescape(w) = IF u[Len(w)].esc THEN Append(u[Len(w)].out, "\\") ELSE u[Len(w)].out
  BY <1>3, <1>4 DEF UnescapeSteps, Unread
<1>6. ASSUME NEW i \in 1..n
      PROVE  /\ Len(e[i - 1]) \in Nat /\ Len(e[i]) = Len(e[i - 1]) + Len(Escaped(v[i])) /\ Len(e[i]) <= Len(w)
             /\ \A k \in 1..Len(Escaped(v[i])) : w[Len(e[i - 1]) + k] = Escaped(v[i])[k]
  <2>1. EscapePlaces(v, e)
    BY <1>1, EscapePieces
  <2> QED
    BY <2>1 DEF EscapePlaces
<1> HIDE DEF w, n
<1> DEFINE Read(i) == Unread(SubSeq(v, 1, i), FALSE)
           T == {i \in 0..n : u[Len(e[i])] = Read(i)}
<1>7. 0 \in T
  <2>1. Len(e[0]) = 0 /\ 0 \in 0..n
    BY <1>2
  <2>2. SubSeq(v, 1, 0) = <<>>
    BY SubTexts
  <2>3. u[Len(e[0])] = Read(0)
    BY <2>1, <2>2, <1>5
  <2> QED
    BY <2>1, <2>3
<1>8. ASSUME NEW i \in 1..n, i - 1 \in T PROVE i \in T
  <2> DEFINE q == Len(e[i - 1])
  <2>1. q \in Nat /\ u[q] = Read(i - 1) /\ i \in 0..n
    <3>1. i \in 0..n
      BY <1>2
    <3>2. u[Len(e[i - 1])] = Read(i - 1)
      BY <1>8
    <3> QED
      BY <1>6, <3>1, <3>2
  <2>2. Append(SubSeq(v, 1, i - 1), v[i]) = SubSeq(v, 1, i) /\ SubSeq(v, 1, i - 1) \o <<v[i]>> = SubSeq(v, 1, i)
    BY SubTexts DEF n
  <2>3. CASE v[i] \in Special
    <3>1. Escaped(v[i]) = <<"\\", Letter[v[i]]>>
      BY <2>3 DEF Escaped
    <3>2. /\ Len(Escaped(v[i])) = 2 /\ 1 \in 1..2 /\ 2 \in 1..2
          /\ Escaped(v[i])[1] = "\\" /\ Escaped(v[i])[2] = Letter[v[i]]
      BY <3>1
    <3>3. /\ Len(e[i]) = q + 2 /\ q + 2 <= Len(w)
          /\ w[q + 1] = "\\" /\ w[q + 2] = Letter[v[i]]
      BY <3>2, <1>6
    <3>4. u[q + 1] = UnescapeChar(u[q], w[q + 1]) /\ u[q + 2] = UnescapeChar(u[q + 1], w[q + 2])
      <4>1. q + 1 \in 1..Len(w) /\ q + 2 \in 1..Len(w) /\ (q + 1) - 1 = q /\ (q + 2) - 1 = q + 1
        BY <3>3, <2>1, <1>5
      <4> QED
        BY <4>1, <1>5
    <3>5. u[q + 1] = Unread(SubSeq(v, 1, i - 1), TRUE)
      BY <3>3, <3>4, <2>1, UnescapeCases
    <3>6. u[q + 2] = Unread(SubSeq(v, 1, i - 1) \o Meant(w[q + 2]), FALSE)
      BY <3>4, <3>5, UnescapeCases
    <3>7. Meant(w[q + 2]) = <<v[i]>>
      BY <3>3, <2>3, MeantOf
    <3>8. u[Len(e[i])] = Read(i)
      BY <3>3, <3>6, <3>7, <2>2
    <3> QED
      BY <3>8, <2>1
  <2>4. CASE v[i] \notin Special
    <3>1. Escaped(v[i]) = <<v[i]>> /\ v[i] # "\\"
      BY <2>4, Alphabet DEF Escaped
    <3>2. Len(Escaped(v[i])) = 1 /\ 1 \in 1..1 /\ Escaped(v[i])[1] = v[i]
      BY <3>1
    <3>3. Len(e[i]) = q + 1 /\ w[q + 1] = v[i] /\ q + 1 <= Len(w)
      BY <3>2, <1>6
    <3>4. u[q + 1] = UnescapeChar(u[q], w[q + 1])
      <4>1. q + 1 \in 1..Len(w) /\ (q + 1) - 1 = q
        BY <3>3, <2>1, <1>5
      <4> QED
        BY <4>1, <1>5
    <3>5. u[q + 1] = Unread(Append(SubSeq(v, 1, i - 1), v[i]), FALSE)
      BY <3>1, <3>3, <3>4, <2>1, UnescapeCases
    <3>6. u[Len(e[i])] = Read(i)
      BY <3>3, <3>5, <2>2
    <3> QED
      BY <3>6, <2>1
  <2> QED
    BY <2>3, <2>4
<1> HIDE DEF T
<1>9. n \in T
  <2>1. \A i \in 0..n : i \in T
    BY <1>2, <1>7, <1>8, UpTo, Zenon
  <2> QED
    BY <1>3, <2>1
<1>10. u[Len(w)] = Read(n)
  BY <1>2, <1>9 DEF T
<1>11. SubSeq(v, 1, n) = v
  BY SubTexts DEF n
<1>12. Unescape(w) = v
  BY <1>5, <1>10, <1>11 DEF Unread
<1> QED
  BY <1>12 DEF w

(* A name stays as it is.                                                    *)
LEMMA UnescapeName ==
    ASSUME NEW k \in AllChars, k \notin Special
    PROVE  Unescape(<<k>>) = <<k>>
<1> DEFINE w == <<k>>
<1>1. w \in Seq(AllChars) /\ Len(w) = 1 /\ w[1] = k /\ k # "\\"
  BY Alphabet
<1>2. PICK u : UnescapeSteps(w, u)
  BY <1>1, UnescapeRun
<1> HIDE DEF w
<1>3. /\ u[0] = Unread(<<>>, FALSE)
      /\ \A i \in 1..1 : u[i] = UnescapeChar(u[i - 1], w[i])
      /\ Unescape(w) = IF u[1].esc THEN Append(u[1].out, "\\") ELSE u[1].out
  BY <1>1, <1>2 DEF UnescapeSteps, Unread
<1>4. 1 \in 1..1 /\ 1 - 1 = 0
  OBVIOUS
<1>5. u[1] = UnescapeChar(u[0], k)
  BY <1>1, <1>3, <1>4
<1>6. u[1] = Unread(Append(<<>>, k), FALSE)
  <2>1. UnescapeChar(Unread(<<>>, FALSE), k) = Unread(Append(<<>>, k), FALSE)
    BY <1>1, UnescapeCases, Zenon
  <2> QED
    BY <2>1, <1>3, <1>5, Zenon
<1>7. Unescape(w) = Append(<<>>, k)
  BY <1>3, <1>6 DEF Unread
<1> QED
  BY <1>7 DEF w

(* What is unescaped is a text.                                              *)
LEMMA UnescapeType ==
    ASSUME NEW w \in Seq(AllChars)
    PROVE  Unescape(w) \in Seq(AllChars)
<1>1. PICK u : UnescapeSteps(w, u)
  BY UnescapeRun
<1>2. Len(w) \in 0..Len(w)
  OBVIOUS
<1>3. u[Len(w)] \in UnescapeStates
  BY <1>1, <1>2 DEF UnescapeSteps
<1>4. u[Len(w)].out \in Seq(AllChars) /\ "\\" \in AllChars
  BY <1>3, Alphabet DEF UnescapeStates
<1>5. Append(u[Len(w)].out, "\\") \in Seq(AllChars)
  BY <1>4
<1> QED
  BY <1>1, <1>4, <1>5 DEF UnescapeSteps

-----------------------------------------------------------------------------
(* Reading pairs.                                                            *)

(* What parseKeyValueLine() has read.                                        *)
Maps == UNION {[D -> Seq(AllChars)] : D \in SUBSET Seq(AllChars)}
ReadStates == [out : Maps, key : Seq(AllChars), value : Seq(AllChars), in : BOOLEAN, esc : BOOLEAN]
Reading(out, key, value, in, esc) == [out |-> out, key |-> key, value |-> value, in |-> in, esc |-> esc]

(* The start of parseKeyValueLine().                                         *)
LEMMA NothingIs == NothingRead = Reading([k \in {} |-> <<>>], <<>>, <<>>, FALSE, FALSE)
BY DEF NothingRead, Reading

(* A character goes to the value, or to the key.                             *)
LEMMA TakeCases ==
    ASSUME NEW o, NEW k, NEW v, NEW e, NEW chars
    PROVE  /\ Take(Reading(o, k, v, TRUE, e), chars) = Reading(o, k, v \o chars, TRUE, FALSE)
           /\ Take(Reading(o, k, v, FALSE, e), chars) = Reading(o, k \o chars, v, FALSE, FALSE)
<1>1. Take(Reading(o, k, v, TRUE, e), chars) = Reading(o, k, v \o chars, TRUE, FALSE)
  BY DEF Take, Reading
<1>2. Take(Reading(o, k, v, FALSE, e), chars) = Reading(o, k \o chars, v, FALSE, FALSE)
  BY DEF Take, Reading
<1> QED
  BY <1>1, <1>2

(* A backslash is kept until the character after it.                         *)
LEMMA ReadEscape ==
    ASSUME NEW o, NEW k, NEW v, NEW in, NEW c
    PROVE  /\ ReadChar(Reading(o, k, v, in, TRUE), c) = Take(Reading(o, k, v, in, TRUE), <<"\\", c>>)
           /\ ReadChar(Reading(o, k, v, in, FALSE), "\\") = Reading(o, k, v, in, TRUE)
<1>1. ReadChar(Reading(o, k, v, in, TRUE), c) = Take(Reading(o, k, v, in, TRUE), <<"\\", c>>)
  BY DEF ReadChar, Reading
<1>2. ReadChar(Reading(o, k, v, in, FALSE), "\\") = Reading(o, k, v, in, TRUE)
  BY DEF ReadChar, Reading
<1> QED
  BY <1>1, <1>2

(* The other characters: of a value, of a key, and the two that end them.    *)
LEMMA ReadPlain ==
    ASSUME NEW o, NEW k, NEW v, NEW c
    PROVE  /\ c \notin {"\\", Space} =>
                  ReadChar(Reading(o, k, v, TRUE, FALSE), c) = Take(Reading(o, k, v, TRUE, FALSE), <<c>>)
           /\ ReadChar(Reading(o, k, v, TRUE, FALSE), Space)
                  = Reading(Stored(Reading(o, k, v, TRUE, FALSE)), <<>>, <<>>, FALSE, FALSE)
           /\ c \notin {"\\", "="} =>
                  ReadChar(Reading(o, k, v, FALSE, FALSE), c) = Take(Reading(o, k, v, FALSE, FALSE), <<c>>)
           /\ ReadChar(Reading(o, k, v, FALSE, FALSE), "=") = Reading(o, k, v, TRUE, FALSE)
<1>1. c \notin {"\\", Space} =>
          ReadChar(Reading(o, k, v, TRUE, FALSE), c) = Take(Reading(o, k, v, TRUE, FALSE), <<c>>)
  BY DEF ReadChar, Reading
<1>2. ReadChar(Reading(o, k, v, TRUE, FALSE), Space)
        = Reading(Stored(Reading(o, k, v, TRUE, FALSE)), <<>>, <<>>, FALSE, FALSE)
  BY DEF ReadChar, Reading, NothingRead, Space
<1>3. c \notin {"\\", "="} =>
          ReadChar(Reading(o, k, v, FALSE, FALSE), c) = Take(Reading(o, k, v, FALSE, FALSE), <<c>>)
  BY DEF ReadChar, Reading
<1>4. ReadChar(Reading(o, k, v, FALSE, FALSE), "=") = Reading(o, k, v, TRUE, FALSE)
  BY DEF ReadChar, Reading
<1> QED
  BY <1>1, <1>2, <1>3, <1>4

(* A pair that is stored is a text for a text.                               *)
LEMMA StoredType ==
    ASSUME NEW s \in ReadStates
    PROVE  Stored(s) \in Maps
<1> DEFINE key == Unescape(s.key)
           value == Unescape(s.value)
           f == Stored(s)
<1>1. key \in Seq(AllChars) /\ value \in Seq(AllChars)
  BY UnescapeType DEF ReadStates
<1>2. PICK D \in SUBSET Seq(AllChars) : s.out \in [D -> Seq(AllChars)]
  BY DEF ReadStates, Maps
<1>3. f = [k \in D \cup {key} |-> IF k = key THEN value ELSE s.out[k]]
  BY <1>2 DEF Stored
<1> HIDE DEF key, value, f
<1>4. f \in [D \cup {key} -> Seq(AllChars)]
  BY <1>1, <1>2, <1>3
<1>5. D \cup {key} \in SUBSET Seq(AllChars)
  BY <1>1
<1>6. f \in Maps
  BY <1>4, <1>5 DEF Maps
<1> QED
  BY <1>6 DEF f

(* Taking a character keeps the types.                                       *)
LEMMA TakeType ==
    ASSUME NEW s \in ReadStates, NEW chars \in Seq(AllChars)
    PROVE  Take(s, chars) \in ReadStates
<1>1. s.value \o chars \in Seq(AllChars) /\ s.key \o chars \in Seq(AllChars)
  BY DEF ReadStates
<1> QED
  BY <1>1 DEF Take, ReadStates

(* So does reading one.                                                      *)
LEMMA ReadCharType ==
    ASSUME NEW s \in ReadStates, NEW c \in AllChars
    PROVE  ReadChar(s, c) \in ReadStates
<1>1. <<"\\", c>> \in Seq(AllChars) /\ <<c>> \in Seq(AllChars) /\ <<>> \in Seq(AllChars)
  BY Alphabet
<1>2. Take(s, <<"\\", c>>) \in ReadStates /\ Take(s, <<c>>) \in ReadStates
  BY <1>1, TakeType
<1>3. [s EXCEPT !.esc = TRUE] \in ReadStates /\ [s EXCEPT !.in = TRUE] \in ReadStates
  BY DEF ReadStates
<1>4. [NothingRead EXCEPT !.out = Stored(s)] \in ReadStates
  <2> DEFINE m == Stored(s)
             o == [k \in {} |-> <<>>]
  <2>1. m \in Maps
    BY StoredType
  <2>2. NothingRead = Reading(o, <<>>, <<>>, FALSE, FALSE)
    BY NothingIs
  <2> HIDE DEF m, o
  <2>3. [NothingRead EXCEPT !.out = m] = Reading(m, <<>>, <<>>, FALSE, FALSE)
    BY <2>2 DEF Reading
  <2>4. [NothingRead EXCEPT !.out = m] \in ReadStates
    BY <1>1, <2>1, <2>3 DEF ReadStates, Reading
  <2> QED
    BY <2>4 DEF m
<1> QED
  BY <1>2, <1>3, <1>4 DEF ReadChar

(* Nothing has been read at the start.                                       *)
LEMMA NothingType == NothingRead \in ReadStates
<1> DEFINE f == [k \in {} |-> <<>>]
<1>1. f \in [{} -> Seq(AllChars)] /\ {} \in SUBSET Seq(AllChars) /\ <<>> \in Seq(AllChars)
  OBVIOUS
<1>2. f \in Maps
  BY <1>1 DEF Maps
<1> HIDE DEF f
<1>3. [out |-> f, key |-> <<>>, value |-> <<>>, in |-> FALSE, esc |-> FALSE] \in ReadStates
  BY <1>1, <1>2 DEF ReadStates
<1> QED
  BY <1>3 DEF NothingRead, f

(* r[i] is what parseKeyValueLine() has read of the first i characters of t. *)
ReadSteps(t, r) ==
    /\ r \in [0..Len(t) -> ReadStates] /\ r[0] = NothingRead
    /\ \A i \in 1..Len(t) : r[i] = ReadChar(r[i - 1], t[i])
    /\ r[Len(t)].esc = FALSE =>
           ParseKeyValue(t) = IF r[Len(t)].key # <<>> \/ r[Len(t)].value # <<>>
                              THEN Stored(r[Len(t)]) ELSE r[Len(t)].out

(* ParseKeyValue() makes these steps.                                        *)
LEMMA ReadRun ==
    ASSUME NEW t \in Seq(AllChars)
    PROVE  \E r : ReadSteps(t, r)
<1> DEFINE S == ReadStates
           P(g) == g = [i \in 0..Len(t) |-> IF i = 0 THEN NothingRead ELSE ReadChar(g[i - 1], t[i])]
           F == [x \in S \X (1..Len(t)) |-> ReadChar(x[1], t[x[2]])]
<1>1. Len(t) \in Nat /\ NothingRead \in S /\ \A i \in 1..Len(t) : t[i] \in AllChars
  BY NothingType
<1>2. ASSUME NEW s \in S, NEW i \in 1..Len(t)
      PROVE  ReadChar(s, t[i]) \in S
  BY <1>1, ReadCharType
<1>3. F \in [S \X (1..Len(t)) -> S] /\ \A s \in S, i \in 1..Len(t) : F[<<s, i>>] = ReadChar(s, t[i])
  BY <1>2
<1> HIDE DEF S, F
<1>4. PICK g \in [0..Len(t) -> S] : Steps(F, NothingRead, g, Len(t))
  BY <1>1, <1>3, StepsExist
<1>5. \A i \in 0..Len(t) : g[i] = IF i = 0 THEN NothingRead ELSE ReadChar(g[i - 1], t[i])
  <2>1. g[0] = NothingRead /\ \A i \in 1..Len(t) : g[i] = F[<<g[i - 1], i>>]
    BY <1>4 DEF Steps
  <2>2. \A i \in 1..Len(t) : g[i - 1] \in S
    BY <1>1
  <2>3. \A i \in 1..Len(t) : g[i] = ReadChar(g[i - 1], t[i])
    BY <2>1, <2>2, <1>3
  <2>4. \A i \in 0..Len(t) : i = 0 \/ i \in 1..Len(t)
    BY <1>1
  <2> QED
    BY <2>1, <2>3, <2>4
<1>6. P(g)
  BY <1>5
<1> DEFINE r == CHOOSE f : P(f)
           last == r[Len(t)]
           end == IF last.esc THEN Take(last, <<"\\">>) ELSE last
<1>7. P(r)
  BY <1>6
<1>8. ParseKeyValue(t) = IF end.key # <<>> \/ end.value # <<>> THEN Stored(end) ELSE end.out
  BY DEF ParseKeyValue
<1>9. last.esc = FALSE => ParseKeyValue(t) = IF last.key # <<>> \/ last.value # <<>> THEN Stored(last) ELSE last.out
  <2> HIDE DEF last
  <2> QED
    BY <1>8
<1> HIDE DEF r
<1>10. r[0] = NothingRead /\ \A i \in 1..Len(t) : r[i] = ReadChar(r[i - 1], t[i])
  <2>1. \A i \in 0..Len(t) : r[i] = IF i = 0 THEN NothingRead ELSE ReadChar(r[i - 1], t[i])
    BY <1>7
  <2>2. 0 \in 0..Len(t) /\ \A i \in 1..Len(t) : i \in 0..Len(t) /\ i # 0
    BY <1>1
  <2> QED
    BY <2>1, <2>2
<1>11. \A i \in 0..Len(t) : r[i] \in S
  <2> DEFINE T == {i \in 0..Len(t) : r[i] \in S}
  <2>1. 0 \in T
    BY <1>1, <1>10
  <2>2. ASSUME NEW i \in 1..Len(t), i - 1 \in T PROVE i \in T
    <3>1. i \in 0..Len(t) /\ r[i - 1] \in S
      BY <1>1, <2>2
    <3>2. ReadChar(r[i - 1], t[i]) \in S
      BY <1>2, <3>1
    <3> QED
      BY <1>10, <3>1, <3>2
  <2> HIDE DEF T
  <2>3. \A i \in 0..Len(t) : i \in T
    BY <1>1, <2>1, <2>2, UpTo, Zenon
  <2> QED
    BY <2>3 DEF T
<1>12. r \in [0..Len(t) -> S]
  BY <1>7, <1>11
<1> QED
  BY <1>9, <1>10, <1>12 DEF ReadSteps, S

(* w stands in t behind the first p characters.                              *)
Stands(t, p, w) == p \in Nat /\ p + Len(w) <= Len(t) /\ \A k \in 1..Len(w) : t[p + k] = w[k]

(* After p characters the value of key has been read up to here.             *)
InValue(r, p, o, key, value) == r[p] = Reading(o, key, value, TRUE, FALSE)

(* An escaped value is read up to its end, as no bare space is in it.        *)
LEMMA ReadValue ==
    ASSUME NEW t \in Seq(AllChars), NEW r, ReadSteps(t, r), NEW p, NEW v \in Seq(Chars),
           Stands(t, p, Escape(v)), NEW o, NEW key, InValue(r, p, o, key, <<>>)
    PROVE  InValue(r, p + Len(Escape(v)), o, key, Escape(v))
<1> DEFINE w == Escape(v)
           n == Len(v)
<1>1. PICK e : EscapeSteps(v, e)
  BY EscapeRun
<1>2. n \in Nat /\ e \in [0..n -> Seq(Clean)] /\ e[0] = <<>> /\ e[n] = w
  BY <1>1 DEF EscapeSteps
<1>3. w \in Seq(Clean) /\ n \in 0..n
  BY <1>2
<1>4. ASSUME NEW i \in 1..n
      PROVE  /\ Len(e[i - 1]) \in Nat /\ Len(e[i]) = Len(e[i - 1]) + Len(Escaped(v[i])) /\ Len(e[i]) <= Len(w)
             /\ \A k \in 1..Len(Escaped(v[i])) : w[Len(e[i - 1]) + k] = Escaped(v[i])[k]
  <2>1. EscapePlaces(v, e)
    BY <1>1, EscapePieces
  <2> QED
    BY <2>1 DEF EscapePlaces
<1>5. ASSUME NEW i \in 1..n PROVE i \in 0..n /\ i - 1 \in 0..n /\ e[i] = e[i - 1] \o Escaped(v[i])
  <2>1. e[i] = e[i - 1] \o Escaped(v[i])
    BY <1>1 DEF EscapeSteps
  <2> QED
    BY <1>2, <2>1
<1>6. Len(w) \in Nat /\ Len(t) \in Nat
  BY <1>3
<1>7. /\ p \in Nat /\ Len(w) \in Nat /\ Len(t) \in Nat /\ p + Len(w) <= Len(t)
      /\ \A k \in 1..Len(w) : t[p + k] = w[k]
  BY <1>6, Zenon DEF Stands
<1>8. \A i \in 1..Len(t) : r[i] = ReadChar(r[i - 1], t[i])
  BY DEF ReadSteps
<1> HIDE DEF w, n
<1>9. ASSUME NEW x, NEW chars, NEW esc \in BOOLEAN
       PROVE  Take(Reading(o, key, x, TRUE, esc), chars) = Reading(o, key, x \o chars, TRUE, FALSE)
  BY DEF Take, Reading
<1> DEFINE Read(x) == Reading(o, key, x, TRUE, FALSE)
           T == {i \in 0..n : r[p + Len(e[i])] = Read(e[i])}
<1>10. r[p] = Reading(o, key, <<>>, TRUE, FALSE)
  BY DEF InValue
<1>11. 0 \in T
  <2>1. Len(e[0]) = 0 /\ 0 \in 0..n /\ p + 0 = p
    BY <1>2, <1>7
  <2>2. r[p + Len(e[0])] = Read(e[0])
    BY <2>1, <1>2, <1>10
  <2> QED
    BY <2>1, <2>2
<1>12. ASSUME NEW i \in 1..n, i - 1 \in T PROVE i \in T
  <2> DEFINE q == Len(e[i - 1])
  <2>1. q \in Nat /\ r[p + q] = Read(e[i - 1]) /\ i \in 0..n
    <3>1. r[p + Len(e[i - 1])] = Read(e[i - 1])
      BY <1>12
    <3> QED
      BY <3>1, <1>4, <1>5
  <2>2. /\ Len(e[i]) = q + Len(Escaped(v[i])) /\ Len(e[i]) <= Len(w)
        /\ \A k \in 1..Len(Escaped(v[i])) : w[q + k] = Escaped(v[i])[k]
    BY <1>4, Zenon
  <2> HIDE DEF q
  <2>3. CASE v[i] \in Special
    <3> DEFINE c == Letter[v[i]]
    <3>1. Escaped(v[i]) = <<"\\", c>>
      BY <2>3 DEF Escaped
    <3>2. /\ Len(Escaped(v[i])) = 2 /\ 1 \in 1..2 /\ 2 \in 1..2
          /\ Escaped(v[i])[1] = "\\" /\ Escaped(v[i])[2] = c
      BY <3>1
    <3> HIDE DEF c
    <3>3. /\ Len(e[i]) = q + 2 /\ q + 2 <= Len(w)
          /\ w[q + 1] = "\\" /\ w[q + 2] = c
      BY <3>2, <2>2
    <3>4. r[p + q + 1] = ReadChar(r[p + q], "\\") /\ r[p + q + 2] = ReadChar(r[p + q + 1], c)
      <4>1. /\ p + q + 1 \in 1..Len(t) /\ p + q + 2 \in 1..Len(t)
            /\ (p + q + 1) - 1 = p + q /\ (p + q + 2) - 1 = p + q + 1
            /\ q + 1 \in 1..Len(w) /\ q + 2 \in 1..Len(w)
            /\ p + (q + 1) = p + q + 1 /\ p + (q + 2) = p + q + 2
        <5>1. p \in Nat /\ q \in Nat /\ Len(w) \in Nat /\ Len(t) \in Nat /\ p + Len(w) <= Len(t) /\ q + 2 <= Len(w)
          BY <3>3, <2>1, <1>7, Zenon
        <5> QED
          BY <5>1
      <4>2. t[p + q + 1] = "\\" /\ t[p + q + 2] = c
        <5>1. t[p + (q + 1)] = w[q + 1] /\ t[p + (q + 2)] = w[q + 2]
          BY <4>1, <1>7, Zenon
        <5> QED
          BY <5>1, <4>1, <3>3, Zenon
      <4> QED
        BY <4>1, <4>2, <1>8
    <3>5. r[p + q + 1] = Reading(o, key, e[i - 1], TRUE, TRUE)
      BY <3>4, <2>1, ReadEscape
    <3>6. r[p + q + 2] = Take(Reading(o, key, e[i - 1], TRUE, TRUE), <<"\\", c>>)
      BY <3>4, <3>5, ReadEscape
    <3>7. r[p + q + 2] = Reading(o, key, e[i - 1] \o <<"\\", c>>, TRUE, FALSE)
      BY <3>6, <1>9
    <3>8. e[i] = e[i - 1] \o <<"\\", c>> /\ p + Len(e[i]) = p + q + 2
      <4>1. e[i] = e[i - 1] \o <<"\\", c>>
        BY <3>1, <1>5, Zenon
      <4>2. p \in Nat /\ q \in Nat /\ Len(e[i]) = q + 2
        BY <3>3, <1>7, <2>1, Zenon
      <4>3. p + Len(e[i]) = p + q + 2
        BY <4>2
      <4> QED
        BY <4>1, <4>3, Zenon
    <3>9. r[p + Len(e[i])] = Read(e[i])
      BY <3>7, <3>8
    <3> QED
      BY <3>9, <2>1
  <2>4. CASE v[i] \notin Special
    <3> DEFINE c == v[i]
    <3>1. Escaped(v[i]) = <<c>> /\ c # "\\" /\ c # Space
      BY <2>4, Alphabet DEF Escaped
    <3> HIDE DEF c
    <3>2. Len(Escaped(v[i])) = 1 /\ 1 \in 1..1 /\ Escaped(v[i])[1] = c
      BY <3>1
    <3>3. Len(e[i]) = q + 1 /\ w[q + 1] = c /\ q + 1 <= Len(w)
      BY <3>2, <2>2
    <3>4. r[p + q + 1] = ReadChar(r[p + q], c)
      <4>1. /\ p + q + 1 \in 1..Len(t) /\ (p + q + 1) - 1 = p + q
            /\ q + 1 \in 1..Len(w) /\ p + (q + 1) = p + q + 1
        BY <3>3, <2>1, <1>7
      <4>2. t[p + q + 1] = c
        BY <4>1, <3>3, <1>7
      <4> QED
        BY <4>1, <4>2, <1>8
    <3>5. r[p + q + 1] = Take(Reading(o, key, e[i - 1], TRUE, FALSE), <<c>>)
      <4>1. c \notin {"\\", Space} /\ r[p + q] = Reading(o, key, e[i - 1], TRUE, FALSE)
        BY <3>1, <2>1
      <4>2. ReadChar(Reading(o, key, e[i - 1], TRUE, FALSE), c) = Take(Reading(o, key, e[i - 1], TRUE, FALSE), <<c>>)
        BY <4>1, ReadPlain, Zenon
      <4> QED
        BY <4>1, <4>2, <3>4, Zenon
    <3>6. r[p + q + 1] = Reading(o, key, e[i - 1] \o <<c>>, TRUE, FALSE)
      BY <3>5, <1>9
    <3>7. e[i] = e[i - 1] \o <<c>> /\ p + Len(e[i]) = p + q + 1
      <4>1. e[i] = e[i - 1] \o <<c>>
        BY <3>1, <1>5, Zenon
      <4>2. p \in Nat /\ q \in Nat /\ Len(e[i]) = q + 1
        BY <3>3, <1>7, <2>1, Zenon
      <4>3. p + Len(e[i]) = p + q + 1
        BY <4>2
      <4> QED
        BY <4>1, <4>3, Zenon
    <3>8. r[p + Len(e[i])] = Read(e[i])
      BY <3>6, <3>7
    <3> QED
      BY <3>8, <2>1
  <2> QED
    BY <2>3, <2>4
<1> HIDE DEF T
<1>13. n \in T
  <2>1. \A i \in 0..n : i \in T
    BY <1>2, <1>11, <1>12, UpTo, Zenon
  <2> QED
    BY <1>3, <2>1
<1>14. r[p + Len(w)] = Read(w)
  BY <1>2, <1>13 DEF T
<1> QED
  BY <1>14 DEF w, InValue

(* After p characters a pair has been completed, and o are those read.       *)
AtKey(r, p, o) == r[p] = Reading(o, <<>>, <<>>, FALSE, FALSE)

(* A parameter is read as its name and the escaped form of its value.        *)
LEMMA ReadParam ==
    ASSUME NEW t \in Seq(AllChars), NEW r, ReadSteps(t, r), NEW p, NEW a \in Keys \X Seq(Chars),
           Stands(t, p, Param(a)), NEW o, AtKey(r, p, o)
    PROVE  InValue(r, p + Len(Param(a)), o, <<a[1]>>, Escape(a[2]))
<1> DEFINE w == Escape(a[2])
           key == a[1]
           x == Param(a)
<1>1. PICK e : EscapeSteps(a[2], e)
  BY EscapeRun
<1>2. w \in Seq(Clean) /\ Len(w) \in Nat
  <2>1. Len(a[2]) \in 0..Len(a[2])
    OBVIOUS
  <2>2. e[Len(a[2])] \in Seq(Clean) /\ e[Len(a[2])] = w
    BY <1>1, <2>1 DEF EscapeSteps
  <2> QED
    BY <2>2
<1>3. key \in Keys /\ key # "\\" /\ key # "="
  BY DEF Keys
<1>4. x = <<key, "=">> \o w
  BY DEF Param
<1> HIDE DEF w, key, x
<1>5. /\ Len(x) = 2 + Len(w) /\ x[1] = key /\ x[2] = "="
      /\ \A k \in 1..Len(w) : x[2 + k] = w[k]
  BY <1>2, <1>3, <1>4
<1>6. /\ p \in Nat /\ p + Len(x) <= Len(t) /\ Len(t) \in Nat
      /\ \A k \in 1..Len(x) : t[p + k] = x[k]
  BY DEF Stands, x
<1>7. t[p + 1] = key /\ t[p + 2] = "=" /\ \A k \in 1..Len(w) : t[p + 2 + k] = w[k]
  <2>1. 1 \in 1..Len(x) /\ 2 \in 1..Len(x)
    BY <1>2, <1>5
  <2>2. \A k \in 1..Len(w) : 2 + k \in 1..Len(x) /\ p + (2 + k) = p + 2 + k
    BY <1>2, <1>5, <1>6
  <2> QED
    BY <2>1, <2>2, <1>5, <1>6
<1>8. r[p + 1] = ReadChar(r[p], key) /\ r[p + 2] = ReadChar(r[p + 1], "=")
  <2>1. \A i \in 1..Len(t) : r[i] = ReadChar(r[i - 1], t[i])
    BY DEF ReadSteps
  <2>2. p + 1 \in 1..Len(t) /\ p + 2 \in 1..Len(t) /\ (p + 1) - 1 = p /\ (p + 2) - 1 = p + 1
    BY <1>2, <1>5, <1>6
  <2> QED
    BY <2>1, <2>2, <1>7
<1>9. r[p] = Reading(o, <<>>, <<>>, FALSE, FALSE)
  BY DEF AtKey
<1>10. r[p + 1] = Take(Reading(o, <<>>, <<>>, FALSE, FALSE), <<key>>)
  <2>1. key \notin {"\\", "="}
    BY <1>3
  <2>2. ReadChar(Reading(o, <<>>, <<>>, FALSE, FALSE), key) = Take(Reading(o, <<>>, <<>>, FALSE, FALSE), <<key>>)
    BY <2>1 DEF ReadChar, Reading
  <2> QED
    BY <1>8, <1>9, <2>2, Zenon
<1>11. r[p + 1] = Reading(o, <<key>>, <<>>, FALSE, FALSE)
  <2>1. <<>> \o <<key>> = <<key>>
    OBVIOUS
  <2>2. Take(Reading(o, <<>>, <<>>, FALSE, FALSE), <<key>>) = Reading(o, <<>> \o <<key>>, <<>>, FALSE, FALSE)
    BY DEF Take, Reading
  <2> QED
    BY <1>10, <2>1, <2>2, Zenon
<1>12. r[p + 2] = Reading(o, <<key>>, <<>>, TRUE, FALSE)
  BY <1>8, <1>11, ReadPlain
<1>13. Stands(t, p + 2, w)
  BY <1>2, <1>5, <1>6, <1>7 DEF Stands
<1>14. r[(p + 2) + Len(w)] = Reading(o, <<key>>, w, TRUE, FALSE)
  <2> DEFINE v == a[2]
             q == p + 2
  <2>1. v \in Seq(Chars) /\ InValue(r, q, o, <<key>>, <<>>)
    BY <1>12 DEF InValue
  <2>2. w = Escape(v) /\ Stands(t, q, Escape(v))
    BY <1>13 DEF w
  <2> HIDE DEF v, q
  <2>3. InValue(r, q + Len(Escape(v)), o, <<key>>, Escape(v))
    BY <2>1, <2>2, ReadValue, Zenon
  <2> QED
    BY <2>2, <2>3 DEF q, InValue
<1>15. p + Len(x) = (p + 2) + Len(w)
  BY <1>2, <1>5, <1>6
<1> QED
  BY <1>14, <1>15 DEF w, key, x, InValue

-----------------------------------------------------------------------------
(* The line of a command.                                                    *)

LineChars == Clean \cup {Space}

(* j[i] joins the first i parts.                                             *)
JoinSteps(parts, between, j) ==
    /\ j[0] = <<>> /\ (Len(parts) > 0 => j[1] = parts[1])
    /\ \A i \in 1..Len(parts) : i > 1 => j[i] = j[i - 1] \o between \o parts[i]
    /\ j[Len(parts)] = Join(parts, between)

(* Join() makes these steps.                                                 *)
LEMMA JoinRun ==
    ASSUME NEW A, NEW parts \in Seq(Seq(A)), NEW between \in Seq(A)
    PROVE  \E j \in [0..Len(parts) -> Seq(A)] : JoinSteps(parts, between, j)
<1> DEFINE n == Len(parts)
           S == Seq(A)
           One(x, i) == IF i = 1 THEN parts[1] ELSE x \o between \o parts[i]
           P(g) == g = [i \in 0..n |-> IF i = 0 THEN <<>>
                                       ELSE IF i = 1 THEN parts[1]
                                       ELSE g[i - 1] \o between \o parts[i]]
           F == [x \in S \X (1..n) |-> One(x[1], x[2])]
<1>1. n \in Nat /\ <<>> \in S /\ \A i \in 1..n : parts[i] \in S /\ 1 \in 1..n
  OBVIOUS
<1>2. ASSUME NEW x \in S, NEW i \in 1..n PROVE One(x, i) \in S
  BY <1>1
<1>3. F \in [S \X (1..n) -> S] /\ \A x \in S, i \in 1..n : F[<<x, i>>] = One(x, i)
  BY <1>2
<1> DEFINE r == CHOOSE f : P(f)
<1>4. r[n] = Join(parts, between)
  BY DEF Join
<1> HIDE DEF S, F, n, r
<1>5. PICK g \in [0..n -> S] : Steps(F, <<>>, g, n)
  BY <1>1, <1>3, StepsExist
<1>6. g[0] = <<>> /\ \A i \in 1..n : g[i] = One(g[i - 1], i)
  <2> HIDE DEF One
  <2>1. g[0] = <<>> /\ \A i \in 1..n : g[i] = F[<<g[i - 1], i>>]
    BY <1>5 DEF Steps
  <2>2. \A i \in 1..n : g[i - 1] \in S
    BY <1>1
  <2> QED
    BY <2>1, <2>2, <1>3
<1>7. P(g)
  <2>1. \A i \in 0..n : i = 0 \/ i \in 1..n
    BY <1>1
  <2>2. \A i \in 0..n : g[i] = IF i = 0 THEN <<>> ELSE One(g[i - 1], i)
    <3> HIDE DEF One
    <3> QED
      BY <1>6, <2>1
  <2> QED
    BY <2>2
<1>8. P(r)
  BY <1>7 DEF r
<1>9. r[0] = <<>> /\ \A i \in 1..n : r[i] = One(r[i - 1], i)
  <2>1. \A i \in 0..n : r[i] = IF i = 0 THEN <<>> ELSE One(r[i - 1], i)
    BY <1>8
  <2>2. 0 \in 0..n /\ \A i \in 1..n : i \in 0..n /\ i # 0
    BY <1>1
  <2> HIDE DEF One
  <2> QED
    BY <2>1, <2>2
<1> HIDE DEF One
<1>10. r \in [0..n -> S]
  <2> DEFINE T == {i \in 0..n : r[i] \in S}
  <2>1. 0 \in T
    BY <1>1, <1>9
  <2>2. ASSUME NEW i \in 1..n, i - 1 \in T PROVE i \in T
    <3>1. i \in 0..n /\ r[i - 1] \in S
      BY <1>1, <2>2
    <3>2. One(r[i - 1], i) \in S
      BY <1>2, <3>1
    <3> QED
      BY <1>9, <3>1, <3>2
  <2> HIDE DEF T
  <2>3. \A i \in 0..n : i \in T
    BY <1>1, <2>1, <2>2, UpTo, Zenon
  <2>4. \A i \in 0..n : r[i] \in S
    BY <2>3 DEF T
  <2> QED
    BY <1>8, <2>4
<1>11. JoinSteps(parts, between, r)
  <2>1. n > 0 => r[1] = parts[1]
    BY <1>1, <1>9 DEF One
  <2>2. \A i \in 1..n : i > 1 => r[i] = r[i - 1] \o between \o parts[i]
    <3> SUFFICES ASSUME NEW i \in 1..n, i > 1 PROVE r[i] = r[i - 1] \o between \o parts[i]
      OBVIOUS
    <3>1. r[i] = One(r[i - 1], i) /\ i # 1
      BY <1>1, <1>9
    <3> QED
      BY <3>1 DEF One
  <2> QED
    BY <1>4, <1>9, <2>1, <2>2 DEF JoinSteps, n
<1> QED
  BY <1>10, <1>11 DEF n, S

(* What the parameters of a command may be.                                  *)
ParamLists == Seq(Keys \X Seq(Chars))
DistinctKeys(params) == \A i, j \in DOMAIN params : params[i][1] = params[j][1] => i = j

(* A parameter separates nothing.                                            *)
LEMMA ParamType ==
    ASSUME NEW a \in Keys \X Seq(Chars)
    PROVE  Param(a) \in Seq(Clean) /\ Len(Param(a)) >= 2
<1> DEFINE w == Escape(a[2])
           key == a[1]
<1>1. PICK e : EscapeSteps(a[2], e)
  BY EscapeRun
<1>2. w \in Seq(Clean)
  <2>1. Len(a[2]) \in 0..Len(a[2])
    OBVIOUS
  <2>2. e[Len(a[2])] \in Seq(Clean) /\ e[Len(a[2])] = w
    BY <1>1, <2>1 DEF EscapeSteps
  <2> QED
    BY <2>2
<1>3. <<key, "=">> \in Seq(Clean) /\ Len(<<key, "=">>) = 2
  BY CleanChars
<1>4. Param(a) = <<key, "=">> \o w
  BY DEF Param
<1> HIDE DEF w, key
<1>5. Len(w) \in Nat /\ <<key, "=">> \o w \in Seq(Clean) /\ Len(<<key, "=">> \o w) = 2 + Len(w)
  BY <1>2, <1>3
<1> QED
  BY <1>4, <1>5

(* L[i] is the line up to its i-th parameter.                                *)
LineSteps(name, params, L) ==
    /\ L \in [0..Len(params) -> Seq(LineChars)] /\ L[0] = <<name>>
    /\ \A i \in 1..Len(params) : L[i] = L[i - 1] \o (<<Space>> \o Param(params[i]))
    /\ BuildCommand(name, params) = L[Len(params)] \o <<Newline>>

(* buildCommand() makes these steps.                                         *)
LEMMA LineRun ==
    ASSUME NEW name \in Commands, NEW params \in ParamLists
    PROVE  \E L : LineSteps(name, params, L)
<1> DEFINE n == Len(params)
           rest == Parts(params)
           parts == <<<<name>>>> \o rest
<1>1. n \in Nat /\ \A i \in 1..n : Param(params[i]) \in Seq(LineChars)
  <2>1. n \in Nat /\ \A i \in 1..n : params[i] \in Keys \X Seq(Chars)
    BY DEF ParamLists
  <2>2. \A i \in 1..n : Param(params[i]) \in Seq(Clean)
    BY <2>1, ParamType
  <2>3. Clean \subseteq LineChars
    BY DEF LineChars
  <2> QED
    BY <2>1, <2>2, <2>3
<1>2. rest = [i \in 1..n |-> Param(params[i])]
  BY DEF Parts, ParamLists
<1>3. <<name>> \in Seq(LineChars)
  BY CleanChars DEF LineChars
<1>4. rest \in Seq(Seq(LineChars)) /\ Len(rest) = n /\ \A i \in 1..n : rest[i] = Param(params[i])
  <2> HIDE DEF n, rest
  <2> QED
    BY <1>1, <1>2
<1>5. BuildCommand(name, params) = Join(parts, <<Space>>) \o <<Newline>>
  BY DEF BuildCommand
<1> HIDE DEF n, rest
<1>6. /\ parts \in Seq(Seq(LineChars)) /\ Len(parts) = n + 1 /\ parts[1] = <<name>>
      /\ \A i \in 1..n : parts[i + 1] = Param(params[i])
  BY <1>1, <1>3, <1>4
<1>7. <<Space>> \in Seq(LineChars)
  BY DEF LineChars
<1> HIDE DEF parts
<1>8. PICK j \in [0..Len(parts) -> Seq(LineChars)] : JoinSteps(parts, <<Space>>, j)
  BY <1>6, <1>7, JoinRun
<1>9. /\ j \in [0..(n + 1) -> Seq(LineChars)] /\ j[1] = <<name>> /\ j[n + 1] = Join(parts, <<Space>>)
      /\ \A i \in 1..(n + 1) : i > 1 => j[i] = j[i - 1] \o <<Space>> \o parts[i]
  <2>1. n + 1 > 0 /\ Len(parts) = n + 1 /\ parts[1] = <<name>>
    BY <1>1, <1>6
  <2>2. /\ Len(parts) > 0 => j[1] = parts[1]
        /\ \A i \in 1..Len(parts) : i > 1 => j[i] = j[i - 1] \o <<Space>> \o parts[i]
        /\ j[Len(parts)] = Join(parts, <<Space>>)
    BY <1>8 DEF JoinSteps
  <2>3. j \in [0..(n + 1) -> Seq(LineChars)]
    BY <2>1, Zenon
  <2>4. j[1] = <<name>> /\ j[n + 1] = Join(parts, <<Space>>)
    BY <2>1, <2>2
  <2>5. \A i \in 1..(n + 1) : i > 1 => j[i] = j[i - 1] \o <<Space>> \o parts[i]
    BY <2>1, <2>2, Zenon
  <2> QED
    BY <2>3, <2>4, <2>5
<1> DEFINE L == [i \in 0..n |-> j[i + 1]]
<1>10. L \in [0..n -> Seq(LineChars)] /\ L[0] = <<name>> /\ L[n] = Join(parts, <<Space>>)
  BY <1>1, <1>9
<1>11. ASSUME NEW i \in 1..n PROVE L[i] = L[i - 1] \o (<<Space>> \o Param(params[i]))
  <2>1. i \in 0..n /\ i - 1 \in 0..n /\ i + 1 \in 1..(n + 1) /\ i + 1 > 1 /\ (i + 1) - 1 = i /\ (i - 1) + 1 = i
    BY <1>1
  <2>2. L[i] = j[i + 1] /\ L[i - 1] = j[i]
    BY <2>1
  <2>3. j[i + 1] = j[i] \o <<Space>> \o Param(params[i])
    BY <2>1, <1>6, <1>9
  <2>4. j[i] \in Seq(LineChars)
    <3>1. i \in 0..(n + 1)
      BY <1>1
    <3> QED
      BY <3>1, <1>9
  <2>5. (j[i] \o <<Space>>) \o Param(params[i]) = j[i] \o (<<Space>> \o Param(params[i]))
    <3> DEFINE x == Param(params[i])
               y == <<Space>>
               z == j[i]
    <3>1. x \in Seq(LineChars) /\ y \in Seq(LineChars) /\ z \in Seq(LineChars)
      BY <1>1, <1>7, <2>4
    <3> HIDE DEF x, y, z
    <3>2. (z \o y) \o x = z \o (y \o x)
      BY <3>1, ConcatAssociative
    <3> QED
      BY <3>2 DEF x, y, z
  <2> HIDE DEF L
  <2> QED
    BY <2>2, <2>3, <2>5
<1> HIDE DEF L
<1>12. LineSteps(name, params, L)
  BY <1>5, <1>10, <1>11 DEF LineSteps, n
<1> QED
  BY <1>12

(* Where in a line each parameter is, and the space before it.               *)
Placed(text, start, param) ==
    /\ start \in Nat /\ start >= 1 /\ text[start + 1] = Space
    /\ \A k \in 1..Len(param) : text[start + 1 + k] = param[k]

LinePlaces(params, L) ==
    \A i \in 1..Len(params) :
        /\ Placed(L[Len(params)], Len(L[i - 1]), Param(params[i]))
        /\ Len(L[i]) = Len(L[i - 1]) + 1 + Len(Param(params[i]))
        /\ Len(L[i]) <= Len(L[Len(params)])

(* Every parameter has its place in the line.                                *)
LEMMA LinePieces ==
    ASSUME NEW name \in Commands, NEW params \in ParamLists, NEW L, LineSteps(name, params, L)
    PROVE  LinePlaces(params, L)
<1> DEFINE n == Len(params)
           h == [i \in 1..n |-> <<Space>> \o Param(params[i])]
<1>1. n \in Nat /\ \A i \in 1..n : Param(params[i]) \in Seq(LineChars) /\ Param(params[i]) \in Seq(Clean)
  <2>1. n \in Nat /\ \A i \in 1..n : params[i] \in Keys \X Seq(Chars)
    BY DEF ParamLists
  <2>2. \A i \in 1..n : Param(params[i]) \in Seq(Clean)
    BY <2>1, ParamType
  <2>3. Clean \subseteq LineChars
    BY DEF LineChars
  <2> QED
    BY <2>1, <2>2, <2>3
<1>2. /\ L \in [0..n -> Seq(LineChars)] /\ L[0] = <<name>>
      /\ \A i \in 1..n : L[i] = L[i - 1] \o (<<Space>> \o Param(params[i]))
  BY DEF LineSteps
<1>3. ASSUME NEW i \in 1..n
      PROVE  /\ <<Space>> \o Param(params[i]) \in Seq(LineChars)
             /\ Len(<<Space>> \o Param(params[i])) = 1 + Len(Param(params[i]))
             /\ (<<Space>> \o Param(params[i]))[1] = Space
             /\ \A k \in 1..Len(Param(params[i])) : (<<Space>> \o Param(params[i]))[1 + k] = Param(params[i])[k]
             /\ Len(Param(params[i])) \in Nat
  <2> DEFINE x == Param(params[i])
  <2>1. x \in Seq(LineChars) /\ <<Space>> \in Seq(LineChars) /\ Len(x) \in Nat
    BY <1>1 DEF LineChars
  <2> HIDE DEF x
  <2>2. /\ <<Space>> \o x \in Seq(LineChars) /\ Len(<<Space>> \o x) = 1 + Len(x) /\ (<<Space>> \o x)[1] = Space
        /\ \A k \in 1..Len(x) : (<<Space>> \o x)[1 + k] = x[k]
    BY <2>1
  <2> QED
    BY <2>1, <2>2 DEF x
<1>4. h \in [1..n -> Seq(LineChars)] /\ \A i \in 1..n : h[i] = <<Space>> \o Param(params[i])
  BY <1>3
<1> HIDE DEF h, n
<1>5. Grows(LineChars, n, L, h)
  BY <1>1, <1>2, <1>4 DEF Grows
<1>6. Begins(n, L, h)
  BY <1>5, Pieces
<1>7. ASSUME NEW i \in 1..n
      PROVE  /\ Len(L[i - 1]) \in Nat /\ Len(L[i]) = Len(L[i - 1]) + 1 + Len(Param(params[i]))
             /\ Len(L[i]) <= Len(L[n]) /\ L[n][Len(L[i - 1]) + 1] = Space
             /\ \A k \in 1..Len(Param(params[i])) : L[n][Len(L[i - 1]) + 1 + k] = Param(params[i])[k]
  <2> DEFINE x == Param(params[i])
             q == Len(L[i - 1])
  <2>1. /\ q \in Nat /\ Len(L[i]) = q + Len(h[i]) /\ Len(L[i]) <= Len(L[n])
        /\ \A k \in 1..Len(h[i]) : L[n][q + k] = h[i][k]
    BY <1>6 DEF Begins
  <2>2. /\ Len(h[i]) = 1 + Len(x) /\ h[i][1] = Space /\ Len(x) \in Nat
        /\ \A k \in 1..Len(x) : h[i][1 + k] = x[k]
    BY <1>3, <1>4
  <2> HIDE DEF x, q
  <2>3. 1 \in 1..Len(h[i]) /\ \A k \in 1..Len(x) : 1 + k \in 1..Len(h[i]) /\ q + (1 + k) = q + 1 + k
    BY <2>1, <2>2
  <2>4. Len(L[i]) = q + 1 + Len(x)
    BY <2>1, <2>2
  <2>5. L[n][q + 1] = Space
    BY <2>1, <2>2, <2>3
  <2>6. \A k \in 1..Len(x) : L[n][q + 1 + k] = x[k]
    BY <2>1, <2>2, <2>3
  <2> QED
    BY <2>1, <2>4, <2>5, <2>6 DEF x, q
<1>8. ASSUME NEW i \in 1..n PROVE Len(L[i - 1]) >= 1
  <2>1. CASE i = 1
    <3>1. L[i - 1] = <<name>>
      BY <2>1, <1>2
    <3> QED
      BY <3>1
  <2>2. CASE i # 1
    <3>1. i - 1 \in 1..n
      BY <2>2, <1>1
    <3>2. /\ Len(L[(i - 1) - 1]) \in Nat /\ Len(L[i - 1]) = Len(L[(i - 1) - 1]) + 1 + Len(Param(params[i - 1]))
          /\ Len(Param(params[i - 1])) \in Nat
      BY <3>1, <1>3, <1>7
    <3> DEFINE a == Len(L[(i - 1) - 1])
               b == Len(Param(params[i - 1]))
               c == Len(L[i - 1])
    <3>3. a \in Nat /\ b \in Nat /\ c = a + 1 + b
      BY <3>2
    <3> HIDE DEF a, b, c
    <3>4. c >= 1
      BY <3>3
    <3> QED
      BY <3>4 DEF c
  <2> QED
    BY <2>1, <2>2
<1>9. ASSUME NEW i \in 1..n
      PROVE  /\ Placed(L[n], Len(L[i - 1]), Param(params[i]))
             /\ Len(L[i]) = Len(L[i - 1]) + 1 + Len(Param(params[i])) /\ Len(L[i]) <= Len(L[n])
  <2>1. Placed(L[n], Len(L[i - 1]), Param(params[i]))
    BY <1>7, <1>8, Zenon DEF Placed
  <2> QED
    BY <1>7, <2>1
<1> QED
  BY <1>9 DEF LinePlaces, n

-----------------------------------------------------------------------------
(* Reading the line.                                                         *)

(* o holds the first m parameters and nothing else.                          *)
Covers(o, params, m) ==
    /\ DOMAIN o = {<<params[i][1]>> : i \in 1..m}
    /\ \A i \in 1..m : o[<<params[i][1]>>] = params[i][2]

(* The next parameter, stored.                                               *)
With(o, a) == Stored(Reading(o, <<a[1]>>, Escape(a[2]), TRUE, FALSE))

(* Storing the next parameter covers one more, as its key is a new one.      *)
LEMMA StoreOne ==
    ASSUME NEW params \in ParamLists, DistinctKeys(params), NEW m \in 1..Len(params),
           NEW o, Covers(o, params, m - 1)
    PROVE  Covers(With(o, params[m]), params, m)
<1> DEFINE key == params[m][1]
           v == params[m][2]
           f == With(o, params[m])
<1>1. /\ Len(params) \in Nat /\ DOMAIN params = 1..Len(params)
      /\ \A i \in 1..Len(params) : params[i] \in Keys \X Seq(Chars)
  BY DEF ParamLists
<1>2. key \in Keys /\ v \in Seq(Chars)
  BY <1>1
<1>3. Unescape(<<key>>) = <<key>>
  <2>1. key \in AllChars /\ key \notin Special
    BY <1>2, Alphabet, Disjoint
  <2> QED
    BY <2>1, UnescapeName
<1>4. Unescape(Escape(v)) = v
  BY <1>2, UnescapeEscape
<1>5. f = [k \in DOMAIN o \cup {<<key>>} |-> IF k = <<key>> THEN v ELSE o[k]]
  <2>1. f = [k \in DOMAIN o \cup {Unescape(<<key>>)} |-> IF k = Unescape(<<key>>) THEN Unescape(Escape(v)) ELSE o[k]]
    BY DEF With, Stored, Reading
  <2> QED
    BY <1>3, <1>4, <2>1
<1>6. DOMAIN o = {<<params[i][1]>> : i \in 1..(m - 1)} /\ \A i \in 1..(m - 1) : o[<<params[i][1]>>] = params[i][2]
  BY DEF Covers
<1>7. 1..m = (1..(m - 1)) \cup {m} /\ m \notin 1..(m - 1) /\ 1..m \subseteq 1..Len(params)
  BY <1>1
<1> HIDE DEF f
<1>8. DOMAIN f = {<<params[i][1]>> : i \in 1..m}
  BY <1>5, <1>6, <1>7
<1>9. f[<<key>>] = v
  BY <1>5
<1>10. ASSUME NEW i \in 1..(m - 1) PROVE f[<<params[i][1]>>] = params[i][2]
  <2>1. params[i][1] # key
    BY <1>1, <1>7 DEF DistinctKeys
  <2>2. <<params[i][1]>> # <<key>> /\ <<params[i][1]>> \in DOMAIN o
    BY <2>1, <1>6
  <2>3. f[<<params[i][1]>>] = o[<<params[i][1]>>]
    BY <2>2, <1>5
  <2> QED
    BY <2>3, <1>6
<1>11. \A i \in 1..m : f[<<params[i][1]>>] = params[i][2]
  BY <1>7, <1>9, <1>10
<1>12. Covers(f, params, m)
  BY <1>8, <1>11 DEF Covers
<1> QED
  BY <1>12 DEF f

(* What follows a parameter: a space, by which it is stored.                 *)
LEMMA ReadSpace ==
    ASSUME NEW t \in Seq(AllChars), NEW r, ReadSteps(t, r), NEW p \in Nat, p + 1 <= Len(t), t[p + 1] = Space,
           NEW o, NEW a, InValue(r, p, o, <<a[1]>>, Escape(a[2]))
    PROVE  AtKey(r, p + 1, With(o, a))
<1> DEFINE k == <<a[1]>>
           v == Escape(a[2])
<1>1. r[p + 1] = ReadChar(r[p], Space)
  <2>1. \A i \in 1..Len(t) : r[i] = ReadChar(r[i - 1], t[i])
    BY DEF ReadSteps
  <2>2. p + 1 \in 1..Len(t) /\ (p + 1) - 1 = p
    OBVIOUS
  <2> QED
    BY <2>1, <2>2
<1>2. r[p] = Reading(o, k, v, TRUE, FALSE)
  BY DEF InValue
<1> HIDE DEF k, v
<1>3. r[p + 1] = Reading(Stored(Reading(o, k, v, TRUE, FALSE)), <<>>, <<>>, FALSE, FALSE)
  <2>1. ReadChar(Reading(o, k, v, TRUE, FALSE), Space)
          = Reading(Stored(Reading(o, k, v, TRUE, FALSE)), <<>>, <<>>, FALSE, FALSE)
    BY DEF ReadChar, Reading, NothingRead, Space
  <2> QED
    BY <1>1, <1>2, <2>1
<1> QED
  BY <1>3 DEF AtKey, With, k, v

(* The text behind the name of a command is L[n] without its first two       *)
(* characters.                                                               *)
TextOf(name, params) == SubSeq(BuildCommand(name, params), 3, Len(BuildCommand(name, params)) - 1)

(* The characters behind the name of the command.                            *)
LEMMA LineText ==
    ASSUME NEW name \in Commands, NEW params \in ParamLists, NEW L, LineSteps(name, params, L)
    PROVE  LET whole == L[Len(params)]
               t     == TextOf(name, params)
           IN  /\ Len(whole) \in Nat /\ t \in Seq(AllChars) /\ Len(t) \in Nat
               /\ Len(t) = IF Len(whole) >= 2 THEN Len(whole) - 2 ELSE 0
               /\ \A k \in 1..Len(t) : t[k] = whole[k + 2]
<1> DEFINE whole == L[Len(params)]
           cmd == BuildCommand(name, params)
           t == TextOf(name, params)
           N == Len(whole)
<1>1. whole \in Seq(LineChars) /\ cmd = whole \o <<Newline>>
  <2>1. Len(params) \in 0..Len(params)
    BY DEF ParamLists
  <2> QED
    BY <2>1 DEF LineSteps
<1>2. t = SubSeq(cmd, 3, Len(cmd) - 1)
  BY DEF TextOf
<1>3. LineChars \subseteq AllChars /\ Newline \in AllChars
  BY CleanChars, Alphabet DEF LineChars, Special
<1> HIDE DEF whole, cmd, t
<1>4. N \in Nat /\ cmd \in Seq(AllChars) /\ Len(cmd) = N + 1 /\ \A k \in 1..N : cmd[k] = whole[k]
  <2>1. whole \in Seq(AllChars) /\ <<Newline>> \in Seq(AllChars)
    BY <1>1, <1>3
  <2> QED
    BY <1>1, <2>1
<1> HIDE DEF N
<1>5. t = SubSeq(cmd, 3, N)
  BY <1>2, <1>4
<1>6. t \in Seq(AllChars) /\ Len(t) = IF N >= 2 THEN N - 2 ELSE 0
  BY <1>4, <1>5
<1>7. \A k \in 1..Len(t) : t[k] = cmd[k + 2] /\ k + 2 \in 1..N
  BY <1>4, <1>5, <1>6
<1>8. Len(t) \in Nat
  BY <1>6
<1>9. \A k \in 1..Len(t) : t[k] = whole[k + 2]
  BY <1>4, <1>7
<1> QED
  BY <1>4, <1>6, <1>8, <1>9 DEF N, whole, t

(* A parameter in the line stands two characters earlier in the text.        *)
LEMMA StandsInText ==
    ASSUME NEW whole, NEW t \in Seq(AllChars), Len(whole) \in Nat, Len(whole) >= 2, Len(t) = Len(whole) - 2,
           \A k \in 1..Len(t) : t[k] = whole[k + 2],
           NEW q, NEW x \in Seq(Clean), Placed(whole, q, x), q + 1 + Len(x) <= Len(whole)
    PROVE  Stands(t, q - 1, x)
<1>1. q \in Nat /\ q >= 1 /\ Len(x) \in Nat /\ \A k \in 1..Len(x) : whole[q + 1 + k] = x[k]
  BY DEF Placed
<1>2. q - 1 \in Nat /\ (q - 1) + Len(x) <= Len(t)
  BY <1>1
<1>3. ASSUME NEW k \in 1..Len(x) PROVE t[(q - 1) + k] = x[k]
  <2>1. (q - 1) + k \in 1..Len(t) /\ ((q - 1) + k) + 2 = q + 1 + k
    BY <1>1
  <2>2. t[(q - 1) + k] = whole[((q - 1) + k) + 2]
    BY <2>1
  <2> QED
    BY <1>1, <2>1, <2>2
<1> QED
  BY <1>2, <1>3 DEF Stands

(* The text of a line is read as its parameters.                             *)
LEMMA ReadCommand ==
    ASSUME NEW name \in Commands, NEW params \in ParamLists, DistinctKeys(params)
    PROVE  Covers(ParseKeyValue(TextOf(name, params)), params, Len(params))
<1> DEFINE n == Len(params)
           t == TextOf(name, params)
<1>1. n \in Nat /\ \A i \in 1..n : params[i] \in Keys \X Seq(Chars)
  BY DEF ParamLists
<1>2. PICK L : LineSteps(name, params, L)
  BY LineRun
<1> DEFINE N == Len(L[n])
<1>3. /\ N \in Nat /\ t \in Seq(AllChars) /\ Len(t) \in Nat /\ Len(t) = IF N >= 2 THEN N - 2 ELSE 0
      /\ \A k \in 1..Len(t) : t[k] = L[n][k + 2]
  BY <1>2, LineText
<1>4. PICK r : ReadSteps(t, r)
  BY <1>3, ReadRun
<1>5. r[0] = NothingRead
  BY <1>4 DEF ReadSteps
<1> DEFINE none == [k \in {} |-> <<>>]
<1>6. AtKey(r, 0, none) /\ Covers(none, params, 0)
  <2>1. AtKey(r, 0, none)
    BY <1>5, NothingIs DEF AtKey
  <2>2. Covers(none, params, 0)
    BY DEF Covers
  <2> QED
    BY <2>1, <2>2
<1>7. L[0] = <<name>> /\ Len(L[0]) = 1
  BY <1>2 DEF LineSteps
<1> HIDE DEF none
<1>8. CASE n = 0
  <2>1. Len(t) = 0
    <3>1. N = 1
      BY <1>7, <1>8
    <3> HIDE DEF N, t
    <3> QED
      BY <1>3, <3>1
  <2>2. r[Len(t)] = Reading(none, <<>>, <<>>, FALSE, FALSE)
    BY <1>6, <2>1 DEF AtKey
  <2> HIDE DEF t
  <2>3. r[Len(t)].esc = FALSE /\ r[Len(t)].key = <<>> /\ r[Len(t)].value = <<>> /\ r[Len(t)].out = none
    BY <2>2 DEF Reading
  <2>4. ParseKeyValue(t) = none
    BY <1>4, <2>3 DEF ReadSteps
  <2> QED
    BY <1>6, <1>8, <2>4 DEF t
<1>9. CASE n # 0
  <2> DEFINE a(i) == params[i]
             x(i) == Param(params[i])
             q(i) == Len(L[i - 1])
  <2>1. ASSUME NEW i \in 1..n
        PROVE  /\ Placed(L[n], q(i), x(i)) /\ Len(L[i]) = q(i) + 1 + Len(x(i)) /\ Len(L[i]) <= N
               /\ x(i) \in Seq(Clean) /\ Len(x(i)) >= 2 /\ Len(x(i)) \in Nat /\ q(i) \in Nat /\ q(i) >= 1
    <3>1. LinePlaces(params, L)
      BY <1>2, LinePieces
    <3>2. Placed(L[n], q(i), x(i)) /\ Len(L[i]) = q(i) + 1 + Len(x(i)) /\ Len(L[i]) <= N
      BY <3>1 DEF LinePlaces
    <3>3. x(i) \in Seq(Clean) /\ Len(x(i)) >= 2
      BY <1>1, ParamType
    <3>4. q(i) \in Nat /\ q(i) >= 1
      BY <3>2 DEF Placed
    <3> HIDE DEF q, x, N
    <3>5. Len(x(i)) \in Nat
      BY <3>3
    <3> QED
      BY <3>2, <3>3, <3>4, <3>5, Zenon
  <2>2. N >= 2 /\ Len(t) = N - 2
    <3>1. 1 \in 1..n
      BY <1>1, <1>9
    <3>2. Len(L[1]) = q(1) + 1 + Len(x(1)) /\ Len(L[1]) <= N /\ Len(x(1)) >= 2 /\ Len(x(1)) \in Nat /\ q(1) \in Nat
      BY <2>1, <3>1, Zenon
    <3> HIDE DEF x, q, N, t
    <3>3. N >= 2
      BY <1>3, <3>2
    <3> QED
      BY <1>3, <3>3
  <2>3. ASSUME NEW i \in 1..n PROVE Stands(t, q(i) - 1, x(i))
    <3>1. Placed(L[n], q(i), x(i)) /\ x(i) \in Seq(Clean) /\ q(i) + 1 + Len(x(i)) <= N
      BY <2>1
    <3> HIDE DEF t, q, x
    <3> QED
      BY <1>3, <2>2, <3>1, StandsInText
  <2> DEFINE T == {i \in 0..n : i # 0 => \E o : AtKey(r, q(i) - 1, o) /\ Covers(o, params, i - 1)}
  <2> HIDE DEF q, x, t, N
  <2>4. 0 \in T
    BY <1>1
  <2>5. ASSUME NEW i \in 1..n, i - 1 \in T PROVE i \in T
    <3>1. CASE i = 1
      <4>1. q(1) - 1 = 0
        <5>1. 1 - 1 = 0
          OBVIOUS
        <5>2. q(1) = Len(L[0])
          BY <5>1 DEF q
        <5> QED
          BY <1>7, <5>2
      <4>2. AtKey(r, q(i) - 1, none) /\ Covers(none, params, i - 1)
        BY <1>6, <3>1, <4>1
      <4> QED
        BY <1>1, <4>2
    <3>2. CASE i # 1
      <4> DEFINE j == i - 1
      <4>1. j \in 1..n /\ j # 0 /\ i = j + 1
        BY <1>1, <3>2
      <4>2. PICK o : AtKey(r, q(j) - 1, o) /\ Covers(o, params, j - 1)
        BY <2>5, <4>1
      <4>3. InValue(r, (q(j) - 1) + Len(x(j)), o, <<a(j)[1]>>, Escape(a(j)[2]))
        <5>1. Stands(t, q(j) - 1, Param(a(j))) /\ a(j) \in Keys \X Seq(Chars)
          BY <1>1, <2>3, <4>1 DEF x
        <5> HIDE DEF a
        <5>2. InValue(r, (q(j) - 1) + Len(Param(a(j))), o, <<a(j)[1]>>, Escape(a(j)[2]))
          BY <1>3, <1>4, <4>2, <5>1, ReadParam, Zenon
        <5> QED
          BY <5>2 DEF x, a
      <4>4. q(i) = q(j) + 1 + Len(x(j))
        BY <2>1, <4>1 DEF q
      <4> DEFINE p == (q(j) - 1) + Len(x(j))
      <4>5. p \in Nat /\ p + 1 = q(i) - 1 /\ p + 1 <= Len(t) /\ (p + 1) + 2 = q(i) + 1
        <5>1. q(j) \in Nat /\ q(j) >= 1 /\ Len(x(j)) \in Nat
          BY <2>1, <4>1
        <5>2. q(i) \in Nat /\ Len(x(i)) \in Nat /\ Len(L[i]) = q(i) + 1 + Len(x(i)) /\ Len(L[i]) <= N /\ Len(x(i)) >= 2
          BY <2>1, Zenon
        <5> DEFINE u == q(j)
                   v == Len(x(j))
                   w == q(i)
                   y == Len(x(i))
                   l == Len(L[i])
        <5>3. /\ u \in Nat /\ u >= 1 /\ v \in Nat /\ w \in Nat /\ y \in Nat /\ l = w + 1 + y /\ l <= N /\ y >= 2
              /\ w = u + 1 + v /\ N \in Nat /\ Len(t) = N - 2 /\ p = (u - 1) + v
          BY <1>3, <2>2, <4>4, <5>1, <5>2, Zenon
        <5> HIDE DEF u, v, w, y, l, p
        <5>4. p \in Nat /\ p + 1 = w - 1 /\ (p + 1) + 2 = w + 1
          BY <5>3
        <5>5. p + 1 <= Len(t)
          BY <5>3
        <5> QED
          BY <5>4, <5>5 DEF w
      <4>6. t[p + 1] = Space
        <5>1. L[n][q(i) + 1] = Space
          BY <2>1 DEF Placed
        <5>2. p + 1 \in 1..Len(t)
          BY <1>3, <4>5
        <5> HIDE DEF p
        <5>3. t[p + 1] = L[n][(p + 1) + 2]
          BY <1>3, <5>2
        <5> QED
          BY <5>1, <5>3, <4>5
      <4> HIDE DEF p
      <4>7. AtKey(r, p + 1, With(o, a(j)))
        <5>1. InValue(r, p, o, <<a(j)[1]>>, Escape(a(j)[2]))
          BY <4>3 DEF p
        <5> HIDE DEF a, j
        <5> QED
          BY <1>3, <1>4, <4>5, <4>6, <5>1, ReadSpace, Zenon
      <4>8. Covers(With(o, a(j)), params, j)
        BY <4>1, <4>2, StoreOne
      <4>9. AtKey(r, q(i) - 1, With(o, a(j))) /\ Covers(With(o, a(j)), params, i - 1)
        BY <4>5, <4>7, <4>8
      <4> QED
        BY <1>1, <4>9
    <3> QED
      BY <3>1, <3>2
  <2> HIDE DEF T
  <2>6. n \in T
    <3>1. \A i \in 0..n : i \in T
      BY <1>1, <2>4, <2>5, UpTo, Zenon
    <3> QED
      BY <1>1, <3>1
  <2>7. PICK o : AtKey(r, q(n) - 1, o) /\ Covers(o, params, n - 1)
    BY <1>9, <2>6 DEF T
  <2>8. n \in 1..n
    BY <1>1, <1>9
  <2>9. InValue(r, (q(n) - 1) + Len(x(n)), o, <<a(n)[1]>>, Escape(a(n)[2]))
    <3>1. Stands(t, q(n) - 1, Param(a(n))) /\ a(n) \in Keys \X Seq(Chars)
      BY <1>1, <2>3, <2>8 DEF x
    <3> HIDE DEF a
    <3>2. InValue(r, (q(n) - 1) + Len(Param(a(n))), o, <<a(n)[1]>>, Escape(a(n)[2]))
      BY <1>3, <1>4, <2>7, <3>1, ReadParam, Zenon
    <3> QED
      BY <3>2 DEF x, a
  <2>10. (q(n) - 1) + Len(x(n)) = Len(t)
    <3>1. Len(L[n]) = q(n) + 1 + Len(x(n)) /\ q(n) \in Nat /\ Len(x(n)) \in Nat
      BY <2>1, <2>8
    <3>2. N = q(n) + 1 + Len(x(n))
      BY <3>1 DEF N
    <3> QED
      BY <2>2, <3>1, <3>2
  <2>11. r[Len(t)] = Reading(o, <<a(n)[1]>>, Escape(a(n)[2]), TRUE, FALSE)
    BY <2>9, <2>10 DEF InValue
  <2>12. ParseKeyValue(t) = With(o, a(n))
    <3> DEFINE last == r[Len(t)]
    <3>1. last.esc = FALSE /\ last.key = <<a(n)[1]>> /\ last.key # <<>>
      BY <2>11 DEF Reading
    <3>2. Stored(last) = With(o, a(n))
      BY <2>11 DEF With
    <3>3. last.esc = FALSE => ParseKeyValue(t) = IF last.key # <<>> \/ last.value # <<>> THEN Stored(last) ELSE last.out
      BY <1>4 DEF ReadSteps
    <3> HIDE DEF last
    <3> QED
      BY <3>1, <3>2, <3>3
  <2>13. Covers(With(o, a(n)), params, n)
    BY <2>7, <2>8, StoreOne
  <2> QED
    BY <2>12, <2>13 DEF t
<1> QED
  BY <1>8, <1>9

-----------------------------------------------------------------------------
(* What separates.                                                           *)

Spaces(s) == {k \in 1..Len(s) : s[k] = Space}

(* Bare separators are none of what a parameter is made of.                  *)
LEMMA CleanHasNoSpace == Space \notin Clean /\ Newline \notin LineChars /\ "|" \notin LineChars /\ Newline # Space
BY DEF Clean, LineChars, Blanks, Space, Newline

(* A parameter brings one space.                                             *)
LEMMA OneSpaceMore ==
    ASSUME NEW s \in Seq(LineChars), NEW x \in Seq(Clean)
    PROVE  /\ Spaces(s \o (<<Space>> \o x)) = Spaces(s) \cup {Len(s) + 1}
           /\ Len(s) + 1 \notin Spaces(s)
<1> DEFINE y == <<Space>> \o x
           l == Len(s)
<1>1. /\ y \in Seq(LineChars) /\ Len(y) = 1 + Len(x) /\ y[1] = Space /\ Len(x) \in Nat
      /\ \A k \in 2..Len(y) : y[k] # Space
  <2>1. x \in Seq(LineChars) /\ <<Space>> \in Seq(LineChars) /\ Len(x) \in Nat
    BY DEF LineChars
  <2>2. y \in Seq(LineChars) /\ Len(y) = 1 + Len(x) /\ y[1] = Space
    BY <2>1
  <2>3. ASSUME NEW k \in 2..Len(y) PROVE y[k] # Space
    <3>1. k - 1 \in 1..Len(x)
      BY <2>1, <2>2
    <3>2. y[k] = x[k - 1]
      BY <2>1, <2>2, <3>1
    <3>3. x[k - 1] \in Clean
      BY <3>1
    <3> QED
      BY <3>2, <3>3, CleanHasNoSpace
  <2> QED
    BY <2>1, <2>2, <2>3
<1> HIDE DEF y
<1>2. l \in Nat /\ Len(s \o y) = l + Len(y) /\ Len(y) \in Nat
  BY <1>1
<1>3. \A k \in 1..l : (s \o y)[k] = s[k]
  BY <1>1, <1>2
<1>4. \A k \in 1..Len(y) : (s \o y)[l + k] = y[k]
  BY <1>1, <1>2
<1> DEFINE z == s \o y
<1> HIDE DEF z, l
<1>5. Len(z) = l + Len(y) /\ (\A k \in 1..l : z[k] = s[k]) /\ \A k \in 1..Len(y) : z[l + k] = y[k]
  BY <1>2, <1>3, <1>4 DEF z
<1>6. Spaces(z) \subseteq Spaces(s) \cup {l + 1}
  <2> SUFFICES ASSUME NEW k \in Spaces(z), k # l + 1 PROVE k \in Spaces(s)
    OBVIOUS
  <2>1. k \in 1..(l + Len(y)) /\ z[k] = Space
    BY <1>5 DEF Spaces
  <2>2. CASE k <= l
    <3>1. k \in 1..l
      BY <1>2, <2>1, <2>2
    <3> QED
      BY <1>5, <2>1, <3>1 DEF Spaces, l
  <2>3. CASE k > l
    <3>1. k - l \in 2..Len(y) /\ k - l \in 1..Len(y) /\ l + (k - l) = k
      BY <1>2, <2>1, <2>3
    <3>2. z[k] = y[k - l]
      BY <1>5, <3>1
    <3> QED
      BY <1>1, <2>1, <3>1, <3>2
  <2> QED
    BY <1>2, <2>1, <2>2, <2>3
<1>7. ASSUME NEW k \in Spaces(s) PROVE k \in Spaces(z)
  <2>1. k \in 1..l /\ s[k] = Space
    BY DEF Spaces, l
  <2>2. k \in 1..Len(z) /\ z[k] = Space
    BY <1>2, <1>5, <2>1
  <2> QED
    BY <2>2 DEF Spaces
<1>8. l + 1 \in Spaces(z)
  <2>1. 1 \in 1..Len(y) /\ l + 1 \in 1..Len(z)
    BY <1>1, <1>2, <1>5
  <2> QED
    BY <1>1, <1>5, <2>1 DEF Spaces
<1>9. l + 1 \notin Spaces(s)
  BY <1>2 DEF Spaces, l
<1> QED
  BY <1>6, <1>7, <1>8, <1>9 DEF z, y, l

(* A line has a space for each parameter.                                    *)
LEMMA SpaceCount ==
    ASSUME NEW name \in Commands, NEW params \in ParamLists, NEW L, LineSteps(name, params, L)
    PROVE  Cardinality(Spaces(L[Len(params)])) = Len(params)
<1> DEFINE n == Len(params)
           T == {i \in 0..n : IsFiniteSet(Spaces(L[i])) /\ Cardinality(Spaces(L[i])) = i}
<1>1. n \in Nat /\ \A i \in 1..n : Param(params[i]) \in Seq(Clean)
  <2>1. n \in Nat /\ \A i \in 1..n : params[i] \in Keys \X Seq(Chars)
    BY DEF ParamLists
  <2> QED
    BY <2>1, ParamType
<1>2. /\ L \in [0..n -> Seq(LineChars)] /\ L[0] = <<name>>
      /\ \A i \in 1..n : L[i] = L[i - 1] \o (<<Space>> \o Param(params[i]))
  BY DEF LineSteps
<1> HIDE DEF n
<1>3. 0 \in T
  <2>1. name # Space
    BY Alphabet, Disjoint
  <2>2. Spaces(L[0]) = {}
    BY <1>2, <2>1 DEF Spaces
  <2>3. IsFiniteSet({}) /\ Cardinality({}) = 0
    BY FS_EmptySet
  <2>4. 0 \in 0..n
    BY <1>1
  <2>5. IsFiniteSet(Spaces(L[0])) /\ Cardinality(Spaces(L[0])) = 0
    BY <2>2, <2>3, Zenon
  <2> QED
    BY <2>4, <2>5
<1>4. ASSUME NEW i \in 1..n, i - 1 \in T PROVE i \in T
  <2> DEFINE s == L[i - 1]
             l == Len(s) + 1
             x == Param(params[i])
             A == Spaces(s)
             B == Spaces(L[i])
  <2>1. s \in Seq(LineChars) /\ i - 1 \in 0..n /\ i \in 0..n
    BY <1>1, <1>2
  <2>2. IsFiniteSet(A) /\ Cardinality(A) = i - 1
    BY <1>4
  <2>3. x \in Seq(Clean) /\ L[i] = s \o (<<Space>> \o x)
    BY <1>1, <1>2
  <2>4. B = A \cup {l} /\ l \notin A
    BY <2>1, <2>3, OneSpaceMore
  <2> HIDE DEF A, B, l
  <2>5. IsFiniteSet(A \cup {l}) /\ Cardinality(A \cup {l}) = Cardinality(A) + 1
    BY <2>2, <2>4, FS_AddElement
  <2>6. IsFiniteSet(B) /\ Cardinality(B) = i
    BY <1>1, <2>2, <2>4, <2>5
  <2> QED
    BY <2>1, <2>6 DEF B
<1> HIDE DEF T
<1>5. \A i \in 0..n : i \in T
  BY <1>1, <1>3, <1>4, UpTo, Zenon
<1>6. n \in T
  BY <1>1, <1>5
<1> QED
  BY <1>6 DEF T, n

(* A command is one line, with as many spaces as parameters and no bar.      *)
OneLine(cmd, params) ==
    /\ cmd # <<>> /\ cmd[Len(cmd)] = Newline
    /\ {i \in DOMAIN cmd : cmd[i] \in Blanks \ {Space}} = {Len(cmd)}
    /\ Cardinality({i \in DOMAIN cmd : cmd[i] = Space}) = Len(params)
    /\ \A i \in DOMAIN cmd : cmd[i] # "|"

(* The lines of commands are such lines.                                     *)
LEMMA CommandLine ==
    ASSUME NEW name \in Commands, NEW params \in ParamLists
    PROVE  OneLine(BuildCommand(name, params), params)
<1> DEFINE cmd == BuildCommand(name, params)
           n == Len(params)
<1>1. PICK L : LineSteps(name, params, L)
  BY LineRun
<1> DEFINE whole == L[n]
           N == Len(whole)
<1>2. whole \in Seq(LineChars) /\ cmd = whole \o <<Newline>>
  <2>1. n \in 0..n
    BY DEF ParamLists
  <2> QED
    BY <1>1, <2>1 DEF LineSteps
<1>3. Cardinality(Spaces(whole)) = n
  BY <1>1, SpaceCount
<1> HIDE DEF cmd, n, whole
<1>4. /\ N \in Nat /\ Len(cmd) = N + 1 /\ DOMAIN cmd = 1..(N + 1) /\ cmd[N + 1] = Newline
      /\ \A k \in 1..N : cmd[k] = whole[k] /\ whole[k] \in LineChars
  <2> DEFINE S == LineChars \cup {Newline}
  <2>1. whole \in Seq(S) /\ <<Newline>> \in Seq(S)
    BY <1>2
  <2> HIDE DEF S
  <2>2. N \in Nat /\ Len(cmd) = N + 1 /\ cmd \in Seq(S) /\ \A k \in 1..N : cmd[k] = whole[k]
    BY <1>2, <2>1
  <2>3. cmd[N + 1] = Newline
    BY <1>2, <2>1
  <2>4. DOMAIN cmd = 1..(N + 1)
    BY <2>2
  <2>5. \A k \in 1..N : whole[k] \in LineChars
    BY <1>2
  <2> QED
    BY <2>2, <2>3, <2>4, <2>5
<1> HIDE DEF N
<1>5. LineChars \cap (Blanks \ {Space}) = {} /\ Newline \in Blanks \ {Space}
  BY CleanHasNoSpace DEF LineChars, Clean, Blanks
<1>6. 1..(N + 1) = (1..N) \cup {N + 1}
  BY <1>4
<1>7. {i \in DOMAIN cmd : cmd[i] \in Blanks \ {Space}} = {Len(cmd)}
  <2>1. \A i \in 1..N : cmd[i] \notin Blanks \ {Space}
    BY <1>4, <1>5
  <2> QED
    BY <1>4, <1>5, <1>6, <2>1
<1>8. {i \in DOMAIN cmd : cmd[i] = Space} = Spaces(whole)
  <2>1. \A i \in 1..N : cmd[i] = whole[i]
    BY <1>4
  <2>2. cmd[N + 1] # Space
    BY <1>4, CleanHasNoSpace
  <2> QED
    BY <1>4, <1>6, <2>1, <2>2 DEF Spaces, N
<1>9. \A i \in DOMAIN cmd : cmd[i] # "|"
  <2>1. \A i \in 1..N : cmd[i] # "|"
    BY <1>4, CleanHasNoSpace
  <2>2. Newline # "|"
    BY DEF Newline
  <2> QED
    BY <1>4, <1>6, <2>1, <2>2
<1>10. cmd # <<>> /\ cmd[Len(cmd)] = Newline
  BY <1>4
<1> QED
  BY <1>3, <1>7, <1>8, <1>9, <1>10 DEF OneLine, cmd, n

-----------------------------------------------------------------------------
(* The commands of the requests that are sent.                               *)

(* A request that is sent.                                                   *)
Sendable(r) == r \in Requests /\ (r.op \in Routes => Valid(r))

(* The text of a JSON value that a validator lets through.                   *)
LEMMA TextType ==
    ASSUME NEW v, IsValue(v), v.type \in {"string", "integer", "boolean"}
    PROVE  Text(v) \in Seq(Chars)
<1>1. CASE v.type = "string"
  BY <1>1 DEF Text, IsValue
<1>2. CASE v.type = "integer"
  BY <1>2, DigitsAssumption DEF Text, IsValue
<1>3. CASE v.type = "boolean"
  <2>1. v.value \in BOOLEAN
    BY <1>3 DEF IsValue
  <2>2. Text(v) = IF v.value THEN <<"1">> ELSE <<"0">>
    BY <1>3 DEF Text
  <2>3. <<"1">> \in Seq(Chars) /\ <<"0">> \in Seq(Chars)
    BY CharsAssumption
  <2> QED
    BY <2>1, <2>2, <2>3
<1> QED
  BY <1>1, <1>2, <1>3

(* What the commands are made of.                                            *)
Written(v) == v # None /\ Text(v) \in Seq(Chars)

(* The validators let only such values through.                              *)
LEMMA WrittenOf ==
    ASSUME NEW v, v # None => IsValue(v)
    PROVE  /\ \A S : IsText(v, S) => Written(v)
           /\ \A S : IsInteger(v, S) => Written(v)
           /\ IsBoolean(v) => Written(v)
           /\ \A S : IsOneOf(v, S) => Written(v)
BY TextType DEF Written, IsText, IsInteger, IsBoolean, IsOneOf

(* A field that may be left out has a text by its default.                   *)
LEMMA OrType ==
    ASSUME NEW v, v = None \/ Written(v), NEW d \in Seq(Chars)
    PROVE  Or(v, d) \in Seq(Chars)
BY DEF Or, Written

(* A parameter that may be left out is one or none.                          *)
LEMMA GivenType ==
    ASSUME NEW v, v = None \/ Written(v), NEW key
    PROVE  \/ Given(key, v) = <<>>
           \/ Given(key, v) = <<<<key, Text(v)>>>> /\ Text(v) \in Seq(Chars)
BY DEF Given, Written

(* The defaults are texts.                                                   *)
LEMMA Numbers ==
    /\ Digits[0] \in Seq(Chars) /\ Digits[4] \in Seq(Chars) /\ Digits[5] \in Seq(Chars)
    /\ <<"0">> \in Seq(Chars) /\ <<>> \in Seq(Chars)
BY DigitsAssumption, CharsAssumption

(* The fields a route requires hold a text, and so do the others if given.   *)
LEMMA FieldTypes ==
    ASSUME NEW r, Sendable(r)
    PROVE  LET b == r.body
               Opt(f) == b[f] = None \/ Written(b[f])
           IN  /\ r.op \in Routes \cup {"clientDetails"}
               /\ r.op = "clientDetails" => Written(b["clientId"])
               /\ r.op = "channelCreate" => Written(b["name"]) /\ Opt("parentId") /\ Opt("order")
               /\ r.op = "channelEdit" => Written(b["channelId"]) /\ Opt("name") /\ Opt("topic") /\ Opt("description")
               /\ r.op = "channelDelete" => Written(b["channelId"]) /\ Opt("force")
               /\ r.op = "channelMove" => Written(b["channelId"]) /\ Opt("parentId") /\ Opt("order")
               /\ r.op = "kickClient" => Written(b["clientId"]) /\ Opt("reason") /\ Opt("kickFrom")
               /\ r.op = "banClient" => Written(b["clientId"]) /\ Opt("reason") /\ Opt("timeSeconds")
               /\ r.op = "moveClient" => Written(b["clientId"]) /\ Written(b["channelId"])
               /\ r.op = "pokeClient" => Written(b["clientId"]) /\ Written(b["message"])
<1> DEFINE b == r.body
           Opt(f) == b[f] = None \/ Written(b[f])
<1>1. /\ r.op \in Routes \cup {"clientDetails"}
      /\ b # None => \A f \in Fields : b[f] # None => IsValue(b[f])
      /\ r.op = "clientDetails" => b # None /\ b["clientId"] # None /\ b["clientId"].type = "integer"
  BY RequestsAssumption DEF Sendable
<1>2. r.op \in Routes => Valid(r)
  BY DEF Sendable
<1>3. ASSUME b # None, NEW f \in Fields
      PROVE  /\ \A S : IsText(b[f], S) => Written(b[f])
             /\ \A S : IsInteger(b[f], S) => Written(b[f])
             /\ IsBoolean(b[f]) => Written(b[f])
             /\ \A S : IsOneOf(b[f], S) => Written(b[f])
  BY <1>1, <1>3, WrittenOf
<1>4. r.op = "clientDetails" => Written(b["clientId"])
  <2> SUFFICES ASSUME r.op = "clientDetails" PROVE Written(b["clientId"])
    OBVIOUS
  <2>1. IsValue(b["clientId"]) /\ b["clientId"] # None /\ b["clientId"].type = "integer"
    BY <1>1 DEF Fields
  <2> QED
    BY <2>1, TextType DEF Written
<1>5. r.op = "channelCreate" => Written(b["name"]) /\ Opt("parentId") /\ Opt("order")
  BY <1>2, <1>3 DEF Valid, Routes, Fields
<1>6. r.op = "channelEdit" => Written(b["channelId"]) /\ Opt("name") /\ Opt("topic") /\ Opt("description")
  BY <1>2, <1>3 DEF Valid, Routes, Fields
<1>7. r.op = "channelDelete" => Written(b["channelId"]) /\ Opt("force")
  BY <1>2, <1>3 DEF Valid, Routes, Fields
<1>8. r.op = "channelMove" => Written(b["channelId"]) /\ Opt("parentId") /\ Opt("order")
  BY <1>2, <1>3 DEF Valid, Routes, Fields
<1>9. r.op = "kickClient" => Written(b["clientId"]) /\ Opt("reason") /\ Opt("kickFrom")
  BY <1>2, <1>3 DEF Valid, Routes, Fields
<1>10. r.op = "banClient" => Written(b["clientId"]) /\ Opt("reason") /\ Opt("timeSeconds")
  BY <1>2, <1>3 DEF Valid, Routes, Fields
<1>11. r.op = "moveClient" => Written(b["clientId"]) /\ Written(b["channelId"])
  BY <1>2, <1>3 DEF Valid, Routes, Fields
<1>12. r.op = "pokeClient" => Written(b["clientId"]) /\ Written(b["message"])
  BY <1>2, <1>3 DEF Valid, Routes, Fields
<1> QED
  BY <1>1, <1>4, <1>5, <1>6, <1>7, <1>8, <1>9, <1>10, <1>11, <1>12

(* A list of parameters whose keys are from K, each once.                    *)
Fit(params, K) == params \in ParamLists /\ DistinctKeys(params) /\ \A i \in DOMAIN params : params[i][1] \in K

(* Lists of parameters, by their lengths.                                    *)
LEMMA NoParams == \A K : Fit(<<>>, K)
BY DEF Fit, ParamLists, DistinctKeys

(* One parameter.                                                            *)
LEMMA OneParam ==
    ASSUME NEW key \in Keys, NEW v \in Seq(Chars)
    PROVE  Fit(<<<<key, v>>>>, {key})
<1> DEFINE a == <<key, v>>
           ps == <<a>>
<1>1. a \in Keys \X Seq(Chars) /\ a[1] = key
  OBVIOUS
<1> HIDE DEF a
<1>2. ps \in Seq(Keys \X Seq(Chars)) /\ DOMAIN ps = {1} /\ ps[1] = a
  BY <1>1
<1> HIDE DEF ps
<1>3. Fit(ps, {key})
  BY <1>1, <1>2 DEF Fit, ParamLists, DistinctKeys
<1> QED
  BY <1>3 DEF a, ps

(* One more, with another key.                                               *)
LEMMA MoreParams ==
    ASSUME NEW params, NEW K, Fit(params, K), NEW key \in Keys, key \notin K, NEW v \in Seq(Chars)
    PROVE  Fit(params \o <<<<key, v>>>>, K \cup {key})
<1> DEFINE a == <<key, v>>
           n == Len(params)
           ps == params \o <<a>>
<1>1. a \in Keys \X Seq(Chars) /\ a[1] = key
  OBVIOUS
<1> HIDE DEF a
<1>2. /\ params \in Seq(Keys \X Seq(Chars)) /\ DOMAIN params = 1..n /\ n \in Nat
      /\ \A i \in 1..n : params[i][1] \in K
      /\ \A i, j \in 1..n : params[i][1] = params[j][1] => i = j
  <2>1. params \in Seq(Keys \X Seq(Chars))
    BY DEF Fit, ParamLists
  <2>2. DOMAIN params = 1..n /\ n \in Nat
    BY <2>1
  <2> QED
    BY <2>1, <2>2 DEF Fit, DistinctKeys
<1> HIDE DEF n
<1>3. /\ ps \in Seq(Keys \X Seq(Chars)) /\ DOMAIN ps = 1..(n + 1) /\ ps[n + 1] = a
      /\ \A i \in 1..n : ps[i] = params[i]
  <2>1. ps \in Seq(Keys \X Seq(Chars)) /\ Len(ps) = n + 1
    BY <1>1, <1>2 DEF n
  <2>2. ps[n + 1] = a /\ \A i \in 1..n : ps[i] = params[i]
    BY <1>1, <1>2 DEF n
  <2> HIDE DEF ps
  <2>3. DOMAIN ps = 1..(n + 1)
    BY <2>1
  <2> QED
    BY <2>1, <2>2, <2>3, Zenon
<1> HIDE DEF ps
<1>4. \A i \in DOMAIN ps : i \in 1..n \/ i = n + 1
  BY <1>2, <1>3
<1>5. DistinctKeys(ps)
  <2> SUFFICES ASSUME NEW i \in DOMAIN ps, NEW j \in DOMAIN ps, ps[i][1] = ps[j][1] PROVE i = j
    BY DEF DistinctKeys
  <2>1. CASE i \in 1..n /\ j \in 1..n
    BY <2>1, <1>2, <1>3
  <2>2. CASE i = n + 1 /\ j \in 1..n
    <3>1. ps[i][1] = key /\ ps[j][1] \in K
      BY <2>2, <1>1, <1>2, <1>3
    <3> QED
      BY <3>1
  <2>3. CASE i \in 1..n /\ j = n + 1
    <3>1. ps[j][1] = key /\ ps[i][1] \in K
      BY <2>3, <1>1, <1>2, <1>3
    <3> QED
      BY <3>1
  <2>4. CASE i = n + 1 /\ j = n + 1
    BY <2>4
  <2> QED
    BY <1>4, <2>1, <2>2, <2>3, <2>4
<1>6. \A i \in DOMAIN ps : ps[i][1] \in K \cup {key}
  BY <1>1, <1>2, <1>3, <1>4
<1>7. Fit(ps, K \cup {key})
  BY <1>3, <1>5, <1>6 DEF Fit, ParamLists
<1> QED
  BY <1>7 DEF ps, a

(* One more that may be left out.                                            *)
LEMMA MoreGiven ==
    ASSUME NEW params, NEW K, Fit(params, K), NEW key \in Keys, key \notin K, NEW v, v = None \/ Written(v)
    PROVE  Fit(params \o Given(key, v), K \cup {key})
<1>1. CASE Given(key, v) = <<>>
  <2>1. params \o <<>> = params
    BY DEF Fit, ParamLists
  <2>2. Fit(params, K \cup {key})
    BY DEF Fit
  <2> QED
    BY <1>1, <2>1, <2>2
<1>2. CASE Given(key, v) = <<<<key, Text(v)>>>> /\ Text(v) \in Seq(Chars)
  <2> DEFINE x == Text(v)
  <2>1. x \in Seq(Chars) /\ Given(key, v) = <<<<key, x>>>>
    BY <1>2
  <2> HIDE DEF x
  <2>2. Fit(params \o <<<<key, x>>>>, K \cup {key})
    BY <2>1, MoreParams
  <2> QED
    BY <2>1, <2>2
<1> QED
  BY <1>1, <1>2, GivenType

(* Two parameters.                                                           *)
LEMMA TwoParams ==
    ASSUME NEW k1 \in Keys, NEW v1 \in Seq(Chars), NEW k2 \in Keys, NEW v2 \in Seq(Chars), k1 # k2
    PROVE  Fit(<<<<k1, v1>>, <<k2, v2>>>>, {k1, k2})
<1> DEFINE a == <<k1, v1>>
           b == <<k2, v2>>
           ps == <<a, b>>
<1>1. a \in Keys \X Seq(Chars) /\ a[1] = k1 /\ b \in Keys \X Seq(Chars) /\ b[1] = k2
  OBVIOUS
<1> HIDE DEF a, b
<1>2. ps \in Seq(Keys \X Seq(Chars)) /\ DOMAIN ps = {1, 2} /\ ps[1] = a /\ ps[2] = b
  BY <1>1
<1> HIDE DEF ps
<1>3. Fit(ps, {k1, k2})
  BY <1>1, <1>2 DEF Fit, ParamLists, DistinctKeys
<1> QED
  BY <1>3 DEF a, b, ps

(* Three parameters.                                                         *)
LEMMA ThreeParams ==
    ASSUME NEW k1 \in Keys, NEW v1 \in Seq(Chars), NEW k2 \in Keys, NEW v2 \in Seq(Chars),
           NEW k3 \in Keys, NEW v3 \in Seq(Chars), k1 # k2, k1 # k3, k2 # k3
    PROVE  Fit(<<<<k1, v1>>, <<k2, v2>>, <<k3, v3>>>>, {k1, k2, k3})
<1> DEFINE a == <<k1, v1>>
           b == <<k2, v2>>
           c == <<k3, v3>>
           ps == <<a, b, c>>
<1>1. /\ a \in Keys \X Seq(Chars) /\ a[1] = k1
      /\ b \in Keys \X Seq(Chars) /\ b[1] = k2
      /\ c \in Keys \X Seq(Chars) /\ c[1] = k3
  OBVIOUS
<1> HIDE DEF a, b, c
<1>2. /\ ps \in Seq(Keys \X Seq(Chars)) /\ DOMAIN ps = {1, 2, 3}
      /\ ps[1] = a /\ ps[2] = b /\ ps[3] = c
  BY <1>1
<1> HIDE DEF ps
<1>3. Fit(ps, {k1, k2, k3})
  BY <1>1, <1>2 DEF Fit, ParamLists, DistinctKeys
<1> QED
  BY <1>3 DEF a, b, c, ps

(* The name and the parameters of the command of every request that is sent. *)
LEMMA CommandType ==
    ASSUME NEW r, Sendable(r)
    PROVE  Command(r)[1] \in Commands /\ \E K : Fit(Command(r)[2], K)
<1> DEFINE b == r.body
           Opt(f) == b[f] = None \/ Written(b[f])
           Fine(c) == c[1] \in Commands /\ \E K : Fit(c[2], K)
<1>1. r.op \in Routes \cup {"clientDetails"}
  BY FieldTypes
<1>2. CASE r.op \in {"status", "clients", "channels"}
  <2>1. Command(r)[1] \in Commands /\ Command(r)[2] = <<>>
    BY <1>2 DEF Command, Commands
  <2> QED
    BY <2>1, NoParams
<1>3. CASE r.op = "clientDetails"
  <2>1. Text(b["clientId"]) \in Seq(Chars)
    BY <1>3, FieldTypes DEF Written
  <2>2. Command(r) = <<"clientinfo", <<<<"clid", Text(b["clientId"])>>>>>>
    BY <1>3 DEF Command
  <2>3. Fit(<<<<"clid", Text(b["clientId"])>>>>, {"clid"})
    BY <2>1, OneParam DEF Keys
  <2> QED
    BY <2>2, <2>3 DEF Commands
<1>4. CASE r.op = "channelCreate"
  <2> DEFINE x == Text(b["name"])
             y == Or(b["parentId"], Digits[0])
             z == Or(b["order"], Digits[0])
  <2>1. x \in Seq(Chars) /\ y \in Seq(Chars) /\ z \in Seq(Chars)
    <3>1. Written(b["name"]) /\ Opt("parentId") /\ Opt("order")
      BY <1>4, FieldTypes
    <3> QED
      BY <3>1, OrType, Numbers DEF Written
  <2>2. Command(r) = <<"channelcreate", <<<<"channel_name", x>>, <<"cpid", y>>, <<"channel_order", z>>>>>>
    BY <1>4 DEF Command
  <2> HIDE DEF x, y, z
  <2>3. Fit(<<<<"channel_name", x>>, <<"cpid", y>>, <<"channel_order", z>>>>, {"channel_name", "cpid", "channel_order"})
    <3>1. /\ "channel_name" \in Keys /\ "cpid" \in Keys /\ "channel_order" \in Keys
          /\ "channel_name" # "cpid" /\ "channel_name" # "channel_order" /\ "cpid" # "channel_order"
      BY DEF Keys
    <3> QED
      BY <2>1, <3>1, ThreeParams, Zenon
  <2> QED
    BY <2>2, <2>3 DEF Commands
<1>5. CASE r.op = "channelEdit"
  <2> DEFINE x == Text(b["channelId"])
             p == <<<<"cid", x>>>>
             q == p \o Given("channel_name", b["name"])
             s == q \o Given("channel_topic", b["topic"])
             t == s \o Given("channel_description", b["description"])
  <2>1. Written(b["channelId"]) /\ Opt("name") /\ Opt("topic") /\ Opt("description")
    BY <1>5, FieldTypes
  <2>2. Command(r) = <<"channeledit", t>>
    BY <1>5 DEF Command
  <2>3. Fit(p, {"cid"})
    BY <2>1, OneParam DEF Keys, Written
  <2> HIDE DEF p
  <2>4. Fit(q, {"cid"} \cup {"channel_name"})
    BY <2>1, <2>3, MoreGiven DEF Keys
  <2> HIDE DEF q
  <2>5. Fit(s, ({"cid"} \cup {"channel_name"}) \cup {"channel_topic"})
    BY <2>1, <2>4, MoreGiven DEF Keys
  <2> HIDE DEF s
  <2>6. Fit(t, (({"cid"} \cup {"channel_name"}) \cup {"channel_topic"}) \cup {"channel_description"})
    BY <2>1, <2>5, MoreGiven DEF Keys
  <2> HIDE DEF t
  <2> QED
    BY <2>2, <2>6 DEF Commands
<1>6. CASE r.op = "channelDelete"
  <2> DEFINE x == Text(b["channelId"])
             y == Or(b["force"], <<"0">>)
  <2>1. x \in Seq(Chars) /\ y \in Seq(Chars)
    <3>1. Written(b["channelId"]) /\ Opt("force")
      BY <1>6, FieldTypes
    <3> QED
      BY <3>1, OrType, Numbers DEF Written
  <2>2. Command(r) = <<"channeldelete", <<<<"cid", x>>, <<"force", y>>>>>>
    BY <1>6 DEF Command
  <2> HIDE DEF x, y
  <2>3. Fit(<<<<"cid", x>>, <<"force", y>>>>, {"cid", "force"})
    BY <2>1, TwoParams DEF Keys
  <2> QED
    BY <2>2, <2>3 DEF Commands
<1>7. CASE r.op = "channelMove"
  <2> DEFINE x == Text(b["channelId"])
             y == Or(b["parentId"], Digits[0])
             z == Or(b["order"], Digits[0])
  <2>1. x \in Seq(Chars) /\ y \in Seq(Chars) /\ z \in Seq(Chars)
    <3>1. Written(b["channelId"]) /\ Opt("parentId") /\ Opt("order")
      BY <1>7, FieldTypes
    <3> QED
      BY <3>1, OrType, Numbers DEF Written
  <2>2. Command(r) = <<"channelmove", <<<<"cid", x>>, <<"cpid", y>>, <<"order", z>>>>>>
    BY <1>7 DEF Command
  <2> HIDE DEF x, y, z
  <2>3. Fit(<<<<"cid", x>>, <<"cpid", y>>, <<"order", z>>>>, {"cid", "cpid", "order"})
    <3>1. /\ "cid" \in Keys /\ "cpid" \in Keys /\ "order" \in Keys
          /\ "cid" # "cpid" /\ "cid" # "order" /\ "cpid" # "order"
      BY DEF Keys
    <3> QED
      BY <2>1, <3>1, ThreeParams, Zenon
  <2> QED
    BY <2>2, <2>3 DEF Commands
<1>8. CASE r.op = "kickClient"
  <2> DEFINE x == Text(b["clientId"])
             y == IF Or(b["kickFrom"], <<"channel">>) = <<"server">> THEN Digits[5] ELSE Digits[4]
             z == Or(b["reason"], <<>>)
  <2>1. x \in Seq(Chars) /\ y \in Seq(Chars) /\ z \in Seq(Chars)
    <3>1. Written(b["clientId"]) /\ Opt("reason")
      BY <1>8, FieldTypes
    <3>2. y \in Seq(Chars)
      BY Numbers
    <3> QED
      BY <3>1, <3>2, OrType, Numbers DEF Written
  <2>2. Command(r) = <<"clientkick", <<<<"clid", x>>, <<"reasonid", y>>, <<"reasonmsg", z>>>>>>
    BY <1>8 DEF Command
  <2> HIDE DEF x, y, z
  <2>3. Fit(<<<<"clid", x>>, <<"reasonid", y>>, <<"reasonmsg", z>>>>, {"clid", "reasonid", "reasonmsg"})
    <3>1. /\ "clid" \in Keys /\ "reasonid" \in Keys /\ "reasonmsg" \in Keys
          /\ "clid" # "reasonid" /\ "clid" # "reasonmsg" /\ "reasonid" # "reasonmsg"
      BY DEF Keys
    <3> QED
      BY <2>1, <3>1, ThreeParams, Zenon
  <2> QED
    BY <2>2, <2>3 DEF Commands
<1>9. CASE r.op = "banClient"
  <2> DEFINE x == Text(b["clientId"])
             y == Or(b["reason"], <<>>)
             z == Or(b["timeSeconds"], Digits[0])
  <2>1. x \in Seq(Chars) /\ y \in Seq(Chars) /\ z \in Seq(Chars)
    <3>1. Written(b["clientId"]) /\ Opt("reason") /\ Opt("timeSeconds")
      BY <1>9, FieldTypes
    <3> QED
      BY <3>1, OrType, Numbers DEF Written
  <2>2. Command(r) = <<"banclient", <<<<"clid", x>>, <<"banreason", y>>, <<"time", z>>>>>>
    BY <1>9 DEF Command
  <2> HIDE DEF x, y, z
  <2>3. Fit(<<<<"clid", x>>, <<"banreason", y>>, <<"time", z>>>>, {"clid", "banreason", "time"})
    <3>1. /\ "clid" \in Keys /\ "banreason" \in Keys /\ "time" \in Keys
          /\ "clid" # "banreason" /\ "clid" # "time" /\ "banreason" # "time"
      BY DEF Keys
    <3> QED
      BY <2>1, <3>1, ThreeParams, Zenon
  <2> QED
    BY <2>2, <2>3 DEF Commands
<1>10. CASE r.op = "moveClient"
  <2> DEFINE x == Text(b["clientId"])
             y == Text(b["channelId"])
  <2>1. x \in Seq(Chars) /\ y \in Seq(Chars)
    BY <1>10, FieldTypes DEF Written
  <2>2. Command(r) = <<"clientmove", <<<<"clid", x>>, <<"cid", y>>>>>>
    BY <1>10 DEF Command
  <2> HIDE DEF x, y
  <2>3. Fit(<<<<"clid", x>>, <<"cid", y>>>>, {"clid", "cid"})
    BY <2>1, TwoParams DEF Keys
  <2> QED
    BY <2>2, <2>3 DEF Commands
<1>11. CASE r.op = "pokeClient"
  <2> DEFINE x == Text(b["clientId"])
             y == Text(b["message"])
  <2>1. x \in Seq(Chars) /\ y \in Seq(Chars)
    BY <1>11, FieldTypes DEF Written
  <2>2. Command(r) = <<"clientpoke", <<<<"clid", x>>, <<"msg", y>>>>>>
    BY <1>11 DEF Command
  <2> HIDE DEF x, y
  <2>3. Fit(<<<<"clid", x>>, <<"msg", y>>>>, {"clid", "msg"})
    BY <2>1, TwoParams DEF Keys
  <2> QED
    BY <2>2, <2>3 DEF Commands
<1> QED
  BY <1>1, <1>2, <1>3, <1>4, <1>5, <1>6, <1>7, <1>8, <1>9, <1>10, <1>11 DEF Routes

-----------------------------------------------------------------------------
(* The theorem.                                                              *)

(* The line is the command of the request, which is one that is sent.        *)
SentAsBuilt ==
    line # <<>> => Sendable(request) /\ line = BuildCommand(Command(request)[1], Command(request)[2])

SInv == request \in Requests /\ SentAsBuilt

(* Nothing has been sent at first.                                           *)
LEMMA InitSInv == Init => SInv
BY DEF Init, SInv, SentAsBuilt

(* The invariant is inductive.                                               *)
LEMMA NextSInv == SInv /\ [Next]_vars => SInv'
<1> SUFFICES ASSUME SInv, [Next]_vars PROVE SInv'
  OBVIOUS
<1> USE DEF SInv, SentAsBuilt
<1>1. CASE Refuse
  BY <1>1 DEF Refuse
<1>2. CASE Send
  <2>1. line' = BuildCommand(Command(request)[1], Command(request)[2]) /\ request' = request
    BY <1>2 DEF Send
  <2>2. Sendable(request)
    BY <1>2 DEF Send, Sendable
  <2> QED
    BY <2>1, <2>2
<1>3. CASE Reply
  BY <1>3 DEF Reply
<1>4. CASE Resolve
  BY <1>4 DEF Resolve
<1>5. CASE UNCHANGED vars
  BY <1>5 DEF vars
<1> QED
  BY <1>1, <1>2, <1>3, <1>4, <1>5 DEF Next

(* The invariant implies the property.                                       *)
LEMMA SInvOneLine == SInv => CommandIsOneLine
<1> SUFFICES ASSUME SInv, line # <<>> PROVE CommandIsOneLine
  BY DEF CommandIsOneLine
<1> DEFINE name == Command(request)[1]
           params == Command(request)[2]
           read == ParseKeyValue(SubSeq(line, 3, Len(line) - 1))
<1>1. Sendable(request) /\ line = BuildCommand(name, params)
  BY DEF SInv, SentAsBuilt
<1>2. name \in Commands /\ params \in ParamLists /\ DistinctKeys(params)
  BY <1>1, CommandType DEF Fit
<1>3. DOMAIN params = 1..Len(params)
  BY <1>2 DEF ParamLists
<1>4. OneLine(line, params)
  <2> HIDE DEF name, params
  <2> QED
    BY <1>1, <1>2, CommandLine
<1>5. Covers(read, params, Len(params))
  <2> HIDE DEF name, params
  <2>1. Covers(ParseKeyValue(TextOf(name, params)), params, Len(params))
    BY <1>2, ReadCommand
  <2>2. TextOf(name, params) = SubSeq(line, 3, Len(line) - 1)
    BY <1>1 DEF TextOf
  <2> QED
    BY <2>1, <2>2
<1> HIDE DEF read, params, name
<1>6. DOMAIN read = {<<params[i][1]>> : i \in DOMAIN params}
  BY <1>3, <1>5 DEF Covers
<1>7. \A i \in DOMAIN params : read[<<params[i][1]>>] = params[i][2]
  BY <1>3, <1>5 DEF Covers
<1>8. /\ {i \in DOMAIN line : line[i] \in Blanks \ {Space}} = {Len(line)}
      /\ line[Len(line)] = Newline
      /\ Cardinality({i \in DOMAIN line : line[i] = Space}) = Len(params)
      /\ \A i \in DOMAIN line : line[i] # "|"
  BY <1>4 DEF OneLine
<1> QED
  BY <1>6, <1>7, <1>8, Zenon DEF CommandIsOneLine, read, params

(* Whatever the texts of a request hold, the line that is sent is one        *)
(* command, and its parameters are read back as what they were.              *)
THEOREM LineSafety == Spec => []CommandIsOneLine
<1>1. Spec => []SInv
  BY InitSInv, NextSInv, PTL DEF Spec
<1> QED
  BY <1>1, SInvOneLine, PTL

-----------------------------------------------------------------------------
(* Reading a sequence step by step.                                          *)

(* F makes a state of a state and a member.                                  *)
Machine(F, S, A) == F \in [S \X A -> S]

(* What the function F makes of s by the members of v, one after the other.  *)
After(F, s, v) ==
    LET g[i \in 0..Len(v)] == IF i = 0 THEN s ELSE F[<<g[i - 1], v[i]>>]
    IN  g[Len(v)]

(* g[i] is what it has made of the first i members.                          *)
AfterSteps(F, s, v, g) == g[0] = s /\ \A i \in 1..Len(v) : g[i] = F[<<g[i - 1], v[i]>>]

(* After() makes these steps.                                                *)
LEMMA AfterRun ==
    ASSUME NEW S, NEW A, NEW F, Machine(F, S, A), NEW s \in S, NEW v \in Seq(A)
    PROVE  \E g \in [0..Len(v) -> S] : AfterSteps(F, s, v, g) /\ After(F, s, v) = g[Len(v)]
<1> DEFINE n == Len(v)
           G == [x \in S \X (1..n) |-> F[<<x[1], v[x[2]]>>]]
           P(g) == g = [i \in 0..n |-> IF i = 0 THEN s ELSE F[<<g[i - 1], v[i]>>]]
<1>1. n \in Nat /\ \A i \in 1..n : v[i] \in A
  OBVIOUS
<1>2. G \in [S \X (1..n) -> S] /\ \A x \in S, i \in 1..n : G[<<x, i>>] = F[<<x, v[i]>>]
  BY <1>1 DEF Machine
<1> DEFINE r == CHOOSE f : P(f)
<1>3. After(F, s, v) = r[n]
  BY DEF After
<1> HIDE DEF G, r
<1>4. PICK g \in [0..n -> S] : Steps(G, s, g, n)
  BY <1>1, <1>2, StepsExist
<1> HIDE DEF n
<1>5. g[0] = s /\ \A i \in 1..n : g[i] = F[<<g[i - 1], v[i]>>]
  <2>1. g[0] = s /\ \A i \in 1..n : g[i] = G[<<g[i - 1], i>>]
    BY <1>4 DEF Steps
  <2>2. \A i \in 1..n : g[i - 1] \in S
    BY <1>1
  <2> QED
    BY <1>2, <2>1, <2>2
<1>6. \A i \in 0..n : i = 0 \/ i \in 1..n
  BY <1>1
<1>7. P(g)
  <2>1. \A i \in 0..n : g[i] = IF i = 0 THEN s ELSE F[<<g[i - 1], v[i]>>]
    BY <1>5, <1>6
  <2> QED
    BY <2>1
<1>8. P(r)
  BY <1>7 DEF r
<1>9. r[0] = s /\ \A i \in 1..n : r[i] = F[<<r[i - 1], v[i]>>]
  <2>1. \A i \in 0..n : r[i] = IF i = 0 THEN s ELSE F[<<r[i - 1], v[i]>>]
    BY <1>8
  <2>2. 0 \in 0..n /\ \A i \in 1..n : i \in 0..n /\ i # 0
    BY <1>1
  <2> QED
    BY <2>1, <2>2
<1>10. \A i \in 0..n : r[i] = g[i]
  <2> DEFINE T == {i \in 0..n : r[i] = g[i]}
  <2>1. 0 \in T
    BY <1>1, <1>5, <1>9
  <2>2. ASSUME NEW i \in 1..n, i - 1 \in T PROVE i \in T
    <3>1. i \in 0..n /\ r[i - 1] = g[i - 1]
      BY <1>1, <2>2
    <3>2. r[i] = F[<<r[i - 1], v[i]>>] /\ g[i] = F[<<g[i - 1], v[i]>>]
      BY <1>5, <1>9
    <3> QED
      BY <3>1, <3>2
  <2> HIDE DEF T
  <2>3. \A i \in 0..n : i \in T
    BY <1>1, <2>1, <2>2, UpTo, Zenon
  <2> QED
    BY <2>3 DEF T
<1>11. n \in 0..n
  BY <1>1
<1> QED
  BY <1>3, <1>4, <1>5, <1>10, <1>11 DEF AfterSteps, n

(* There is one way to make them.                                            *)
LEMMA AfterIs ==
    ASSUME NEW S, NEW A, NEW F, Machine(F, S, A), NEW s \in S, NEW v \in Seq(A),
           NEW h, AfterSteps(F, s, v, h)
    PROVE  After(F, s, v) = h[Len(v)]
<1> DEFINE n == Len(v)
<1>1. PICK g \in [0..n -> S] : AfterSteps(F, s, v, g) /\ After(F, s, v) = g[n]
  BY AfterRun
<1>2. n \in Nat /\ n \in 0..n
  OBVIOUS
<1> DEFINE T == {i \in 0..n : h[i] = g[i]}
<1>3. 0 \in T
  BY <1>1, <1>2 DEF AfterSteps
<1>4. ASSUME NEW i \in 1..n, i - 1 \in T PROVE i \in T
  <2>1. g[i] = F[<<g[i - 1], v[i]>>] /\ h[i] = F[<<h[i - 1], v[i]>>]
    BY <1>1 DEF AfterSteps
  <2>2. i \in 0..n /\ h[i - 1] = g[i - 1]
    BY <1>2, <1>4
  <2> QED
    BY <2>1, <2>2
<1> HIDE DEF T, n
<1>5. \A i \in 0..n : i \in T
  BY <1>2, <1>3, <1>4, UpTo, Zenon
<1> QED
  BY <1>1, <1>2, <1>5 DEF T, n

(* Its type.                                                                 *)
LEMMA AfterType ==
    ASSUME NEW S, NEW A, NEW F, Machine(F, S, A), NEW s \in S, NEW v \in Seq(A)
    PROVE  After(F, s, v) \in S
<1>1. PICK g \in [0..Len(v) -> S] : After(F, s, v) = g[Len(v)]
  BY AfterRun
<1>2. Len(v) \in 0..Len(v)
  OBVIOUS
<1> QED
  BY <1>1, <1>2

(* Nothing, and one member.                                                  *)
LEMMA AfterOne ==
    ASSUME NEW S, NEW A, NEW F, Machine(F, S, A), NEW s \in S, NEW c \in A
    PROVE  After(F, s, <<>>) = s /\ After(F, s, <<c>>) = F[<<s, c>>]
<1>1. After(F, s, <<>>) = s
  <2> DEFINE w == <<>>
  <2>1. w \in Seq(A) /\ Len(w) = 0
    OBVIOUS
  <2> HIDE DEF w
  <2>2. PICK g \in [0..Len(w) -> S] : AfterSteps(F, s, w, g) /\ After(F, s, w) = g[Len(w)]
    <3>1. w \in Seq(A)
      BY <2>1
    <3> QED
      BY <3>1, AfterRun
  <2> QED
    BY <2>1, <2>2 DEF AfterSteps, w
<1>2. After(F, s, <<c>>) = F[<<s, c>>]
  <2> DEFINE w == <<c>>
  <2>1. w \in Seq(A) /\ Len(w) = 1 /\ w[1] = c
    OBVIOUS
  <2> HIDE DEF w
  <2>2. PICK g \in [0..Len(w) -> S] : AfterSteps(F, s, w, g) /\ After(F, s, w) = g[Len(w)]
    <3>1. w \in Seq(A)
      BY <2>1
    <3> QED
      BY <3>1, AfterRun
  <2>3. g[0] = s /\ g[1] = F[<<g[1 - 1], w[1]>>]
    BY <2>1, <2>2 DEF AfterSteps
  <2> QED
    BY <2>1, <2>2, <2>3 DEF w
<1> QED
  BY <1>1, <1>2

(* One sequence after the other.                                             *)
LEMMA AfterConcat ==
    ASSUME NEW S, NEW A, NEW F, Machine(F, S, A), NEW s \in S, NEW v \in Seq(A), NEW w \in Seq(A)
    PROVE  After(F, s, v \o w) = After(F, After(F, s, v), w)
<1> DEFINE n == Len(v)
           m == Len(w)
           t == After(F, s, v)
           x == v \o w
<1>1. PICK g \in [0..n -> S] : AfterSteps(F, s, v, g) /\ t = g[n]
  BY AfterRun
<1>2. t \in S
  BY AfterType
<1>3. PICK h \in [0..m -> S] : AfterSteps(F, t, w, h) /\ After(F, t, w) = h[m]
  BY <1>2, AfterRun
<1>4. /\ n \in Nat /\ m \in Nat /\ x \in Seq(A) /\ Len(x) = n + m
      /\ \A i \in 1..n : x[i] = v[i]
      /\ \A i \in 1..m : x[n + i] = w[i]
  OBVIOUS
<1> HIDE DEF x, n, m, t
<1> DEFINE k == [i \in 0..(n + m) |-> IF i <= n THEN g[i] ELSE h[i - n]]
<1>5. k[n + m] = h[m] /\ k[0] = s
  <2>1. g[0] = s /\ h[0] = t
    BY <1>1, <1>3 DEF AfterSteps
  <2> QED
    BY <2>1, <1>1, <1>4
<1>6. \A i \in 1..(n + m) : k[i] = F[<<k[i - 1], x[i]>>]
  <2> SUFFICES ASSUME NEW i \in 1..(n + m) PROVE k[i] = F[<<k[i - 1], x[i]>>]
    OBVIOUS
  <2>1. CASE i <= n
    <3>1. i \in 1..n /\ k[i] = g[i] /\ k[i - 1] = g[i - 1]
      BY <2>1, <1>4
    <3>2. g[i] = F[<<g[i - 1], v[i]>>]
      BY <3>1, <1>1 DEF AfterSteps, n
    <3> QED
      BY <3>1, <3>2, <1>4
  <2>2. CASE i > n
    <3> DEFINE j == i - n
    <3>1. j \in 1..m /\ n + j = i /\ k[i] = h[j]
      BY <2>2, <1>4
    <3>2. k[i - 1] = h[j - 1]
      <4>1. CASE j = 1
        BY <4>1, <3>1, <1>1, <1>3, <1>4 DEF AfterSteps
      <4>2. CASE j # 1
        BY <4>2, <3>1, <1>4
      <4> QED
        BY <4>1, <4>2
    <3> HIDE DEF j, k
    <3>3. h[j] = F[<<h[j - 1], w[j]>>]
      BY <3>1, <1>3 DEF AfterSteps, m
    <3>4. x[i] = w[j]
      BY <3>1, <1>4
    <3> QED
      BY <3>1, <3>2, <3>3, <3>4
  <2> QED
    BY <2>1, <2>2, <1>4
<1> HIDE DEF k
<1>7. AfterSteps(F, s, x, k)
  BY <1>4, <1>5, <1>6 DEF AfterSteps
<1>8. After(F, s, x) = k[Len(x)]
  <2>1. x \in Seq(A)
    BY <1>4
  <2> QED
    BY <2>1, <1>7, AfterIs
<1> QED
  BY <1>3, <1>4, <1>5, <1>8 DEF x, t

-----------------------------------------------------------------------------
(* The steps of parseRawResponse().                                          *)

(* What it has read of the raw text: the lines, and the text since the last. *)
Trimmed    == {Trim(t) : t \in Seq(AllChars)}
LineStates == [lines : Seq(Trimmed), text : Seq(AllChars)]
LineStart  == [lines |-> <<>>, text |-> <<>>]
LineF      == [x \in LineStates \X AllChars |-> LineChar(x[1], x[2])]

(* What it has read of a line: the entries, and the text since the last bar. *)
Parses      == {ParseKeyValue(t) : t \in Seq(AllChars)}
EntryStates == [entries : Seq(Parses), text : Seq(AllChars)]
EntryStart  == [entries |-> <<>>, text |-> <<>>]
EntryF      == [x \in EntryStates \X AllChars |-> EntryChar(x[1], x[2])]

LineAt(lines, text) == [lines |-> lines, text |-> text]
Grown(lines, c) == IF c = <<>> THEN lines ELSE Append(lines, c)
EntryAt(entries, text) == [entries |-> entries, text |-> text]

(* A character belongs to the line, or ends it.                              *)
LEMMA LineCases ==
    ASSUME NEW L, NEW t, NEW c
    PROVE  /\ c = Newline => LineChar(LineAt(L, t), c) = LineAt(Kept(LineAt(L, t)), <<>>)
           /\ c # Newline => LineChar(LineAt(L, t), c) = LineAt(L, Append(t, c))
           /\ Kept(LineAt(L, t)) = Grown(L, Trim(t))
<1>1. c = Newline => LineChar(LineAt(L, t), c) = LineAt(Kept(LineAt(L, t)), <<>>)
  BY DEF LineChar, LineAt
<1>2. c # Newline => LineChar(LineAt(L, t), c) = LineAt(L, Append(t, c))
  BY DEF LineChar, LineAt
<1>3. Kept(LineAt(L, t)) = Grown(L, Trim(t))
  BY DEF Kept, LineAt, Grown
<1> QED
  BY <1>1, <1>2, <1>3

(* Or to the entry.                                                          *)
LEMMA EntryCases ==
    ASSUME NEW E, NEW t, NEW c
    PROVE  /\ c = "|" => EntryChar(EntryAt(E, t), c) = EntryAt(Append(E, ParseKeyValue(t)), <<>>)
           /\ c # "|" => EntryChar(EntryAt(E, t), c) = EntryAt(E, Append(t, c))
           /\ Parsed(EntryAt(E, t)) = Append(E, ParseKeyValue(t))
<1>1. c = "|" => EntryChar(EntryAt(E, t), c) = EntryAt(Append(E, ParseKeyValue(t)), <<>>)
  BY DEF EntryChar, EntryAt, Parsed
<1>2. c # "|" => EntryChar(EntryAt(E, t), c) = EntryAt(E, Append(t, c))
  BY DEF EntryChar, EntryAt
<1>3. Parsed(EntryAt(E, t)) = Append(E, ParseKeyValue(t))
  BY DEF Parsed, EntryAt
<1> QED
  BY <1>1, <1>2, <1>3

(* A character keeps the types.                                              *)
LEMMA LineFType == Machine(LineF, LineStates, AllChars) /\ LineStart \in LineStates
<1>1. \A x \in Seq(Trimmed), y \in Seq(AllChars) : LineAt(x, y) \in LineStates
  BY DEF LineStates, LineAt
<1>2. ASSUME NEW s \in LineStates, NEW c \in AllChars PROVE LineChar(s, c) \in LineStates
  <2>1. PICK x \in Seq(Trimmed), y \in Seq(AllChars) : s = LineAt(x, y)
    BY DEF LineStates, LineAt
  <2>2. Trim(y) \in Trimmed
    BY DEF Trimmed
  <2>3. Append(x, Trim(y)) \in Seq(Trimmed) /\ Append(y, c) \in Seq(AllChars) /\ <<>> \in Seq(AllChars)
    BY <2>2
  <2>4. Kept(s) \in Seq(Trimmed)
    BY <2>1, <2>3, LineCases DEF Grown
  <2>5. LineChar(s, c) \in {LineAt(Kept(s), <<>>), LineAt(x, Append(y, c))}
    BY <2>1, LineCases
  <2> QED
    BY <1>1, <2>3, <2>4, <2>5
<1>3. LineStart \in LineStates
  BY DEF LineStart, LineStates
<1> QED
  BY <1>2, <1>3 DEF Machine, LineF

(* So does one of a line.                                                    *)
LEMMA EntryFType == Machine(EntryF, EntryStates, AllChars) /\ EntryStart \in EntryStates
<1>1. \A x \in Seq(Parses), y \in Seq(AllChars) : EntryAt(x, y) \in EntryStates
  BY DEF EntryStates, EntryAt
<1>2. ASSUME NEW s \in EntryStates, NEW c \in AllChars PROVE EntryChar(s, c) \in EntryStates
  <2>1. PICK x \in Seq(Parses), y \in Seq(AllChars) : s = EntryAt(x, y)
    BY DEF EntryStates, EntryAt
  <2>2. ParseKeyValue(y) \in Parses
    BY DEF Parses
  <2>3. Append(x, ParseKeyValue(y)) \in Seq(Parses) /\ Append(y, c) \in Seq(AllChars) /\ <<>> \in Seq(AllChars)
    BY <2>2
  <2>4. EntryChar(s, c) \in {EntryAt(Append(x, ParseKeyValue(y)), <<>>), EntryAt(x, Append(y, c))}
    BY <2>1, EntryCases
  <2> QED
    BY <1>1, <2>3, <2>4
<1>3. EntryStart \in EntryStates
  BY DEF EntryStart, EntryStates
<1> QED
  BY <1>2, <1>3 DEF Machine, EntryF

(* Lines() makes these steps.                                                *)
LEMMA LinesRun ==
    ASSUME NEW v \in Seq(AllChars)
    PROVE  Lines(v) = Kept(After(LineF, LineStart, v))
<1> DEFINE n == Len(v)
           P(g) == g = [i \in 0..n |-> IF i = 0 THEN LineStart ELSE LineChar(g[i - 1], v[i])]
           r == CHOOSE f : P(f)
<1>1. n \in Nat
  OBVIOUS
<1>0. \A i \in 1..n : v[i] \in AllChars
  OBVIOUS
<1>2. Lines(v) = Kept(r[n])
  BY DEF Lines, LineStart
<1> HIDE DEF r
<1>3. Machine(LineF, LineStates, AllChars) /\ LineStart \in LineStates
  BY LineFType
<1>4. PICK g \in [0..n -> LineStates] : AfterSteps(LineF, LineStart, v, g) /\ After(LineF, LineStart, v) = g[n]
  BY <1>3, AfterRun
<1> HIDE DEF n
<1>5. g[0] = LineStart /\ \A i \in 1..n : g[i] = LineChar(g[i - 1], v[i])
  <2>1. g[0] = LineStart /\ \A i \in 1..n : g[i] = LineF[<<g[i - 1], v[i]>>]
    BY <1>4 DEF AfterSteps, n
  <2>2. \A i \in 1..n : g[i - 1] \in LineStates
    BY <1>1
  <2>3. \A x \in LineStates, c \in AllChars : LineF[<<x, c>>] = LineChar(x, c)
    BY DEF LineF
  <2> QED
    BY <1>0, <2>1, <2>2, <2>3
<1>6. P(g)
  <2>1. \A i \in 0..n : i = 0 \/ i \in 1..n
    BY <1>1
  <2>2. \A i \in 0..n : g[i] = IF i = 0 THEN LineStart ELSE LineChar(g[i - 1], v[i])
    BY <1>5, <2>1
  <2> QED
    BY <2>2
<1>7. P(r)
  BY <1>6 DEF r
<1>8. r[0] = LineStart /\ \A i \in 1..n : r[i] = LineChar(r[i - 1], v[i])
  <2>1. \A i \in 0..n : r[i] = IF i = 0 THEN LineStart ELSE LineChar(r[i - 1], v[i])
    BY <1>7
  <2>2. 0 \in 0..n /\ \A i \in 1..n : i \in 0..n /\ i # 0
    BY <1>1
  <2> QED
    BY <2>1, <2>2
<1> DEFINE Same == {i \in 0..n : r[i] = g[i]}
<1>9. 0 \in Same
  BY <1>1, <1>5, <1>8
<1>10. ASSUME NEW i \in 1..n, i - 1 \in Same PROVE i \in Same
  <2>1. i \in 0..n /\ r[i - 1] = g[i - 1]
    BY <1>1, <1>10
  <2>2. r[i] = LineChar(r[i - 1], v[i]) /\ g[i] = LineChar(g[i - 1], v[i])
    BY <1>5, <1>8
  <2> QED
    BY <2>1, <2>2
<1> HIDE DEF Same
<1>11. \A i \in 0..n : i \in Same
  BY <1>1, <1>9, <1>10, UpTo, Zenon
<1>12. r[n] = g[n]
  BY <1>1, <1>11 DEF Same
<1> QED
  BY <1>2, <1>4, <1>12 DEF n

(* Entries() makes these steps.                                              *)
LEMMA EntriesRun ==
    ASSUME NEW v \in Seq(AllChars)
    PROVE  Entries(v) = Parsed(After(EntryF, EntryStart, v))
<1> DEFINE n == Len(v)
           P(g) == g = [i \in 0..n |-> IF i = 0 THEN EntryStart ELSE EntryChar(g[i - 1], v[i])]
           r == CHOOSE f : P(f)
<1>1. n \in Nat
  OBVIOUS
<1>0. \A i \in 1..n : v[i] \in AllChars
  OBVIOUS
<1>2. Entries(v) = Parsed(r[n])
  BY DEF Entries, EntryStart
<1> HIDE DEF r
<1>3. Machine(EntryF, EntryStates, AllChars) /\ EntryStart \in EntryStates
  BY EntryFType
<1>4. PICK g \in [0..n -> EntryStates] : AfterSteps(EntryF, EntryStart, v, g) /\ After(EntryF, EntryStart, v) = g[n]
  BY <1>3, AfterRun
<1> HIDE DEF n
<1>5. g[0] = EntryStart /\ \A i \in 1..n : g[i] = EntryChar(g[i - 1], v[i])
  <2>1. g[0] = EntryStart /\ \A i \in 1..n : g[i] = EntryF[<<g[i - 1], v[i]>>]
    BY <1>4 DEF AfterSteps, n
  <2>2. \A i \in 1..n : g[i - 1] \in EntryStates
    BY <1>1
  <2>3. \A x \in EntryStates, c \in AllChars : EntryF[<<x, c>>] = EntryChar(x, c)
    BY DEF EntryF
  <2> QED
    BY <1>0, <2>1, <2>2, <2>3
<1>6. P(g)
  <2>1. \A i \in 0..n : i = 0 \/ i \in 1..n
    BY <1>1
  <2>2. \A i \in 0..n : g[i] = IF i = 0 THEN EntryStart ELSE EntryChar(g[i - 1], v[i])
    BY <1>5, <2>1
  <2> QED
    BY <2>2
<1>7. P(r)
  BY <1>6 DEF r
<1>8. r[0] = EntryStart /\ \A i \in 1..n : r[i] = EntryChar(r[i - 1], v[i])
  <2>1. \A i \in 0..n : r[i] = IF i = 0 THEN EntryStart ELSE EntryChar(r[i - 1], v[i])
    BY <1>7
  <2>2. 0 \in 0..n /\ \A i \in 1..n : i \in 0..n /\ i # 0
    BY <1>1
  <2> QED
    BY <2>1, <2>2
<1> DEFINE Same == {i \in 0..n : r[i] = g[i]}
<1>9. 0 \in Same
  BY <1>1, <1>5, <1>8
<1>10. ASSUME NEW i \in 1..n, i - 1 \in Same PROVE i \in Same
  <2>1. i \in 0..n /\ r[i - 1] = g[i - 1]
    BY <1>1, <1>10
  <2>2. r[i] = EntryChar(r[i - 1], v[i]) /\ g[i] = EntryChar(g[i - 1], v[i])
    BY <1>5, <1>8
  <2> QED
    BY <2>1, <2>2
<1> HIDE DEF Same
<1>11. \A i \in 0..n : i \in Same
  BY <1>1, <1>9, <1>10, UpTo, Zenon
<1>12. r[n] = g[n]
  BY <1>1, <1>11 DEF Same
<1> QED
  BY <1>2, <1>4, <1>12 DEF n

(* The entries of a line are what its texts are parsed to.                   *)
LEMMA EntriesType ==
    ASSUME NEW t \in Seq(AllChars)
    PROVE  Entries(t) \in Seq(Parses)
<1> DEFINE s == After(EntryF, EntryStart, t)
<1>1. s \in EntryStates
  BY EntryFType, AfterType
<1>2. Entries(t) = Parsed(s)
  BY EntriesRun
<1> HIDE DEF s
<1>3. s.entries \in Seq(Parses) /\ ParseKeyValue(s.text) \in Parses
  BY <1>1 DEF EntryStates, Parses
<1>4. Append(s.entries, ParseKeyValue(s.text)) \in Seq(Parses)
  BY <1>3
<1> QED
  BY <1>2, <1>4 DEF Parsed

(* What it has read of the lines.                                            *)
ErrorIds   == {ErrorId(t) : t \in Seq(AllChars)} \cup {<<>>}
LoopStates == [entries : Seq(Parses), over : BOOLEAN, id : ErrorIds]
LoopF      == [x \in LoopStates \X Seq(AllChars) |-> ReadLine(x[1], x[2])]

(* A line keeps the types.                                                   *)
LEMMA LoopFType == Machine(LoopF, LoopStates, Seq(AllChars)) /\ NoLine \in LoopStates
<1>1. ASSUME NEW s \in LoopStates, NEW t \in Seq(AllChars) PROVE ReadLine(s, t) \in LoopStates
  <2>1. s.entries \in Seq(Parses) /\ s.over \in BOOLEAN /\ s.id \in ErrorIds /\ ErrorId(t) \in ErrorIds
    BY DEF LoopStates, ErrorIds
  <2>2. s.entries \o Entries(t) \in Seq(Parses)
    BY <2>1, EntriesType
  <2>3. [s EXCEPT !.over = TRUE, !.id = ErrorId(t)] \in LoopStates
    BY <2>1 DEF LoopStates
  <2>4. [s EXCEPT !.entries = @ \o Entries(t)] \in LoopStates
    BY <2>2 DEF LoopStates
  <2> QED
    BY <2>3, <2>4 DEF ReadLine
<1>2. NoLine \in LoopStates
  BY DEF NoLine, LoopStates, ErrorIds
<1> QED
  BY <1>1, <1>2 DEF Machine, LoopF

(* The lines, one by one.                                                    *)
LinesOf(v) == After(LoopF, NoLine, v)
ReadLines(v) == LET read[i \in 0..Len(v)] == IF i = 0 THEN NoLine ELSE ReadLine(read[i - 1], v[i]) IN read[Len(v)]

(* The loop over the lines makes these steps.                                *)
LEMMA ReadLinesRun ==
    ASSUME NEW v \in Seq(Seq(AllChars))
    PROVE  ReadLines(v) = LinesOf(v)
<1> DEFINE n == Len(v)
           P(g) == g = [i \in 0..n |-> IF i = 0 THEN NoLine ELSE ReadLine(g[i - 1], v[i])]
           r == CHOOSE f : P(f)
<1>1. n \in Nat
  OBVIOUS
<1>0. \A i \in 1..n : v[i] \in Seq(AllChars)
  OBVIOUS
<1>2. ReadLines(v) = r[n]
  BY DEF ReadLines
<1> HIDE DEF r
<1>3. Machine(LoopF, LoopStates, Seq(AllChars)) /\ NoLine \in LoopStates
  BY LoopFType
<1>4. PICK g \in [0..n -> LoopStates] : AfterSteps(LoopF, NoLine, v, g) /\ After(LoopF, NoLine, v) = g[n]
  BY <1>3, AfterRun
<1> HIDE DEF n
<1>5. g[0] = NoLine /\ \A i \in 1..n : g[i] = ReadLine(g[i - 1], v[i])
  <2>1. g[0] = NoLine /\ \A i \in 1..n : g[i] = LoopF[<<g[i - 1], v[i]>>]
    BY <1>4 DEF AfterSteps, n
  <2>2. \A i \in 1..n : g[i - 1] \in LoopStates
    BY <1>1
  <2>3. \A x \in LoopStates, c \in Seq(AllChars) : LoopF[<<x, c>>] = ReadLine(x, c)
    BY DEF LoopF
  <2> QED
    BY <1>0, <2>1, <2>2, <2>3
<1>6. P(g)
  <2>1. \A i \in 0..n : i = 0 \/ i \in 1..n
    BY <1>1
  <2>2. \A i \in 0..n : g[i] = IF i = 0 THEN NoLine ELSE ReadLine(g[i - 1], v[i])
    BY <1>5, <2>1
  <2> QED
    BY <2>2
<1>7. P(r)
  BY <1>6 DEF r
<1>8. r[0] = NoLine /\ \A i \in 1..n : r[i] = ReadLine(r[i - 1], v[i])
  <2>1. \A i \in 0..n : r[i] = IF i = 0 THEN NoLine ELSE ReadLine(r[i - 1], v[i])
    BY <1>7
  <2>2. 0 \in 0..n /\ \A i \in 1..n : i \in 0..n /\ i # 0
    BY <1>1
  <2> QED
    BY <2>1, <2>2
<1> DEFINE Same == {i \in 0..n : r[i] = g[i]}
<1>9. 0 \in Same
  BY <1>1, <1>5, <1>8
<1>10. ASSUME NEW i \in 1..n, i - 1 \in Same PROVE i \in Same
  <2>1. i \in 0..n /\ r[i - 1] = g[i - 1]
    BY <1>1, <1>10
  <2>2. r[i] = ReadLine(r[i - 1], v[i]) /\ g[i] = ReadLine(g[i - 1], v[i])
    BY <1>5, <1>8
  <2> QED
    BY <2>1, <2>2
<1> HIDE DEF Same
<1>11. \A i \in 0..n : i \in Same
  BY <1>1, <1>9, <1>10, UpTo, Zenon
<1>12. r[n] = g[n]
  BY <1>1, <1>11 DEF Same
<1> QED
  BY <1>2, <1>4, <1>12 DEF n, LinesOf

(* Responses are parsed line by line.                                        *)
LEMMA ParseIs == \A raw : ParseResponse(raw) = ReadLines(Lines(raw))
BY DEF ParseResponse, ReadLines

(* What parseKeyValueLine() reads.                                           *)
ReadF == [x \in ReadStates \X AllChars |-> ReadChar(x[1], x[2])]

(* ParseKeyValue() makes these steps.                                        *)
LEMMA ParseRun ==
    ASSUME NEW t \in Seq(AllChars)
    PROVE  /\ Machine(ReadF, ReadStates, AllChars)
           /\ LET s == After(ReadF, NothingRead, t)
              IN  /\ s \in ReadStates
                  /\ s.esc = FALSE /\ s.key # <<>> => ParseKeyValue(t) = Stored(s)
<1> DEFINE s == After(ReadF, NothingRead, t)
<1>1. Machine(ReadF, ReadStates, AllChars) /\ NothingRead \in ReadStates
  BY ReadCharType, NothingType DEF Machine, ReadF
<1>2. PICK r : ReadSteps(t, r)
  BY ReadRun
<1>3. AfterSteps(ReadF, NothingRead, t, r)
  <2>1. /\ r \in [0..Len(t) -> ReadStates] /\ r[0] = NothingRead
        /\ \A i \in 1..Len(t) : r[i] = ReadChar(r[i - 1], t[i])
    BY <1>2 DEF ReadSteps
  <2>2. \A i \in 1..Len(t) : r[i - 1] \in ReadStates /\ t[i] \in AllChars
    BY <2>1
  <2>3. \A x \in ReadStates, c \in AllChars : ReadF[<<x, c>>] = ReadChar(x, c)
    BY DEF ReadF
  <2>4. \A i \in 1..Len(t) : r[i] = ReadF[<<r[i - 1], t[i]>>]
    BY <2>1, <2>2, <2>3
  <2> QED
    BY <2>1, <2>4 DEF AfterSteps
<1>4. s = r[Len(t)]
  BY <1>1, <1>3, AfterIs
<1>5. s \in ReadStates
  BY <1>1, AfterType
<1> HIDE DEF s
<1>6. s.esc = FALSE /\ s.key # <<>> => ParseKeyValue(t) = Stored(s)
  BY <1>2, <1>4 DEF ReadSteps
<1> QED
  BY <1>1, <1>5, <1>6 DEF s

(* One sequence behind the other.                                            *)
LEMMA BothIs ==
    ASSUME NEW A, NEW v \in Seq(A), NEW w \in Seq(A)
    PROVE  /\ v \o w \in Seq(A) /\ Len(v \o w) = Len(v) + Len(w) /\ Len(v) \in Nat /\ Len(w) \in Nat
           /\ \A i \in 1..Len(v) : (v \o w)[i] = v[i]
           /\ \A i \in 1..Len(w) : (v \o w)[Len(v) + i] = w[i]
OBVIOUS

-----------------------------------------------------------------------------
(* Trimming.                                                                 *)

Solid(c) == c \notin Blanks \cup Wide

(* What is left is between the first and the last character that is no blank. *)
LEMMA TrimBetween ==
    ASSUME NEW A, NEW text \in Seq(A), NEW a \in DOMAIN text, NEW b \in DOMAIN text,
           Solid(text[a]), Solid(text[b]),
           \A i \in DOMAIN text : i < a \/ i > b => ~Solid(text[i])
    PROVE  Trim(text) = SubSeq(text, a, b)
<1> DEFINE S == {i \in DOMAIN text : text[i] \notin Blanks \cup Wide}
           x == CHOOSE i \in S : \A k \in S : i <= k
           y == CHOOSE i \in S : \A k \in S : k <= i
<1>1. DOMAIN text = 1..Len(text) /\ Len(text) \in Nat
  OBVIOUS
<1>2. a \in S /\ b \in S /\ S \subseteq Nat
  BY <1>1 DEF Solid
<1>3. \A k \in S : a <= k /\ k <= b
  BY <1>1 DEF Solid
<1>4. Trim(text) = SubSeq(text, x, y)
  <2>1. S # {}
    BY <1>2
  <2> QED
    BY <2>1 DEF Trim
<1> HIDE DEF S
<1>5. x = a
  <2>1. x \in S /\ \A k \in S : x <= k
    BY <1>2, <1>3
  <2> HIDE DEF x
  <2> QED
    BY <1>2, <1>3, <2>1
<1>6. y = b
  <2>1. y \in S /\ \A k \in S : k <= y
    BY <1>2, <1>3
  <2> HIDE DEF y
  <2> QED
    BY <1>2, <1>3, <2>1
<1> QED
  BY <1>4, <1>5, <1>6

(* Of blanks nothing is left.                                                *)
LEMMA TrimBlanks ==
    ASSUME NEW text \in Seq(Blanks)
    PROVE  Trim(text) = <<>>
<1>1. {i \in DOMAIN text : text[i] \notin Blanks \cup Wide} = {}
  OBVIOUS
<1> QED
  BY <1>1 DEF Trim

(* c is what is left of a line: it begins and ends with no blank.            *)
Core(c) == c # <<>> /\ Solid(c[1]) /\ Solid(c[Len(c)])

(* Of a line between blanks its core is left.                                *)
LEMMA TrimLine ==
    ASSUME NEW c \in Seq(AllChars), Core(c), NEW tail \in Seq(Wide),
           NEW p \in Seq(Blanks), NEW q \in Seq(Blanks)
    PROVE  Trim(p \o (c \o tail) \o q) = c
<1> DEFINE t == p \o (c \o tail) \o q
           n == Len(p)
           m == Len(c)
           B == AllChars \cup Blanks \cup Wide
<1>1. /\ n \in Nat /\ m \in Nat \ {0} /\ Len(tail) \in Nat /\ Len(q) \in Nat
      /\ c \in Seq(B) /\ tail \in Seq(B) /\ p \in Seq(B) /\ q \in Seq(B)
  BY DEF Core
<1>2. /\ t \in Seq(B) /\ Len(t) = n + (m + Len(tail)) + Len(q)
      /\ \A i \in 1..n : t[i] = p[i]
      /\ \A i \in 1..m : t[n + i] = c[i]
      /\ \A i \in 1..Len(tail) : t[n + m + i] = tail[i]
      /\ \A i \in 1..Len(q) : t[n + m + Len(tail) + i] = q[i]
  <2> HIDE DEF B
  <2> DEFINE u == c \o tail
             w == p \o u
  <2>1. /\ u \in Seq(B) /\ Len(u) = m + Len(tail)
        /\ \A i \in 1..m : u[i] = c[i]
        /\ \A i \in 1..Len(tail) : u[m + i] = tail[i]
    BY <1>1, BothIs
  <2> HIDE DEF u
  <2>2. /\ w \in Seq(B) /\ Len(w) = n + Len(u)
        /\ \A i \in 1..n : w[i] = p[i]
        /\ \A i \in 1..Len(u) : w[n + i] = u[i]
    <3>1. p \in Seq(B) /\ u \in Seq(B)
      BY <1>1, <2>1
    <3> QED
      BY <3>1, BothIs
  <2> HIDE DEF w
  <2>3. t = w \o q
    BY DEF w, u
  <2> HIDE DEF t
  <2>4. /\ t \in Seq(B) /\ Len(t) = Len(w) + Len(q)
        /\ \A i \in 1..Len(w) : t[i] = w[i]
        /\ \A i \in 1..Len(q) : t[Len(w) + i] = q[i]
    <3>1. w \in Seq(B) /\ q \in Seq(B)
      BY <1>1, <2>2
    <3> QED
      BY <3>1, <2>3, BothIs
  <2> HIDE DEF n, m
  <2>5. \A i \in 1..n : t[i] = p[i]
    BY <1>1, <2>1, <2>2, <2>4
  <2>6. \A i \in 1..m : t[n + i] = c[i]
    <3> SUFFICES ASSUME NEW i \in 1..m PROVE t[n + i] = c[i]
      OBVIOUS
    <3>1. i \in 1..Len(u) /\ n + i \in 1..Len(w)
      BY <1>1, <2>1, <2>2
    <3> QED
      BY <3>1, <2>1, <2>2, <2>4
  <2>7. \A i \in 1..Len(tail) : t[n + m + i] = tail[i]
    <3> SUFFICES ASSUME NEW i \in 1..Len(tail) PROVE t[n + m + i] = tail[i]
      OBVIOUS
    <3>1. m + i \in 1..Len(u) /\ n + (m + i) \in 1..Len(w) /\ n + m + i = n + (m + i)
      BY <1>1, <2>1, <2>2
    <3>2. t[n + (m + i)] = w[n + (m + i)] /\ w[n + (m + i)] = u[m + i]
      BY <3>1, <2>2, <2>4
    <3> QED
      BY <3>1, <3>2, <2>1
  <2>8. \A i \in 1..Len(q) : t[n + m + Len(tail) + i] = q[i]
    BY <1>1, <2>1, <2>2, <2>4
  <2> QED
    BY <2>1, <2>2, <2>4, <2>5, <2>6, <2>7, <2>8
<1>3. \A i \in 1..n : ~Solid(p[i])
  BY DEF Solid
<1>4. \A i \in 1..Len(tail) : ~Solid(tail[i])
  BY DEF Solid
<1>5. \A i \in 1..Len(q) : ~Solid(q[i])
  BY DEF Solid
<1>6. Solid(c[1]) /\ Solid(c[m])
  BY DEF Core
<1> HIDE DEF t, n, m, B
<1>7. DOMAIN t = 1..Len(t)
  BY <1>2
<1>8. n + 1 \in DOMAIN t /\ n + m \in DOMAIN t
  BY <1>1, <1>2, <1>7
<1>9. Solid(t[n + 1]) /\ Solid(t[n + m])
  <2>1. 1 \in 1..m /\ m \in 1..m
    BY <1>1
  <2> QED
    BY <2>1, <1>2, <1>6
<1>10. ASSUME NEW i \in DOMAIN t, i < n + 1 \/ i > n + m PROVE ~Solid(t[i])
  <2>1. CASE i \in 1..n
    BY <2>1, <1>2, <1>3
  <2>2. CASE i - (n + m) \in 1..Len(tail)
    <3>1. n + m + (i - (n + m)) = i
      BY <1>1, <1>2, <1>7
    <3>2. t[i] = tail[i - (n + m)]
      BY <2>2, <3>1, <1>2
    <3> QED
      BY <2>2, <3>2, <1>4
  <2>3. CASE i - (n + m + Len(tail)) \in 1..Len(q)
    <3>1. n + m + Len(tail) + (i - (n + m + Len(tail))) = i
      BY <1>1, <1>2, <1>7
    <3>2. t[i] = q[i - (n + m + Len(tail))]
      BY <2>3, <3>1, <1>2
    <3> QED
      BY <2>3, <3>2, <1>5
  <2>4. i \in 1..n \/ i - (n + m) \in 1..Len(tail) \/ i - (n + m + Len(tail)) \in 1..Len(q)
    BY <1>10, <1>1, <1>2, <1>7
  <2> QED
    BY <2>1, <2>2, <2>3, <2>4
<1>11. Trim(t) = SubSeq(t, n + 1, n + m)
  BY <1>2, <1>8, <1>9, <1>10, TrimBetween
<1>12. SubSeq(t, n + 1, n + m) = c
  <2> DEFINE s == SubSeq(t, n + 1, n + m)
  <2>1. s \in Seq(B) /\ Len(s) = m /\ \A i \in 1..m : s[i] = t[n + 1 + i - 1]
    BY <1>1, <1>2, <1>7, <1>8
  <2> HIDE DEF s
  <2>2. \A i \in 1..m : s[i] = c[i]
    <3> SUFFICES ASSUME NEW i \in 1..m PROVE s[i] = c[i]
      OBVIOUS
    <3>1. n + 1 + i - 1 = n + i
      BY <1>1
    <3> QED
      BY <3>1, <2>1, <1>2
  <2>3. Len(c) = m /\ c \in Seq(B)
    BY <1>1 DEF m
  <2>4. s = c
    BY <2>1, <2>2, <2>3
  <2> QED
    BY <2>4 DEF s
<1> QED
  BY <1>11, <1>12 DEF t

-----------------------------------------------------------------------------
(* Escaping a text that ends in blanks nobody escapes.                       *)

(* Nothing before or behind a sequence.                                      *)
LEMMA EmptyIs ==
    ASSUME NEW A, NEW x \in Seq(A)
    PROVE  x \o <<>> = x /\ <<>> \o x = x
OBVIOUS

(* A sequence of members of B.                                               *)
LEMMA SeqOf ==
    ASSUME NEW A, NEW B, NEW s \in Seq(A), \A k \in 1..Len(s) : s[k] \in B
    PROVE  s \in Seq(B)
OBVIOUS

(* A function on 1..n is a sequence of length n.                             *)
LEMMA FunctionSeq ==
    ASSUME NEW B, NEW n \in Nat, NEW f \in [1..n -> B]
    PROVE  f \in Seq(B) /\ Len(f) = n
OBVIOUS

(* Two sequences with the same members are the same.                         *)
LEMMA SameSeq ==
    ASSUME NEW A, NEW s \in Seq(A), NEW t \in Seq(A), Len(s) = Len(t), \A k \in 1..Len(s) : s[k] = t[k]
    PROVE  s = t
OBVIOUS

(* The members from a to b.                                                  *)
LEMMA PartIs ==
    ASSUME NEW A, NEW v \in Seq(A), NEW a \in Nat \ {0}, NEW b \in Nat, a <= b + 1, b <= Len(v)
    PROVE  /\ SubSeq(v, a, b) \in Seq(A) /\ Len(SubSeq(v, a, b)) = b + 1 - a
           /\ \A k \in 1..(b + 1 - a) : SubSeq(v, a, b)[k] = v[a - 1 + k]
<1> DEFINE s == SubSeq(v, a, b)
<1>1. s \in Seq(A) /\ Len(s) = IF a <= b THEN b - a + 1 ELSE 0
  OBVIOUS
<1>2. Len(s) = b + 1 - a
  <2> HIDE DEF s
  <2> QED
    BY <1>1
<1>3. \A k \in 1..(b + 1 - a) : s[k] = v[a + k - 1]
  BY <1>2
<1>4. \A k \in 1..(b + 1 - a) : a + k - 1 = a - 1 + k
  OBVIOUS
<1> HIDE DEF s
<1>5. s \in Seq(A) /\ Len(s) = b + 1 - a /\ \A k \in 1..(b + 1 - a) : s[k] = v[a - 1 + k]
  BY <1>1, <1>2, <1>3, <1>4
<1> QED
  BY <1>5 DEF s

(* A sequence is its beginning and the rest.                                 *)
LEMMA CutAt ==
    ASSUME NEW A, NEW v \in Seq(A), NEW m \in 0..Len(v)
    PROVE  v = SubSeq(v, 1, m) \o SubSeq(v, m + 1, Len(v))
<1> DEFINE n == Len(v)
           a == SubSeq(v, 1, m)
           b == SubSeq(v, m + 1, n)
           c == a \o b
<1>1. n \in Nat /\ m \in Nat /\ m <= n
  OBVIOUS
<1>2. a \in Seq(A) /\ Len(a) = m /\ \A k \in 1..m : a[k] = v[k]
  <2>1. 1 \in Nat \ {0} /\ 1 <= m + 1 /\ m + 1 - 1 = m /\ \A k \in 1..m : 1 - 1 + k = k
    BY <1>1
  <2>2. a \in Seq(A) /\ Len(a) = m + 1 - 1 /\ \A k \in 1..(m + 1 - 1) : a[k] = v[1 - 1 + k]
    BY <1>1, <2>1, PartIs
  <2> HIDE DEF a
  <2> QED
    BY <2>1, <2>2
<1>3. b \in Seq(A) /\ Len(b) = n - m /\ \A k \in 1..(n - m) : b[k] = v[m + k]
  <2>1. m + 1 \in Nat \ {0} /\ m + 1 <= n + 1 /\ n + 1 - (m + 1) = n - m /\ \A k \in 1..(n - m) : m + 1 - 1 + k = m + k
    BY <1>1
  <2>2. b \in Seq(A) /\ Len(b) = n + 1 - (m + 1) /\ \A k \in 1..(n + 1 - (m + 1)) : b[k] = v[m + 1 - 1 + k]
    BY <1>1, <2>1, PartIs
  <2> HIDE DEF b
  <2> QED
    BY <2>1, <2>2
<1> HIDE DEF a, b, n
<1>4. c \in Seq(A) /\ Len(c) = n /\ (\A k \in 1..m : c[k] = a[k]) /\ \A k \in 1..(n - m) : c[m + k] = b[k]
  <2>1. /\ c \in Seq(A) /\ Len(c) = Len(a) + Len(b) /\ \A i \in 1..Len(a) : c[i] = a[i]
        /\ \A i \in 1..Len(b) : c[Len(a) + i] = b[i]
    <3>1. a \in Seq(A) /\ b \in Seq(A)
      BY <1>2, <1>3
    <3> QED
      BY <3>1, BothIs
  <2> QED
    BY <2>1, <1>1, <1>2, <1>3
<1> HIDE DEF c
<1>5. ASSUME NEW k \in 1..n PROVE c[k] = v[k]
  <2>1. CASE k \in 1..m
    BY <2>1, <1>2, <1>4
  <2>2. CASE k \notin 1..m
    <3>1. k - m \in 1..(n - m) /\ m + (k - m) = k
      BY <2>2, <1>1
    <3>2. c[m + (k - m)] = b[k - m] /\ b[k - m] = v[m + (k - m)]
      BY <3>1, <1>3, <1>4
    <3> QED
      BY <3>1, <3>2
  <2> QED
    BY <2>1, <2>2
<1>6. c = v
  <2>1. c \in Seq(A) /\ v \in Seq(A) /\ Len(c) = Len(v) /\ \A k \in 1..Len(c) : c[k] = v[k]
    BY <1>4, <1>5 DEF n
  <2> QED
    BY <2>1, SameSeq
<1> QED
  BY <1>6 DEF c, a, b, n

(* The escaped form grows by that of each character.                         *)
EscapeStates == Seq(Clean)
EscapeF == [x \in EscapeStates \X AllChars |-> x[1] \o Escaped(x[2])]

(* Escape() makes these steps.                                               *)
LEMMA EscapeAfter ==
    ASSUME NEW v \in Seq(Chars)
    PROVE  /\ Machine(EscapeF, EscapeStates, AllChars) /\ <<>> \in EscapeStates /\ v \in Seq(AllChars)
           /\ Escape(v) = After(EscapeF, <<>>, v) /\ Escape(v) \in EscapeStates
<1>1. Machine(EscapeF, EscapeStates, AllChars)
  <2>1. \A x \in Seq(Clean), c \in AllChars : x \o Escaped(c) \in Seq(Clean)
    BY EscapedType
  <2>2. \A x \in EscapeStates, c \in AllChars : x \o Escaped(c) \in EscapeStates
    BY <2>1 DEF EscapeStates
  <2> QED
    BY <2>2 DEF Machine, EscapeF
<1>2. PICK e : EscapeSteps(v, e)
  BY EscapeRun
<1>3. /\ e \in [0..Len(v) -> EscapeStates] /\ e[0] = <<>> /\ e[Len(v)] = Escape(v)
      /\ \A i \in 1..Len(v) : e[i] = e[i - 1] \o Escaped(v[i])
  BY <1>2 DEF EscapeSteps, EscapeStates
<1>4. v \in Seq(AllChars) /\ <<>> \in EscapeStates
  BY Alphabet DEF EscapeStates
<1>5. AfterSteps(EscapeF, <<>>, v, e)
  <2>1. \A i \in 1..Len(v) : e[i - 1] \in EscapeStates /\ v[i] \in AllChars
    BY <1>3, <1>4
  <2>2. \A x \in EscapeStates, c \in AllChars : EscapeF[<<x, c>>] = x \o Escaped(c)
    BY DEF EscapeF
  <2>3. \A i \in 1..Len(v) : e[i] = EscapeF[<<e[i - 1], v[i]>>]
    BY <1>3, <2>1, <2>2
  <2> QED
    BY <1>3, <2>3 DEF AfterSteps
<1>6. Escape(v) = After(EscapeF, <<>>, v)
  <2>1. After(EscapeF, <<>>, v) = e[Len(v)]
    BY <1>1, <1>4, <1>5, AfterIs
  <2> QED
    BY <2>1, <1>3
<1>7. Escape(v) \in EscapeStates
  BY <1>1, <1>4, <1>6, AfterType
<1> QED
  BY <1>1, <1>4, <1>6, <1>7

(* The wide blanks are characters that nobody escapes.                       *)
LEMMA WideChars ==
    /\ Wide \subseteq Clean /\ Wide \subseteq AllChars /\ Wide \cap Special = {}
    /\ Wide \cap Letters = {} /\ "=" \notin Wide /\ Blanks \subseteq AllChars
<1>1. Wide \cap Special = {}
  BY DEF Wide, Special, Space, Newline
<1>2. Wide \subseteq AllChars /\ Special \subseteq AllChars
  BY DEF AllChars
<1>3. Wide \cap Letters = {} /\ "=" \notin Wide
  BY DEF Wide, Letters
<1> QED
  BY <1>1, <1>2, <1>3, CleanChars, Disjoint

(* They stay as they are.                                                    *)
LEMMA EscapeTail ==
    ASSUME NEW w \in Seq(Chars), NEW tail \in Seq(Wide), w \o tail \in Seq(Chars)
    PROVE  Escape(w \o tail) = Escape(w) \o tail
<1> DEFINE x == Escape(w)
           n == Len(tail)
           h == [i \in 0..n |-> x \o SubSeq(tail, 1, i)]
<1>1. Machine(EscapeF, EscapeStates, AllChars) /\ <<>> \in EscapeStates /\ x \in EscapeStates
      /\ w \in Seq(AllChars) /\ x = After(EscapeF, <<>>, w)
  BY EscapeAfter DEF EscapeStates
<1>2. tail \in Seq(AllChars) /\ n \in Nat /\ \A i \in 1..n : tail[i] \in Wide
  BY WideChars
<1>3. Escape(w \o tail) = After(EscapeF, <<>>, w \o tail)
  BY EscapeAfter
<1>4. After(EscapeF, <<>>, w \o tail) = After(EscapeF, x, tail)
  <2>1. tail \in Seq(AllChars)
    BY <1>2
  <2> HIDE DEF x
  <2> QED
    BY <1>1, <2>1, AfterConcat
<1> HIDE DEF x
<1>5. AfterSteps(EscapeF, x, tail, h)
  <2>1. h[0] = x
    <3>1. SubSeq(tail, 1, 0) = <<>> /\ x \o <<>> = x
      BY <1>1, SubTexts, EmptyIs DEF EscapeStates
    <3>2. 0 \in 0..n
      BY <1>2
    <3>3. h[0] = x \o SubSeq(tail, 1, 0)
      BY <3>2
    <3> HIDE DEF h
    <3> QED
      BY <3>1, <3>3
  <2>2. ASSUME NEW i \in 1..n PROVE h[i] = EscapeF[<<h[i - 1], tail[i]>>]
    <3> DEFINE y == SubSeq(tail, 1, i - 1)
               c == tail[i]
    <3>1. y \in Seq(Wide) /\ y \o <<c>> = SubSeq(tail, 1, i)
      BY <1>2, SubTexts
    <3>2. c \in Wide /\ c \in AllChars /\ Escaped(c) = <<c>>
      BY <1>2, WideChars DEF Escaped
    <3>3. h[i] = x \o (y \o <<c>>) /\ h[i - 1] = x \o y
      <4>1. i \in 0..n /\ i - 1 \in 0..n
        BY <1>2
      <4>2. h[i] = x \o SubSeq(tail, 1, i) /\ h[i - 1] = x \o y
        BY <4>1
      <4> QED
        BY <3>1, <4>2
    <3> HIDE DEF y, c, h
    <3>4. y \in Seq(Clean) /\ c \in Clean /\ x \in Seq(Clean)
      BY <1>1, <3>1, <3>2, WideChars DEF EscapeStates
    <3>5. x \o y \in EscapeStates /\ x \o (y \o <<c>>) = (x \o y) \o <<c>>
      BY <3>4 DEF EscapeStates
    <3>6. EscapeF[<<x \o y, c>>] = (x \o y) \o Escaped(c)
      BY <3>2, <3>5 DEF EscapeF
    <3> QED
      BY <3>2, <3>3, <3>5, <3>6 DEF c
  <2> QED
    BY <2>1, <2>2 DEF AfterSteps
<1>6. After(EscapeF, x, tail) = h[n]
  <2>1. tail \in Seq(AllChars)
    BY <1>2
  <2> HIDE DEF h
  <2> QED
    BY <1>1, <1>5, <2>1, AfterIs
<1>7. h[n] = x \o tail
  BY <1>2, SubTexts
<1> QED
  BY <1>3, <1>4, <1>6, <1>7 DEF x

(* An escaped text ends in no blank but one of these.                        *)
LEMMA EscapeEnd ==
    ASSUME NEW w \in Seq(Chars), w # <<>>, w[Len(w)] \notin Wide
    PROVE  Escape(w) # <<>> /\ Solid(Escape(w)[Len(Escape(w))])
<1> DEFINE n == Len(w)
           x == Escape(w)
           y == SubSeq(w, 1, n - 1)
           c == w[n]
<1>1. n \in 1..n /\ n \in Nat
  OBVIOUS
<1>2. PICK e : EscapeSteps(w, e)
  BY EscapeRun
<1>3. e[n] = x /\ e[n] = e[n - 1] \o Escaped(c) /\ e[n - 1] \in Seq(Clean)
  BY <1>1, <1>2 DEF EscapeSteps
<1>4. c \in AllChars /\ c \notin Wide
  BY <1>1, Alphabet
<1> HIDE DEF x, n, c
<1>5. Escaped(c) \in Seq(Clean) /\ Len(Escaped(c)) > 0 /\ Solid(Escaped(c)[Len(Escaped(c))])
  <2>0. Escaped(c) \in Seq(Clean)
    BY <1>4, EscapedType
  <2>1. CASE c \in Special
    <3> DEFINE l == Letter[c]
    <3>1. l \in Letters /\ Solid(l)
      BY <2>1, LetterType, Disjoint, WideChars DEF Solid
    <3> DEFINE z == <<"\\", l>>
    <3>2. Escaped(c) = z
      BY <2>1 DEF Escaped
    <3> HIDE DEF l
    <3>3. Len(z) = 2 /\ z[2] = l
      OBVIOUS
    <3> HIDE DEF z
    <3> QED
      BY <2>0, <3>1, <3>2, <3>3
  <2>2. CASE c \notin Special
    <3> DEFINE z == <<c>>
    <3>1. Escaped(c) = z /\ Solid(c)
      BY <2>2, <1>4, Disjoint DEF Escaped, Solid
    <3>2. Len(z) = 1 /\ z[1] = c
      OBVIOUS
    <3> HIDE DEF z
    <3> QED
      BY <2>0, <3>1, <3>2
  <2> QED
    BY <2>1, <2>2
<1> DEFINE a == e[n - 1]
           b == Escaped(c)
<1>6. a \in Seq(Clean) /\ b \in Seq(Clean) /\ Len(b) > 0 /\ Solid(b[Len(b)]) /\ x = a \o b
  BY <1>3, <1>5
<1> HIDE DEF a, b
<1>7. Len(x) = Len(a) + Len(b) /\ x[Len(a) + Len(b)] = b[Len(b)] /\ Len(x) > 0 /\ x # <<>>
  BY <1>6
<1> QED
  BY <1>6, <1>7 DEF x

(* What trim() may leave of the last value of a line.                        *)
Rest(v, w, tail) ==
    /\ w \in Seq(Chars) /\ tail \in Seq(Wide) /\ LeftOf(w, v)
    /\ w = <<>> \/ w[Len(w)] \notin Wide
    /\ Escape(v) = Escape(w) \o tail
    /\ v = <<>> => w = <<>> /\ tail = <<>>
    /\ EndsBlank(v) \/ (w = v /\ tail = <<>>)

(* Every value has such a rest.                                              *)
LEMMA CoreOf ==
    ASSUME NEW v \in Seq(Chars)
    PROVE  \E w, tail : Rest(v, w, tail)
<1> DEFINE n == Len(v)
           T == {i \in 0..n : \E m \in 0..i : /\ m = 0 \/ v[m] \notin Wide
                                              /\ \A k \in (m + 1)..i : v[k] \in Wide}
<1>1. n \in Nat /\ n \in 0..n
  OBVIOUS
<1> HIDE DEF n
<1>2. 0 \in T
  BY <1>1
<1>3. ASSUME NEW i \in 1..n, i - 1 \in T PROVE i \in T
  <2>1. i \in 0..n
    BY <1>1
  <2>2. CASE v[i] \in Wide
    <3>1. PICK m \in 0..(i - 1) : (m = 0 \/ v[m] \notin Wide) /\ \A k \in (m + 1)..(i - 1) : v[k] \in Wide
      BY <1>3
    <3>2. m \in 0..i /\ \A k \in (m + 1)..i : k = i \/ k \in (m + 1)..(i - 1)
      BY <2>1
    <3>3. \A k \in (m + 1)..i : v[k] \in Wide
      BY <2>2, <3>1, <3>2
    <3> QED
      BY <2>1, <3>1, <3>2, <3>3
  <2>3. CASE v[i] \notin Wide
    <3>1. i \in 0..i /\ \A k \in (i + 1)..i : v[k] \in Wide
      BY <2>1
    <3> QED
      BY <2>1, <2>3, <3>1
  <2> QED
    BY <2>2, <2>3
<1>4. n \in T
  <2> HIDE DEF T
  <2>1. \A i \in 0..n : i \in T
    BY <1>1, <1>2, <1>3, UpTo, Zenon
  <2> QED
    BY <2>1, <1>1
<1>5. PICK m \in 0..n : (m = 0 \/ v[m] \notin Wide) /\ \A k \in (m + 1)..n : v[k] \in Wide
  BY <1>4
<1> DEFINE w == SubSeq(v, 1, m)
           tail == SubSeq(v, m + 1, n)
<1>6. w \in Seq(Chars) /\ Len(w) = m /\ (m > 0 => w[m] = v[m])
  BY <1>1, <1>5 DEF n
<1>7. /\ tail \in Seq(Chars) /\ Len(tail) = n - m
      /\ \A k \in 1..(n - m) : tail[k] = v[m + k]
  <2>1. m + 1 \in 1..(n + 1) /\ n = Len(v)
    BY <1>1, <1>5 DEF n
  <2>2. tail \in Seq(Chars) /\ Len(tail) = IF m + 1 <= n THEN n - (m + 1) + 1 ELSE 0
    BY <2>1
  <2>3. Len(tail) = n - m
    BY <1>1, <1>5, <2>2
  <2>4. \A k \in 1..(n - m) : tail[k] = v[m + 1 + k - 1] /\ m + 1 + k - 1 = m + k
    BY <1>1, <1>5, <2>1, <2>3
  <2> QED
    BY <2>2, <2>3, <2>4
<1>8. tail \in Seq(Wide)
  <2>1. \A k \in 1..(n - m) : m + k \in (m + 1)..n
    BY <1>1, <1>5
  <2>2. \A k \in 1..Len(tail) : tail[k] \in Wide
    BY <1>5, <1>7, <2>1
  <2>3. tail \in Seq(Chars)
    BY <1>7
  <2> HIDE DEF tail
  <2> QED
    BY <2>2, <2>3, SeqOf
<1>9. v = w \o tail
  <2>1. m \in 0..Len(v)
    BY <1>5 DEF n
  <2> QED
    BY <2>1, CutAt DEF n
<1>10. LeftOf(w, v)
  BY <1>5 DEF LeftOf, n
<1> HIDE DEF w, tail
<1>11. w = <<>> \/ w[Len(w)] \notin Wide
  BY <1>5, <1>6
<1>12. Escape(v) = Escape(w) \o tail
  BY <1>6, <1>8, <1>9, EscapeTail
<1>13. v = <<>> => w = <<>> /\ tail = <<>>
  BY <1>5, <1>6, <1>7, <1>8 DEF n
<1>14. EndsBlank(v) \/ (w = v /\ tail = <<>>)
  <2>1. CASE m = n
    <3>1. tail = <<>> /\ w \o <<>> = w
      BY <2>1, <1>1, <1>6, <1>7, <1>8
    <3> QED
      BY <1>9, <3>1
  <2>2. CASE m # n
    <3>1. n \in (m + 1)..n /\ n > 0
      BY <2>2, <1>1, <1>5
    <3>2. v[Len(v)] \in Wide /\ v # <<>>
      BY <3>1, <1>5 DEF n
    <3> QED
      BY <3>2 DEF EndsBlank
  <2> QED
    BY <2>1, <2>2
<1> QED
  BY <1>6, <1>8, <1>10, <1>11, <1>12, <1>13, <1>14 DEF Rest

-----------------------------------------------------------------------------
(* The parts of what join() makes.                                           *)

(* F[i] is the first i parts, each with what is put between behind it.       *)
Fronts(A, parts, between, F) ==
    /\ F \in [0..Len(parts) -> Seq(A)] /\ F[0] = <<>> /\ Len(parts) \in Nat
    /\ \A i \in 1..Len(parts) : F[i] = F[i - 1] \o parts[i] \o between
    /\ Len(parts) > 0 => Join(parts, between) = F[Len(parts) - 1] \o parts[Len(parts)]

(* They exist.                                                               *)
LEMMA FrontsExist ==
    ASSUME NEW A, NEW parts \in Seq(Seq(A)), NEW between \in Seq(A)
    PROVE  \E F : Fronts(A, parts, between, F)
<1> DEFINE n == Len(parts)
<1>1. n \in Nat /\ \A i \in 1..n : parts[i] \in Seq(A)
  OBVIOUS
<1>2. PICK j \in [0..n -> Seq(A)] : JoinSteps(parts, between, j)
  BY JoinRun
<1>3. /\ j[0] = <<>> /\ (n > 0 => j[1] = parts[1]) /\ j[n] = Join(parts, between)
      /\ \A i \in 1..n : i > 1 => j[i] = j[i - 1] \o between \o parts[i]
  BY <1>2 DEF JoinSteps
<1> HIDE DEF n
<1> DEFINE F == [i \in 0..n |-> IF i = 0 THEN <<>> ELSE j[i] \o between]
<1>4. F \in [0..n -> Seq(A)] /\ F[0] = <<>>
  <2>1. \A i \in 0..n : j[i] \o between \in Seq(A)
    BY <1>2
  <2> QED
    BY <1>1, <2>1
<1>5. \A i \in 1..n : F[i] = j[i] \o between
  BY <1>1
<1>6. ASSUME NEW i \in 1..n PROVE F[i] = F[i - 1] \o parts[i] \o between /\ j[i] = F[i - 1] \o parts[i]
  <2>1. CASE i = 1
    <3>1. F[i - 1] = <<>> /\ j[i] = parts[i] /\ parts[i] \in Seq(A)
      BY <2>1, <1>1, <1>3, <1>4
    <3>2. <<>> \o parts[i] = parts[i]
      BY <3>1, EmptyIs
    <3> HIDE DEF F
    <3> QED
      BY <3>1, <3>2, <1>5
  <2>2. CASE i # 1
    <3>1. i > 1 /\ i - 1 \in 1..n
      BY <2>2, <1>1
    <3>2. F[i - 1] = j[i - 1] \o between /\ j[i] = j[i - 1] \o between \o parts[i]
      BY <3>1, <1>3, <1>5
    <3> HIDE DEF F
    <3> QED
      BY <3>2, <1>5
  <2> QED
    BY <2>1, <2>2
<1> HIDE DEF F
<1>7. n > 0 => Join(parts, between) = F[n - 1] \o parts[n]
  <2> SUFFICES ASSUME n > 0 PROVE Join(parts, between) = F[n - 1] \o parts[n]
    OBVIOUS
  <2>1. n \in 1..n
    BY <1>1
  <2>2. j[n] = F[n - 1] \o parts[n]
    BY <2>1, <1>6
  <2> QED
    BY <2>2, <1>3
<1>8. Fronts(A, parts, between, F)
  BY <1>1, <1>4, <1>6, <1>7 DEF Fronts, n
<1> QED
  BY <1>8

-----------------------------------------------------------------------------
(* Splitting into lines.                                                     *)

(* A character behind two texts.                                             *)
LEMMA AppendBehind ==
    \A t \in Seq(AllChars), x \in Seq(AllChars), d \in AllChars : Append(t \o x, d) = t \o Append(x, d)
OBVIOUS

(* The types of the two parts of a state.                                    *)
LEMMA LineAtType ==
    ASSUME NEW L \in Seq(Trimmed), NEW t \in Seq(AllChars)
    PROVE  LineAt(L, t) \in LineStates
BY DEF LineAt, LineStates

(* Without a newline a text belongs to the line.                             *)
LEMMA LineAdd ==
    ASSUME NEW L \in Seq(Trimmed), NEW t \in Seq(AllChars), NEW v \in Seq(AllChars \ {Newline})
    PROVE  After(LineF, LineAt(L, t), v) = LineAt(L, t \o v)
<1> DEFINE n == Len(v)
           h == [i \in 0..n |-> LineAt(L, t \o SubSeq(v, 1, i))]
<1>1. n \in Nat /\ v \in Seq(AllChars)
  OBVIOUS
<1>2. \A i \in 1..n : v[i] \in AllChars /\ v[i] # Newline
  OBVIOUS
<1>3. Machine(LineF, LineStates, AllChars) /\ LineAt(L, t) \in LineStates
  BY LineFType, LineAtType
<1>4. AfterSteps(LineF, LineAt(L, t), v, h)
  <2>1. h[0] = LineAt(L, t)
    <3>1. SubSeq(v, 1, 0) = <<>> /\ t \o <<>> = t
      BY SubTexts, EmptyIs
    <3>2. 0 \in 0..n
      BY <1>1
    <3> QED
      BY <3>1, <3>2
  <2>2. ASSUME NEW i \in 1..n PROVE h[i] = LineF[<<h[i - 1], v[i]>>]
    <3> DEFINE y == SubSeq(v, 1, i - 1)
               c == v[i]
    <3>1. i \in 0..n /\ i - 1 \in 0..n
      BY <1>1
    <3>2. h[i] = LineAt(L, t \o SubSeq(v, 1, i)) /\ h[i - 1] = LineAt(L, t \o y)
      BY <3>1
    <3>3. SubSeq(v, 1, i) = y \o <<c>> /\ y \in Seq(AllChars) /\ c \in AllChars /\ c # Newline
      BY <1>1, <1>2, SubTexts
    <3> HIDE DEF y, c, h
    <3>4. t \o (y \o <<c>>) = Append(t \o y, c) /\ t \o y \in Seq(AllChars)
      BY <3>3
    <3>5. LineF[<<LineAt(L, t \o y), c>>] = LineChar(LineAt(L, t \o y), c)
      <4>1. LineAt(L, t \o y) \in LineStates
        BY <3>4, LineAtType
      <4> QED
        BY <3>3, <4>1 DEF LineF
    <3>6. LineChar(LineAt(L, t \o y), c) = LineAt(L, Append(t \o y, c))
      BY <3>3, LineCases
    <3> QED
      BY <3>2, <3>3, <3>4, <3>5, <3>6 DEF c
  <2> QED
    BY <2>1, <2>2 DEF AfterSteps
<1>5. After(LineF, LineAt(L, t), v) = h[n]
  <2> HIDE DEF h
  <2> QED
    BY <1>1, <1>3, <1>4, AfterIs
<1>6. h[n] = LineAt(L, t \o v)
  <2>1. n \in 0..n /\ SubSeq(v, 1, n) = v
    BY <1>1, SubTexts
  <2> QED
    BY <2>1
<1> QED
  BY <1>5, <1>6

(* How a line ends.                                                          *)
IsEnd(e) == e \in Seq(Blanks) /\ \E i \in DOMAIN e : e[i] = Newline

(* c is left of the text with blanks behind it.                              *)
EndsAs(t, c) == \A q \in Seq(Blanks) : Trim(t \o q) = c

(* It adds what is left of the line, whatever blanks are around the newline, *)
(* and leaves blanks to the next.                                            *)
LEMMA LineEnded ==
    ASSUME NEW L \in Seq(Trimmed), NEW t \in Seq(AllChars), NEW c,
           EndsAs(t, c), NEW e, IsEnd(e)
    PROVE  \E q \in Seq(Blanks) :
               After(LineF, LineAt(L, t), e) = LineAt(Grown(L, c), q)
<1> DEFINE M == Grown(L, c)
           n == Len(e)
<1>1. e \in Seq(Blanks) /\ n \in Nat /\ DOMAIN e = 1..n /\ \A i \in 1..n : e[i] \in Blanks
  BY DEF IsEnd
<1>2. e \in Seq(AllChars) /\ \A q \in Seq(Blanks) : q \in Seq(AllChars)
  BY <1>1, WideChars
<1>3. c \in Trimmed
  <2>1. <<>> \in Seq(Blanks) /\ t \o <<>> = t
    BY EmptyIs
  <2>2. Trim(t) = c
    BY <2>1 DEF EndsAs
  <2> QED
    BY <2>2 DEF Trimmed
<1>4. M \in Seq(Trimmed)
  BY <1>3 DEF Grown
<1>5. Machine(LineF, LineStates, AllChars) /\ LineAt(L, t) \in LineStates
  BY LineFType, LineAtType
<1>6. PICK g \in [0..n -> LineStates] : AfterSteps(LineF, LineAt(L, t), e, g) /\ After(LineF, LineAt(L, t), e) = g[n]
  BY <1>2, <1>5, AfterRun
<1>7. g[0] = LineAt(L, t) /\ \A i \in 1..n : g[i] = LineChar(g[i - 1], e[i])
  <2>1. g[0] = LineAt(L, t) /\ \A i \in 1..n : g[i] = LineF[<<g[i - 1], e[i]>>]
    BY <1>6 DEF AfterSteps
  <2>2. \A i \in 1..n : g[i - 1] \in LineStates /\ e[i] \in AllChars
    BY <1>1, <1>6, WideChars
  <2> QED
    BY <2>1, <2>2 DEF LineF
<1> HIDE DEF M, n
<1> DEFINE Before(i) == (\A k \in 1..i : e[k] # Newline) /\ \E q \in Seq(Blanks) : g[i] = LineAt(L, t \o q)
           Behind(i) == \E q \in Seq(Blanks) : g[i] = LineAt(M, q)
           T == {i \in 0..n : Before(i) \/ Behind(i)}
<1>8. 0 \in T
  <2>1. <<>> \in Seq(Blanks) /\ t \o <<>> = t /\ 0 \in 0..n /\ \A k \in 1..0 : FALSE
    BY <1>1, EmptyIs
  <2>2. Before(0)
    BY <2>1, <1>7
  <2> QED
    BY <2>1, <2>2
<1>9. ASSUME NEW i \in 1..n, i - 1 \in T PROVE i \in T
  <2>1. i \in 0..n /\ i - 1 \in 0..n /\ e[i] \in Blanks /\ <<>> \in Seq(Blanks)
    BY <1>1
  <2>2. g[i] = LineChar(g[i - 1], e[i])
    BY <1>7
  <2>3. ASSUME NEW q \in Seq(Blanks), g[i - 1] = LineAt(L, t \o q), \A k \in 1..(i - 1) : e[k] # Newline
        PROVE  Before(i) \/ Behind(i)
    <3>1. CASE e[i] = Newline
      <4>1. g[i] = LineAt(Kept(LineAt(L, t \o q)), <<>>)
        BY <3>1, <2>2, <2>3, LineCases
      <4>2. Kept(LineAt(L, t \o q)) = Grown(L, Trim(t \o q))
        BY LineCases
      <4>3. Kept(LineAt(L, t \o q)) = M
        <5>1. Trim(t \o q) = c
          BY DEF EndsAs
        <5> QED
          BY <4>2, <5>1, Zenon DEF M
      <4> QED
        BY <4>1, <4>3, <2>1
    <3>2. CASE e[i] # Newline
      <4>1. g[i] = LineAt(L, Append(t \o q, e[i]))
        BY <3>2, <2>2, <2>3, LineCases
      <4>2. q \in Seq(AllChars) /\ e[i] \in AllChars
        BY <1>2, <2>1, WideChars
      <4>3. Append(q, e[i]) \in Seq(Blanks)
        BY <2>1
      <4>4. Append(t \o q, e[i]) = t \o Append(q, e[i])
        <5>1. q \in Seq(AllChars)
          BY <4>2
        <5>2. e[i] \in AllChars
          BY <4>2
        <5> QED
          BY <5>1, <5>2, AppendBehind, Zenon
      <4>5. \A k \in 1..i : k = i \/ k \in 1..(i - 1)
        BY <1>1
      <4>6. \A k \in 1..i : e[k] # Newline
        BY <4>5, <3>2, <2>3
      <4> QED
        BY <4>1, <4>3, <4>4, <4>6
    <3> QED
      BY <3>1, <3>2
  <2>4. ASSUME NEW q \in Seq(Blanks), g[i - 1] = LineAt(M, q) PROVE Behind(i)
    <3>1. CASE e[i] = Newline
      <4>1. g[i] = LineAt(Kept(LineAt(M, q)), <<>>)
        BY <3>1, <2>2, <2>4, LineCases
      <4>2. Kept(LineAt(M, q)) = M
        BY TrimBlanks, LineCases DEF Grown
      <4> QED
        BY <4>1, <4>2, <2>1
    <3>2. CASE e[i] # Newline
      <4>1. g[i] = LineAt(M, Append(q, e[i]))
        BY <3>2, <2>2, <2>4, LineCases
      <4>2. Append(q, e[i]) \in Seq(Blanks)
        BY <2>1
      <4> QED
        BY <4>1, <4>2
    <3> QED
      BY <3>1, <3>2
  <2>5. Before(i - 1) \/ Behind(i - 1)
    BY <1>9
  <2>6. Before(i) \/ Behind(i)
    BY <2>3, <2>4, <2>5
  <2> QED
    BY <2>1, <2>6
<1>10. n \in T
  <2> HIDE DEF T
  <2>1. \A i \in 0..n : i \in T
    BY <1>1, <1>8, <1>9, UpTo, Zenon
  <2> QED
    BY <2>1, <1>1
<1>11. ~Before(n)
  <2>1. \E k \in 1..n : e[k] = Newline
    BY <1>1 DEF IsEnd
  <2> QED
    BY <2>1
<1>12. Behind(n)
  BY <1>10, <1>11
<1> QED
  BY <1>6, <1>12 DEF M

(* c is what trim() leaves of the line.                                      *)
Leaves(text, c) == c \in Seq(AllChars) /\ Core(c) /\ \E tail \in Seq(Wide) : text = c \o tail

(* Whatever blanks are around it.                                            *)
LEMMA LeavesTrimmed ==
    ASSUME NEW text \in Seq(AllChars), NEW c, Leaves(text, c)
    PROVE  /\ c \in Trimmed /\ c # <<>>
           /\ \A p \in Seq(Blanks), q \in Seq(Blanks) : Trim((p \o text) \o q) = c
<1>1. PICK tail \in Seq(Wide) : text = c \o tail
  BY DEF Leaves
<1>2. c \in Seq(AllChars) /\ Core(c)
  BY DEF Leaves
<1>3. \A p \in Seq(Blanks), q \in Seq(Blanks) : Trim((p \o text) \o q) = c
  BY <1>1, <1>2, TrimLine
<1>4. c \in Trimmed
  <2>1. <<>> \in Seq(Blanks) /\ <<>> \o text = text /\ text \o <<>> = text
    BY EmptyIs
  <2>2. Trim((<<>> \o text) \o <<>>) = c
    BY <2>1, <1>3
  <2> QED
    BY <2>1, <2>2 DEF Trimmed
<1> QED
  BY <1>2, <1>3, <1>4 DEF Core

(* The lines of a response are read as what trim() leaves of them.           *)
LEMMA LinesRead ==
    ASSUME NEW ls \in Seq(Seq(AllChars \ {Newline})), NEW cs \in Seq(Seq(AllChars)), Len(cs) = Len(ls),
           \A i \in 1..Len(ls) : Leaves(ls[i], cs[i]), NEW e, IsEnd(e)
    PROVE  Lines(Join(ls, e) \o e) = cs
<1> DEFINE n == Len(ls)
           raw == Join(ls, e) \o e
<1>1. n \in Nat /\ \A i \in 1..n : ls[i] \in Seq(AllChars \ {Newline})
  OBVIOUS
<1>2. \A x \in Seq(AllChars \ {Newline}) : x \in Seq(AllChars)
  OBVIOUS
<1>3. ls \in Seq(Seq(AllChars))
  <2> DEFINE B == Seq(AllChars)
  <2>1. \A k \in 1..Len(ls) : ls[k] \in B
    BY <1>1, <1>2
  <2> HIDE DEF B
  <2>2. ls \in Seq(B)
    BY <2>1, SeqOf
  <2> QED
    BY <2>2 DEF B
<1>4. e \in Seq(AllChars) /\ e \in Seq(Blanks)
  BY WideChars DEF IsEnd
<1>5. PICK F : Fronts(AllChars, ls, e, F)
  <2>1. e \in Seq(AllChars)
    BY <1>4
  <2> QED
    BY <1>3, <2>1, FrontsExist
<1>6. /\ F \in [0..n -> Seq(AllChars)] /\ F[0] = <<>>
      /\ \A i \in 1..n : F[i] = F[i - 1] \o ls[i] \o e
      /\ n > 0 => Join(ls, e) = F[n - 1] \o ls[n]
  BY <1>5 DEF Fronts
<1>7. \A i \in 1..n : cs[i] \in Trimmed /\ cs[i] # <<>>
                      /\ \A q \in Seq(Blanks), p \in Seq(Blanks) : Trim((q \o ls[i]) \o p) = cs[i]
  BY <1>1, <1>2, LeavesTrimmed
<1>8. cs \in Seq(Trimmed) /\ Len(cs) = n
  <2>1. \A k \in 1..Len(cs) : cs[k] \in Trimmed
    BY <1>7
  <2> QED
    BY <2>1, SeqOf
<1>9. Machine(LineF, LineStates, AllChars) /\ LineStart \in LineStates /\ LineStart = LineAt(<<>>, <<>>)
  BY LineFType DEF LineStart, LineAt
<1> DEFINE R(v) == After(LineF, LineStart, v)
           C(i) == SubSeq(cs, 1, i)
           T == {i \in 0..n : \E q \in Seq(Blanks) : R(F[i]) = LineAt(C(i), q)}
<1>10. C(0) = <<>> /\ C(n) = cs /\ \A i \in 1..n : Append(C(i - 1), cs[i]) = C(i) /\ C(i - 1) \in Seq(Trimmed)
  <2>1. C(0) = <<>> /\ C(Len(cs)) = cs /\ \A i \in 1..Len(cs) : Append(C(i - 1), cs[i]) = C(i)
    BY <1>8, SubTexts
  <2>2. \A i \in 1..n : C(i - 1) \in Seq(Trimmed)
    BY <1>8
  <2> QED
    BY <1>8, <2>1, <2>2
<1> HIDE DEF n, C
<1>11. 0 \in T
  <2>1. <<>> \in Seq(Blanks) /\ 0 \in 0..n
    BY <1>1
  <2>2. R(F[0]) = LineStart
    <3>1. Space \in AllChars
      BY Alphabet
    <3>2. R(<<>>) = LineStart
      <4>1. Machine(LineF, LineStates, AllChars) /\ LineStart \in LineStates
        BY <1>9
      <4>2. After(LineF, LineStart, <<>>) = LineStart /\ After(LineF, LineStart, <<Space>>) = LineF[<<LineStart, Space>>]
        BY <3>1, <4>1, AfterOne
      <4> QED
        BY <4>2
    <3> QED
      BY <3>2, <1>6
  <2> QED
    BY <2>1, <2>2, <1>9, <1>10
<1>12. ASSUME NEW i \in 1..n, i - 1 \in T PROVE i \in T
  <2> DEFINE v == F[i - 1]
             l == ls[i]
             L == C(i - 1)
  <2>1. i \in 0..n /\ i - 1 \in 0..n
    BY <1>1
  <2>2. PICK q \in Seq(Blanks) : R(v) = LineAt(L, q)
    BY <1>12
  <2>3. v \in Seq(AllChars)
    BY <1>6, <2>1
  <2>4. l \in Seq(AllChars \ {Newline})
    BY <1>1
  <2>5. l \in Seq(AllChars)
    BY <1>2, <2>4
  <2>6. q \in Seq(AllChars)
    BY WideChars
  <2>7. F[i] = (v \o l) \o e
    BY <1>6
  <2>8. v \o l \in Seq(AllChars) /\ q \o l \in Seq(AllChars)
    BY <2>3, <2>5, <2>6
  <2>9. L \in Seq(Trimmed) /\ Append(L, cs[i]) = C(i)
    BY <1>10
  <2>10. \A p \in Seq(Blanks) : Trim((q \o l) \o p) = cs[i]
    BY <1>7
  <2>11. cs[i] # <<>>
    BY <1>7
  <2> HIDE DEF v, l, L
  <2>12. R(v \o l) = LineAt(L, q \o l)
    <3>1. R(v \o l) = After(LineF, R(v), l)
      BY <1>9, <2>3, <2>5, AfterConcat
    <3>2. L \in Seq(Trimmed)
      BY <2>9
    <3>3. After(LineF, LineAt(L, q), l) = LineAt(L, q \o l)
      BY <3>2, <2>4, <2>6, LineAdd
    <3> QED
      BY <3>1, <3>3, <2>2
  <2>13. R((v \o l) \o e) = After(LineF, R(v \o l), e)
    <3>1. e \in Seq(AllChars)
      BY <1>4
    <3> DEFINE u == v \o l
    <3>2. u \in Seq(AllChars)
      BY <2>8
    <3> HIDE DEF u
    <3>3. R(u \o e) = After(LineF, R(u), e)
      BY <1>9, <3>1, <3>2, AfterConcat
    <3> QED
      BY <3>3 DEF u
  <2>14. \E p \in Seq(Blanks) : After(LineF, LineAt(L, q \o l), e) = LineAt(Append(L, cs[i]), p)
    <3> DEFINE u == q \o l
               c == cs[i]
    <3>1. u \in Seq(AllChars)
      BY <2>8
    <3>2. L \in Seq(Trimmed)
      BY <2>9
    <3>3. EndsAs(u, c) /\ c # <<>>
      BY <2>10, <2>11 DEF EndsAs
    <3> HIDE DEF u, c
    <3>4. \E p \in Seq(Blanks) : After(LineF, LineAt(L, u), e) = LineAt(Grown(L, c), p)
      BY <3>1, <3>2, <3>3, LineEnded
    <3> QED
      BY <3>3, <3>4 DEF u, c, Grown
  <2>15. \E p \in Seq(Blanks) : R(F[i]) = LineAt(C(i), p)
    BY <2>7, <2>9, <2>12, <2>13, <2>14
  <2> QED
    BY <2>1, <2>15
<1>13. n \in T
  <2> HIDE DEF T
  <2>1. \A i \in 0..n : i \in T
    BY <1>1, <1>11, <1>12, UpTo, Zenon
  <2> QED
    BY <2>1, <1>1
<1>14. PICK q \in Seq(Blanks) : R(F[n]) = LineAt(cs, q)
  BY <1>10, <1>13
<1>15. raw \in Seq(AllChars) /\ \E p \in Seq(Blanks) : R(raw) = LineAt(cs, p)
  <2>1. CASE n > 0
    <3>1. raw = F[n]
      <4>1. n \in 1..n
        BY <1>1, <2>1
      <4> QED
        BY <4>1, <2>1, <1>6
    <3>2. n \in 0..n
      BY <1>1
    <3> QED
      BY <3>1, <3>2, <1>6, <1>14
  <2>2. CASE n = 0
    <3>1. Join(ls, e) = <<>>
      <4>1. PICK j \in [0..Len(ls) -> Seq(AllChars)] : JoinSteps(ls, e, j)
        <5>1. e \in Seq(AllChars)
          BY <1>4
        <5> QED
          BY <1>3, <5>1, JoinRun
      <4>2. j[0] = <<>> /\ j[Len(ls)] = Join(ls, e)
        BY <4>1 DEF JoinSteps
      <4> QED
        BY <4>2, <2>2 DEF n
    <3>2. raw = e
      <4>1. <<>> \o e = e
        BY <1>4, EmptyIs
      <4> QED
        BY <3>1, <4>1
    <3>3. cs = <<>>
      BY <2>2, <1>10
    <3>4. \A p \in Seq(Blanks) : Trim(<<>> \o p) = <<>>
      BY EmptyIs, TrimBlanks
    <3>5. \E p \in Seq(Blanks) : After(LineF, LineAt(<<>>, <<>>), e) = LineAt(Grown(<<>>, <<>>), p)
      <4>1. <<>> \in Seq(Trimmed) /\ <<>> \in Seq(AllChars)
        OBVIOUS
      <4> DEFINE z == <<>>
      <4>2. z \in Seq(Trimmed)
        BY <4>1
      <4>3. z \in Seq(AllChars)
        BY <4>1
      <4>4. EndsAs(z, z)
        BY <3>4 DEF EndsAs
      <4> HIDE DEF z
      <4>5. \E p \in Seq(Blanks) : After(LineF, LineAt(z, z), e) = LineAt(Grown(z, z), p)
        BY <4>2, <4>3, <4>4, LineEnded
      <4> QED
        BY <4>5 DEF z
    <3>6. Grown(<<>>, <<>>) = <<>>
      BY DEF Grown
    <3> QED
      BY <3>2, <3>3, <3>5, <3>6, <1>4, <1>9
  <2> QED
    BY <1>1, <2>1, <2>2
<1> HIDE DEF raw
<1>16. PICK p \in Seq(Blanks) : R(raw) = LineAt(cs, p)
  BY <1>15
<1>17. Lines(raw) = Kept(R(raw))
  BY <1>15, LinesRun
<1>18. Kept(LineAt(cs, p)) = cs
  BY TrimBlanks, LineCases DEF Grown
<1> QED
  BY <1>16, <1>17, <1>18 DEF raw

-----------------------------------------------------------------------------
(* Splitting a line into entries.                                            *)

(* The types of the two parts of a state.                                    *)
LEMMA EntryAtType ==
    ASSUME NEW E \in Seq(Parses), NEW t \in Seq(AllChars)
    PROVE  EntryAt(E, t) \in EntryStates
BY DEF EntryAt, EntryStates

(* Without a bar a text belongs to the entry.                                *)
LEMMA EntryAdd ==
    ASSUME NEW E \in Seq(Parses), NEW t \in Seq(AllChars), NEW v \in Seq(AllChars \ {"|"})
    PROVE  After(EntryF, EntryAt(E, t), v) = EntryAt(E, t \o v)
<1> DEFINE n == Len(v)
           h == [i \in 0..n |-> EntryAt(E, t \o SubSeq(v, 1, i))]
<1>1. n \in Nat /\ v \in Seq(AllChars)
  OBVIOUS
<1>2. \A i \in 1..n : v[i] \in AllChars /\ v[i] # "|"
  OBVIOUS
<1>3. Machine(EntryF, EntryStates, AllChars) /\ EntryAt(E, t) \in EntryStates
  BY EntryFType, EntryAtType
<1>4. AfterSteps(EntryF, EntryAt(E, t), v, h)
  <2>1. h[0] = EntryAt(E, t)
    <3>1. SubSeq(v, 1, 0) = <<>> /\ t \o <<>> = t
      BY SubTexts, EmptyIs
    <3>2. 0 \in 0..n
      BY <1>1
    <3> QED
      BY <3>1, <3>2
  <2>2. ASSUME NEW i \in 1..n PROVE h[i] = EntryF[<<h[i - 1], v[i]>>]
    <3> DEFINE y == SubSeq(v, 1, i - 1)
               c == v[i]
    <3>1. i \in 0..n /\ i - 1 \in 0..n
      BY <1>1
    <3>2. h[i] = EntryAt(E, t \o SubSeq(v, 1, i)) /\ h[i - 1] = EntryAt(E, t \o y)
      BY <3>1
    <3>3. SubSeq(v, 1, i) = y \o <<c>> /\ y \in Seq(AllChars) /\ c \in AllChars /\ c # "|"
      BY <1>1, <1>2, SubTexts
    <3> HIDE DEF y, c, h
    <3>4. t \o (y \o <<c>>) = Append(t \o y, c) /\ t \o y \in Seq(AllChars)
      BY <3>3
    <3>5. EntryF[<<EntryAt(E, t \o y), c>>] = EntryChar(EntryAt(E, t \o y), c)
      <4>1. EntryAt(E, t \o y) \in EntryStates
        BY <3>4, EntryAtType
      <4> QED
        BY <3>3, <4>1 DEF EntryF
    <3>6. EntryChar(EntryAt(E, t \o y), c) = EntryAt(E, Append(t \o y, c))
      BY <3>3, EntryCases
    <3> QED
      BY <3>2, <3>3, <3>4, <3>5, <3>6 DEF c
  <2> QED
    BY <2>1, <2>2 DEF AfterSteps
<1>5. After(EntryF, EntryAt(E, t), v) = h[n]
  <2> HIDE DEF h
  <2> QED
    BY <1>1, <1>3, <1>4, AfterIs
<1>6. h[n] = EntryAt(E, t \o v)
  <2>1. n \in 0..n /\ SubSeq(v, 1, n) = v
    BY <1>1, SubTexts
  <2> QED
    BY <2>1
<1> QED
  BY <1>5, <1>6

(* A member at the end.                                                      *)
LEMMA AppendIs ==
    ASSUME NEW A, NEW s \in Seq(A), NEW x \in A
    PROVE  Append(s, x) = [k \in 1..(Len(s) + 1) |-> IF k = Len(s) + 1 THEN x ELSE s[k]]
<1> DEFINE n == Len(s)
           a == Append(s, x)
           f == [k \in 1..(n + 1) |-> IF k = n + 1 THEN x ELSE s[k]]
<1>1. n \in Nat /\ \A k \in 1..n : s[k] \in A
  OBVIOUS
<1>2. a \in Seq(A) /\ Len(a) = n + 1 /\ a[n + 1] = x /\ \A k \in 1..n : a[k] = s[k]
  OBVIOUS
<1> HIDE DEF n, a
<1>3. f \in [1..(n + 1) -> A]
  <2>1. \A k \in 1..(n + 1) : k = n + 1 \/ k \in 1..n
    BY <1>1
  <2> QED
    BY <1>1, <2>1
<1>4. f \in Seq(A) /\ Len(f) = n + 1
  <2> HIDE DEF f
  <2> QED
    BY <1>1, <1>3
<1>5. \A k \in 1..(n + 1) : a[k] = f[k]
  <2>1. \A k \in 1..(n + 1) : k = n + 1 \/ k \in 1..n
    BY <1>1
  <2> QED
    BY <1>1, <1>2, <2>1
<1>6. a = f
  <2> HIDE DEF f
  <2> QED
    BY <1>2, <1>4, <1>5, SameSeq
<1> QED
  BY <1>6 DEF a, n

(* The texts are read as entries, with c for the last of them.               *)
BarsRead(es, n, c, F) ==
    /\ F[n - 1] \in Seq(AllChars)
    /\ Entries(F[n - 1] \o c) = [k \in 1..n |-> ParseKeyValue(IF k = n THEN c ELSE es[k])]

(* Between bars each text is an entry; c stands in the place of the last.    *)
LEMMA EntriesRead ==
    ASSUME NEW es \in Seq(Seq(AllChars \ {"|"})), NEW n, n = Len(es), n > 0, NEW c \in Seq(AllChars \ {"|"}),
           NEW F, Fronts(AllChars, es, <<"|">>, F)
    PROVE  BarsRead(es, n, c, F)
<1>1. n \in Nat /\ (\A i \in 1..n : es[i] \in Seq(AllChars \ {"|"})) /\ n - 1 \in 0..n /\ n \in 1..n
  OBVIOUS
<1>2. \A x \in Seq(AllChars \ {"|"}) : x \in Seq(AllChars)
  OBVIOUS
<1>3. /\ F \in [0..n -> Seq(AllChars)] /\ F[0] = <<>>
      /\ \A i \in 1..n : F[i] = F[i - 1] \o es[i] \o <<"|">>
  BY DEF Fronts
<1>4. Machine(EntryF, EntryStates, AllChars) /\ EntryStart \in EntryStates /\ EntryStart = EntryAt(<<>>, <<>>)
  BY EntryFType DEF EntryStart, EntryAt
<1> DEFINE R(v) == After(EntryF, EntryStart, v)
           P(i) == [k \in 1..i |-> ParseKeyValue(es[k])]
           T == {i \in 0..n : R(F[i]) = EntryAt(P(i), <<>>)}
<1>5. \A i \in 0..n : P(i) \in Seq(Parses) /\ Len(P(i)) = i
  <2> SUFFICES ASSUME NEW i \in 0..n PROVE P(i) \in Seq(Parses) /\ Len(P(i)) = i
    OBVIOUS
  <2>1. i \in Nat /\ \A k \in 1..i : k \in 1..n
    BY <1>1
  <2>2. \A k \in 1..i : ParseKeyValue(es[k]) \in Parses
    BY <1>1, <1>2, <2>1 DEF Parses
  <2>3. P(i) \in [1..i -> Parses]
    BY <2>2
  <2> HIDE DEF P
  <2> QED
    BY <2>1, <2>3
<1>6. P(0) = <<>>
  OBVIOUS
<1>7. ASSUME NEW i \in 1..n, NEW x \in Parses PROVE Append(P(i - 1), x) = [k \in 1..i |-> IF k = i THEN x ELSE ParseKeyValue(es[k])]
  <2> DEFINE S == P(i - 1)
  <2>1. i - 1 \in 0..n /\ i - 1 + 1 = i /\ i \in Nat
    BY <1>1
  <2>2. Len(S) = i - 1 /\ \A k \in 1..(i - 1) : S[k] = ParseKeyValue(es[k])
    BY <2>1, <1>5
  <2>3. Append(S, x) = [k \in 1..(Len(S) + 1) |-> IF k = Len(S) + 1 THEN x ELSE S[k]]
    <3>1. S \in Seq(Parses)
      BY <2>1, <1>5
    <3> HIDE DEF S
    <3> QED
      BY <3>1, AppendIs
  <2> HIDE DEF S
  <2>4. \A k \in 1..i : k = i \/ k \in 1..(i - 1)
    BY <2>1
  <2>5. Append(S, x) = [k \in 1..i |-> IF k = i THEN x ELSE S[k]]
    BY <2>1, <2>2, <2>3
  <2>6. [k \in 1..i |-> IF k = i THEN x ELSE S[k]] = [k \in 1..i |-> IF k = i THEN x ELSE ParseKeyValue(es[k])]
    BY <2>2, <2>4
  <2> QED
    BY <2>5, <2>6 DEF S
<1>8. \A i \in 1..n : Append(P(i - 1), ParseKeyValue(es[i])) = P(i)
  <2> SUFFICES ASSUME NEW i \in 1..n PROVE Append(P(i - 1), ParseKeyValue(es[i])) = P(i)
    OBVIOUS
  <2>1. Append(P(i - 1), ParseKeyValue(es[i]))
          = [k \in 1..i |-> IF k = i THEN ParseKeyValue(es[i]) ELSE ParseKeyValue(es[k])]
    <3>1. ParseKeyValue(es[i]) \in Parses
      BY <1>1, <1>2 DEF Parses
    <3> QED
      BY <3>1, <1>7
  <2>2. [k \in 1..i |-> IF k = i THEN ParseKeyValue(es[i]) ELSE ParseKeyValue(es[k])] = P(i)
    OBVIOUS
  <2> HIDE DEF P
  <2> QED
    BY <2>1, <2>2
<1> HIDE DEF P
<1>9. "|" \in AllChars
  BY Alphabet
<1>10. 0 \in T
  <2>1. R(<<>>) = EntryStart
    <3>1. Machine(EntryF, EntryStates, AllChars) /\ EntryStart \in EntryStates
      BY <1>4
    <3>2. After(EntryF, EntryStart, <<>>) = EntryStart /\ After(EntryF, EntryStart, <<"|">>) = EntryF[<<EntryStart, "|">>]
      BY <1>9, <3>1, AfterOne
    <3> QED
      BY <3>2
  <2>2. 0 \in 0..n
    BY <1>1
  <2> QED
    BY <2>1, <2>2, <1>3, <1>4, <1>6
<1>11. ASSUME NEW i \in 0..n, R(F[i]) = EntryAt(P(i), <<>>), NEW x \in Seq(AllChars \ {"|"})
       PROVE  F[i] \o x \in Seq(AllChars) /\ R(F[i] \o x) = EntryAt(P(i), x)
  <2> DEFINE v == F[i]
             E == P(i)
  <2>1. v \in Seq(AllChars)
    BY <1>3
  <2>2. x \in Seq(AllChars)
    BY <1>2
  <2>3. E \in Seq(Parses)
    BY <1>5
  <2>4. R(v) = EntryAt(E, <<>>)
    BY <1>11
  <2> HIDE DEF v, E
  <2>5. R(v \o x) = After(EntryF, R(v), x)
    BY <1>4, <2>1, <2>2, AfterConcat
  <2> DEFINE z == <<>>
  <2>6. z \in Seq(AllChars)
    OBVIOUS
  <2>7. z \o x = x
    BY <2>2, EmptyIs
  <2> HIDE DEF z
  <2>8. After(EntryF, EntryAt(E, z), x) = EntryAt(E, z \o x)
    BY <2>3, <2>6, EntryAdd
  <2>9. R(v \o x) = EntryAt(E, x)
    BY <2>4, <2>5, <2>7, <2>8 DEF z
  <2>10. v \o x \in Seq(AllChars)
    BY <2>1, <2>2
  <2> QED
    BY <2>9, <2>10 DEF v, E
<1>12. ASSUME NEW i \in 1..n, i - 1 \in T PROVE i \in T
  <2> DEFINE u == F[i - 1] \o es[i]
             E == P(i - 1)
             x == es[i]
  <2>1. i \in 0..n /\ i - 1 \in 0..n /\ x \in Seq(AllChars \ {"|"})
    BY <1>1
  <2>2. u \in Seq(AllChars) /\ R(u) = EntryAt(E, x)
    <3>1. R(F[i - 1]) = EntryAt(P(i - 1), <<>>)
      BY <1>12
    <3> QED
      BY <2>1, <3>1, <1>11
  <2>3. F[i] = u \o <<"|">>
    BY <1>3
  <2>4. Append(E, ParseKeyValue(x)) = P(i)
    BY <1>8
  <2>5. E \in Seq(Parses) /\ x \in Seq(AllChars)
    BY <2>1, <1>2, <1>5
  <2> HIDE DEF u, E, x, R
  <2> DEFINE b == <<"|">>
  <2>6. R(u \o b) = After(EntryF, R(u), b)
    <3>1. b \in Seq(AllChars)
      BY <1>9
    <3>2. u \in Seq(AllChars)
      BY <2>2
    <3> HIDE DEF b
    <3> QED
      BY <1>4, <3>1, <3>2, AfterConcat DEF R
  <2>7. EntryAt(E, x) \in EntryStates
    BY <2>5, EntryAtType
  <2>8. After(EntryF, EntryAt(E, x), b) = EntryF[<<EntryAt(E, x), "|">>]
    <3> DEFINE s == EntryAt(E, x)
    <3>1. s \in EntryStates
      BY <2>7
    <3>2. Machine(EntryF, EntryStates, AllChars)
      BY <1>4
    <3> HIDE DEF s
    <3>3. After(EntryF, s, <<>>) = s /\ After(EntryF, s, b) = EntryF[<<s, "|">>]
      BY <3>1, <3>2, <1>9, AfterOne
    <3> QED
      BY <3>3 DEF s
  <2>9. EntryF[<<EntryAt(E, x), "|">>] = EntryAt(Append(E, ParseKeyValue(x)), <<>>)
    BY <2>7, <1>9, EntryCases DEF EntryF
  <2>10. R(F[i]) = EntryAt(P(i), <<>>)
    BY <2>2, <2>3, <2>4, <2>6, <2>8, <2>9
  <2> QED
    BY <2>1, <2>10 DEF R
<1>13. n - 1 \in T
  <2> HIDE DEF T
  <2>1. \A i \in 0..n : i \in T
    BY <1>1, <1>10, <1>12, UpTo, Zenon
  <2> QED
    BY <2>1, <1>1
<1> DEFINE w == F[n - 1] \o c
<1>14. w \in Seq(AllChars) /\ R(w) = EntryAt(P(n - 1), c)
  <2>1. R(F[n - 1]) = EntryAt(P(n - 1), <<>>)
    BY <1>13
  <2> QED
    BY <2>1, <1>1, <1>11
<1> HIDE DEF w
<1>15. Entries(w) = Parsed(R(w))
  BY <1>14, EntriesRun
<1>16. Parsed(EntryAt(P(n - 1), c)) = Append(P(n - 1), ParseKeyValue(c))
  BY EntryCases
<1>17. Append(P(n - 1), ParseKeyValue(c)) = [k \in 1..n |-> IF k = n THEN ParseKeyValue(c) ELSE ParseKeyValue(es[k])]
  <2>1. ParseKeyValue(c) \in Parses
    BY <1>2 DEF Parses
  <2> QED
    BY <2>1, <1>1, <1>7
<1>18. [k \in 1..n |-> IF k = n THEN ParseKeyValue(c) ELSE ParseKeyValue(es[k])]
         = [k \in 1..n |-> ParseKeyValue(IF k = n THEN c ELSE es[k])]
  OBVIOUS
<1>19. F[n - 1] \in Seq(AllChars)
  BY <1>1, <1>3
<1> QED
  <2>1. Entries(F[n - 1] \o c) = [k \in 1..n |-> ParseKeyValue(IF k = n THEN c ELSE es[k])]
    BY <1>14, <1>15, <1>16, <1>17, <1>18 DEF w
  <2> QED
    BY <1>19, <2>1 DEF BarsRead

-----------------------------------------------------------------------------
(* Reading the pairs of an entry.                                            *)

(* The types of a state of parseKeyValueLine().                              *)
LEMMA ReadingType ==
    ASSUME NEW o \in Maps, NEW k \in Seq(AllChars), NEW v \in Seq(AllChars), NEW in \in BOOLEAN, NEW esc \in BOOLEAN
    PROVE  Reading(o, k, v, in, esc) \in ReadStates
BY DEF Reading, ReadStates

(* Reading one character.                                                    *)
LEMMA ReadOne ==
    /\ Machine(ReadF, ReadStates, AllChars)
    /\ \A s \in ReadStates, c \in AllChars : After(ReadF, s, <<c>>) = ReadChar(s, c) /\ After(ReadF, s, <<>>) = s
<1>1. Machine(ReadF, ReadStates, AllChars)
  BY ReadCharType DEF Machine, ReadF
<1>2. ASSUME NEW s \in ReadStates, NEW c \in AllChars
      PROVE  After(ReadF, s, <<c>>) = ReadChar(s, c) /\ After(ReadF, s, <<>>) = s
  <2>1. After(ReadF, s, <<>>) = s /\ After(ReadF, s, <<c>>) = ReadF[<<s, c>>]
    BY <1>1, AfterOne
  <2>2. ReadF[<<s, c>>] = ReadChar(s, c)
    BY DEF ReadF
  <2> QED
    BY <2>1, <2>2
<1> QED
  BY <1>1, <1>2

(* One text behind the other.                                                *)
LEMMA ReadBoth ==
    ASSUME NEW s \in ReadStates, NEW v \in Seq(AllChars), NEW w \in Seq(AllChars)
    PROVE  After(ReadF, s, v \o w) = After(ReadF, After(ReadF, s, v), w) /\ After(ReadF, s, v) \in ReadStates
<1>1. Machine(ReadF, ReadStates, AllChars)
  BY ReadOne
<1>2. After(ReadF, s, v \o w) = After(ReadF, After(ReadF, s, v), w)
  BY <1>1, AfterConcat
<1>3. After(ReadF, s, v) \in ReadStates
  BY <1>1, AfterType
<1> QED
  BY <1>2, <1>3

(* A character goes to the value, a character of a key to the key.           *)
TakesValue(o, k, x, esc, chars) == Take(Reading(o, k, x, TRUE, esc), chars) = Reading(o, k, x \o chars, TRUE, FALSE)
TakesKey(o, k, x, esc, chars) == Take(Reading(o, k, x, FALSE, esc), chars) = Reading(o, k \o chars, x, FALSE, FALSE)

LEMMA TakeAny == \A o, k, x, esc, chars : TakesValue(o, k, x, esc, chars) /\ TakesKey(o, k, x, esc, chars)
BY TakeCases DEF TakesValue, TakesKey

(* A value takes the escaped form of a character.                            *)
LEMMA ReadEscaped ==
    ASSUME NEW o \in Maps, NEW k \in Seq(AllChars), NEW x \in Seq(AllChars), NEW c \in AllChars
    PROVE  After(ReadF, Reading(o, k, x, TRUE, FALSE), Escaped(c)) = Reading(o, k, x \o Escaped(c), TRUE, FALSE)
<1> DEFINE s == Reading(o, k, x, TRUE, FALSE)
<1>1. s \in ReadStates
  BY ReadingType
<1>2. CASE c \in Special
  <2> DEFINE l == Letter[c]
             u == Reading(o, k, x, TRUE, TRUE)
             b == "\\"
  <2>1. l \in AllChars /\ b \in AllChars
    BY <1>2, LetterType, Alphabet
  <2>2. Escaped(c) = <<b, l>>
    BY <1>2 DEF Escaped
  <2>3. u \in ReadStates
    BY ReadingType
  <2>4. ReadChar(s, b) = u /\ ReadChar(u, l) = Take(u, <<b, l>>) /\ Take(u, <<b, l>>) = Reading(o, k, x \o <<b, l>>, TRUE, FALSE)
    <3>1. ReadChar(s, b) = u
      BY ReadEscape
    <3>2. ReadChar(u, l) = Take(u, <<b, l>>)
      BY ReadEscape
    <3>3. Take(u, <<b, l>>) = Reading(o, k, x \o <<b, l>>, TRUE, FALSE)
      <4>1. TakesValue(o, k, x, TRUE, <<b, l>>)
        BY TakeAny
      <4> QED
        BY <4>1 DEF TakesValue
    <3> QED
      BY <3>1, <3>2, <3>3
  <2> HIDE DEF l, u, s, b
  <2> DEFINE v == <<b>>
             w == <<l>>
  <2>5. v \in Seq(AllChars) /\ w \in Seq(AllChars) /\ <<b, l>> = v \o w
    BY <2>1
  <2>6. After(ReadF, s, v) = ReadChar(s, b) /\ After(ReadF, u, w) = ReadChar(u, l)
    BY <1>1, <2>1, <2>3, ReadOne
  <2> HIDE DEF v, w
  <2>7. After(ReadF, s, v \o w) = After(ReadF, After(ReadF, s, v), w)
    BY <1>1, <2>5, ReadBoth
  <2>8. After(ReadF, s, <<b, l>>) = Reading(o, k, x \o <<b, l>>, TRUE, FALSE)
    BY <2>4, <2>5, <2>6, <2>7
  <2> QED
    BY <2>2, <2>8 DEF s
<1>3. CASE c \notin Special
  <2>1. Escaped(c) = <<c>> /\ c \notin {"\\", Space}
    BY <1>3, Alphabet DEF Escaped
  <2>2. ReadChar(s, c) = Take(s, <<c>>)
    BY <2>1, ReadPlain
  <2>3. Take(s, <<c>>) = Reading(o, k, x \o <<c>>, TRUE, FALSE)
    <3>1. TakesValue(o, k, x, FALSE, <<c>>)
      BY TakeAny
    <3> QED
      BY <3>1 DEF TakesValue
  <2> HIDE DEF s
  <2>4. After(ReadF, s, <<c>>) = ReadChar(s, c)
    BY <1>1, ReadOne
  <2> QED
    BY <2>1, <2>2, <2>3, <2>4 DEF s
<1> QED
  BY <1>2, <1>3

(* And that of a text.                                                       *)
LEMMA ReadValueFrom ==
    ASSUME NEW o \in Maps, NEW k \in Seq(AllChars), NEW v \in Seq(Chars)
    PROVE  /\ Escape(v) \in Seq(AllChars)
           /\ After(ReadF, Reading(o, k, <<>>, TRUE, FALSE), Escape(v)) = Reading(o, k, Escape(v), TRUE, FALSE)
<1> DEFINE n == Len(v)
           s == Reading(o, k, <<>>, TRUE, FALSE)
           At(x) == Reading(o, k, x, TRUE, FALSE)
<1>1. PICK e : EscapeSteps(v, e)
  BY EscapeRun
<1>2. /\ e \in [0..n -> Seq(Clean)] /\ e[0] = <<>> /\ e[n] = Escape(v)
      /\ \A i \in 1..n : e[i] = e[i - 1] \o Escaped(v[i])
  BY <1>1 DEF EscapeSteps
<1>3. n \in Nat /\ n \in 0..n /\ \A i \in 1..n : v[i] \in AllChars
  BY Alphabet
<1>4. \A x \in Seq(Clean) : x \in Seq(AllChars)
  BY CleanChars
<1>5. s \in ReadStates
  <2>1. <<>> \in Seq(AllChars)
    OBVIOUS
  <2> QED
    BY <2>1, ReadingType
<1> DEFINE T == {i \in 0..n : After(ReadF, s, e[i]) = At(e[i])}
<1> HIDE DEF n
<1>6. 0 \in T
  <2>1. Space \in AllChars
    BY Alphabet
  <2>2. After(ReadF, s, <<>>) = s
    <3> HIDE DEF s
    <3> QED
      BY <1>5, <2>1, ReadOne
  <2>3. 0 \in 0..n
    BY <1>3
  <2> QED
    BY <1>2, <2>2, <2>3
<1>7. ASSUME NEW i \in 1..n, i - 1 \in T PROVE i \in T
  <2> DEFINE x == e[i - 1]
             c == v[i]
             y == Escaped(c)
  <2>1. i \in 0..n /\ i - 1 \in 0..n
    BY <1>3
  <2>2. x \in Seq(Clean) /\ c \in AllChars
    BY <1>2, <1>3, <2>1
  <2>3. x \in Seq(AllChars)
    BY <2>2, <1>4
  <2>4. e[i] = x \o y /\ After(ReadF, s, x) = At(x)
    BY <1>2, <1>7
  <2> HIDE DEF x, c, s
  <2>5. y \in Seq(AllChars)
    BY <2>2, <1>4, EscapedType
  <2>6. After(ReadF, At(x), y) = At(x \o y)
    BY <2>2, <2>3, ReadEscaped
  <2> HIDE DEF y
  <2>7. After(ReadF, s, x \o y) = After(ReadF, After(ReadF, s, x), y)
    BY <1>5, <2>3, <2>5, ReadBoth
  <2>8. After(ReadF, s, e[i]) = At(e[i])
    BY <2>4, <2>6, <2>7
  <2> QED
    BY <2>1, <2>8 DEF s
<1>8. n \in T
  <2> HIDE DEF T
  <2>1. \A i \in 0..n : i \in T
    BY <1>3, <1>6, <1>7, UpTo, Zenon
  <2> QED
    BY <2>1, <1>3
<1>9. Escape(v) \in Seq(AllChars)
  <2>1. Escape(v) \in Seq(Clean)
    BY <1>2, <1>3
  <2> QED
    BY <2>1, <1>4
<1>10. After(ReadF, s, e[n]) = At(e[n])
  BY <1>8
<1> QED
  BY <1>2, <1>9, <1>10

(* A text without a backslash means itself.                                  *)
LEMMA UnescapePlain ==
    ASSUME NEW w \in Seq(AllChars \ {"\\"})
    PROVE  Unescape(w) = w /\ w \in Seq(AllChars)
<1> DEFINE n == Len(w)
<1>1. n \in Nat /\ w \in Seq(AllChars) /\ \A i \in 1..n : w[i] # "\\"
  OBVIOUS
<1>2. PICK u : UnescapeSteps(w, u)
  BY <1>1, UnescapeRun
<1>3. /\ u[0] = Unread(<<>>, FALSE)
      /\ \A i \in 1..n : u[i] = UnescapeChar(u[i - 1], w[i])
      /\ Unescape(w) = IF u[n].esc THEN Append(u[n].out, "\\") ELSE u[n].out
  BY <1>2 DEF UnescapeSteps, Unread
<1>4. SubSeq(w, 1, 0) = <<>> /\ SubSeq(w, 1, n) = w /\ \A i \in 1..n : Append(SubSeq(w, 1, i - 1), w[i]) = SubSeq(w, 1, i)
  BY SubTexts
<1> HIDE DEF n
<1> DEFINE T == {i \in 0..n : u[i] = Unread(SubSeq(w, 1, i), FALSE)}
<1>5. 0 \in T
  <2>1. 0 \in 0..n
    BY <1>1
  <2>2. u[0] = Unread(SubSeq(w, 1, 0), FALSE)
    BY <1>3, <1>4, Zenon
  <2> QED
    BY <2>1, <2>2
<1>6. ASSUME NEW i \in 1..n, i - 1 \in T PROVE i \in T
  <2>1. i \in 0..n /\ w[i] # "\\"
    BY <1>1
  <2>2. u[i] = UnescapeChar(Unread(SubSeq(w, 1, i - 1), FALSE), w[i])
    BY <1>3, <1>6
  <2>3. u[i] = Unread(Append(SubSeq(w, 1, i - 1), w[i]), FALSE)
    BY <2>1, <2>2, UnescapeCases
  <2>4. u[i] = Unread(SubSeq(w, 1, i), FALSE)
    BY <2>3, <1>4
  <2> QED
    BY <2>1, <2>4
<1>7. n \in T
  <2> HIDE DEF T
  <2>1. \A i \in 0..n : i \in T
    BY <1>1, <1>5, <1>6, UpTo, Zenon
  <2> QED
    BY <2>1, <1>1
<1>8. u[n] = Unread(w, FALSE)
  BY <1>4, <1>7
<1>9. Unescape(w) = w
  BY <1>3, <1>8 DEF Unread
<1> QED
  BY <1>1, <1>9

(* o with another value for the key k.                                       *)
Extend(o, k, v) == [x \in DOMAIN o \cup {k} |-> IF x = k THEN v ELSE o[x]]

(* What a pair stores.                                                       *)
LEMMA StoredIs ==
    ASSUME NEW o, NEW k \in Seq(AllChars \ {"\\"}), NEW v \in Seq(Chars), NEW in
    PROVE  /\ Stored(Reading(o, k, Escape(v), in, FALSE)) = Extend(o, k, v)
           /\ Stored(Reading(o, k, <<>>, in, FALSE)) = Extend(o, k, <<>>)
<1>1. Unescape(k) = k
  BY UnescapePlain
<1>2. Unescape(Escape(v)) = v
  BY UnescapeEscape
<1>3. Unescape(<<>>) = <<>>
  <2> DEFINE z == <<>>
  <2>1. z \in Seq(AllChars \ {"\\"})
    OBVIOUS
  <2> HIDE DEF z
  <2>2. Unescape(z) = z
    BY <2>1, UnescapePlain
  <2> QED
    BY <2>2 DEF z
<1>4. \A x : Stored(Reading(o, k, x, in, FALSE)) = Extend(o, Unescape(k), Unescape(x))
  BY DEF Stored, Reading, Extend
<1>5. Stored(Reading(o, k, Escape(v), in, FALSE)) = Extend(o, k, v)
  BY <1>1, <1>2, <1>4
<1>6. Stored(Reading(o, k, <<>>, in, FALSE)) = Extend(o, k, <<>>)
  BY <1>1, <1>3, <1>4
<1> QED
  BY <1>5, <1>6

-----------------------------------------------------------------------------
(* Reading an entry.                                                         *)

(* What is before the '=': names, and the spaces of keys written alone.      *)
KeyText == Names \cup {Space}

(* What a name is not.                                                       *)
LEMMA NameChars ==
    /\ Names \subseteq Clean /\ Names \subseteq AllChars /\ KeyText \subseteq AllChars
    /\ Names \subseteq KeyText /\ Space \in KeyText /\ Space \in AllChars /\ "=" \in AllChars
    /\ KeyText \subseteq AllChars \ {"\\"} /\ "=" \notin KeyText /\ "\\" \notin KeyText
    /\ \A k \in Names : Solid(k) /\ k # "error" /\ k \notin Events
<1>1. Names \subseteq AllChars
  BY DEF AllChars
<1>2. Names \cap Special = {} /\ Names \cap Wide = {} /\ "=" \notin Names /\ "error" \notin Names /\ Names \cap Events = {}
  BY NamesAssumption
<1>3. Names \subseteq Clean
  BY <1>1, <1>2, CleanChars
<1>4. Space # "\\" /\ Space # "="
  BY DEF Space
<1>5. Space \in AllChars /\ "=" \in AllChars /\ "\\" \in Special
  BY Alphabet
<1>6. Blanks \subseteq Special
  BY DEF Blanks, Special, Space, Newline
<1>7. \A k \in Names : Solid(k)
  BY <1>2, <1>6 DEF Solid
<1> QED
  BY <1>1, <1>2, <1>3, <1>4, <1>5, <1>7 DEF KeyText

(* Where a key begins, the value being empty.                                *)
AtName(o, K) == Reading(o, K, <<>>, FALSE, FALSE)

(* Its type.                                                                 *)
LEMMA AtNameType ==
    ASSUME NEW o \in Maps, NEW K \in Seq(KeyText)
    PROVE  AtName(o, K) \in ReadStates /\ K \in Seq(AllChars)
<1>1. KeyText \subseteq AllChars
  BY NameChars
<1>2. K \in Seq(AllChars)
  BY <1>1
<1>3. <<>> \in Seq(AllChars)
  OBVIOUS
<1> QED
  BY <1>2, <1>3, ReadingType DEF AtName

(* A character of a key is taken.                                            *)
KeyRead(o, k, v, c) ==
    c \notin {"\\", "="} => ReadChar(Reading(o, k, v, FALSE, FALSE), c) = Take(Reading(o, k, v, FALSE, FALSE), <<c>>)

LEMMA KeyChar == \A o, k, v, c : KeyRead(o, k, v, c)
BY DEF KeyRead, ReadChar, Reading

(* A character of a key.                                                     *)
LEMMA ReadKeyChar ==
    ASSUME NEW o \in Maps, NEW K \in Seq(KeyText), NEW c \in KeyText
    PROVE  After(ReadF, AtName(o, K), <<c>>) = AtName(o, K \o <<c>>)
<1>1. c \in AllChars /\ c \notin {"\\", "="}
  BY NameChars
<1>2. ReadChar(Reading(o, K, <<>>, FALSE, FALSE), c) = Take(Reading(o, K, <<>>, FALSE, FALSE), <<c>>)
  BY <1>1, KeyChar, Zenon DEF KeyRead
<1>3. TakesKey(o, K, <<>>, FALSE, <<c>>)
  BY TakeAny
<1>4. ReadChar(AtName(o, K), c) = AtName(o, K \o <<c>>)
  BY <1>2, <1>3, Zenon DEF TakesKey, AtName
<1>5. After(ReadF, AtName(o, K), <<c>>) = ReadChar(AtName(o, K), c)
  BY <1>1, AtNameType, ReadOne
<1> QED
  BY <1>4, <1>5

(* The '=' behind it.                                                        *)
LEMMA ReadEquals ==
    ASSUME NEW o \in Maps, NEW K \in Seq(KeyText)
    PROVE  After(ReadF, AtName(o, K), <<"=">>) = Reading(o, K, <<>>, TRUE, FALSE)
<1>1. "=" \in AllChars
  BY NameChars
<1>2. ReadChar(AtName(o, K), "=") = Reading(o, K, <<>>, TRUE, FALSE)
  BY ReadPlain DEF AtName
<1>3. After(ReadF, AtName(o, K), <<"=">>) = ReadChar(AtName(o, K), "=")
  BY <1>1, AtNameType, ReadOne
<1> QED
  BY <1>2, <1>3

(* Characters behind a text.                                                 *)
LEMMA TwoChars ==
    ASSUME NEW a \in AllChars, NEW b \in AllChars
    PROVE  /\ <<a>> \in Seq(AllChars) /\ <<b>> \in Seq(AllChars) /\ <<a, b>> \in Seq(AllChars)
           /\ <<a, b>> = <<a>> \o <<b>>
<1> DEFINE v == <<a>>
           w == <<b>>
           x == <<a, b>>
<1>1. v \in Seq(AllChars) /\ Len(v) = 1 /\ v[1] = a
  OBVIOUS
<1>2. w \in Seq(AllChars) /\ Len(w) = 1 /\ w[1] = b
  OBVIOUS
<1>3. x \in Seq(AllChars) /\ Len(x) = 2 /\ x[1] = a /\ x[2] = b
  OBVIOUS
<1> HIDE DEF v, w, x
<1> DEFINE y == v \o w
<1>4. y \in Seq(AllChars) /\ Len(y) = 2 /\ y[1] = v[1] /\ y[2] = w[1]
  <2>1. v \in Seq(AllChars) /\ w \in Seq(AllChars)
    BY <1>1, <1>2
  <2>2. y \in Seq(AllChars)
    BY <2>1
  <2>3. Len(y) = Len(v) + Len(w)
    BY <2>1
  <2>4. \A k \in 1..Len(v) : y[k] = v[k]
    BY <2>1
  <2>5. \A k \in 1..Len(w) : y[Len(v) + k] = w[k]
    BY <2>1
  <2>6. /\ y \in Seq(AllChars) /\ Len(y) = Len(v) + Len(w)
        /\ \A k \in 1..Len(v) : y[k] = v[k]
        /\ \A k \in 1..Len(w) : y[Len(v) + k] = w[k]
    BY <2>2, <2>3, <2>4, <2>5
  <2>7. 1 \in 1..Len(v) /\ 1 \in 1..Len(w) /\ Len(v) + 1 = 2 /\ Len(v) + Len(w) = 2
    BY <1>1, <1>2
  <2> HIDE DEF y
  <2> QED
    BY <2>6, <2>7
<1> HIDE DEF y
<1>5. \A k \in 1..2 : k = 1 \/ k = 2
  OBVIOUS
<1>6. x = y
  BY <1>1, <1>2, <1>3, <1>4, <1>5, SameSeq
<1> QED
  BY <1>1, <1>2, <1>3, <1>6 DEF v, w, x, y

(* Texts one behind the other.                                               *)
LEMMA ConcatTexts ==
    ASSUME NEW A, NEW u \in Seq(A), NEW v \in Seq(A), NEW w \in Seq(A)
    PROVE  u \o v \in Seq(A) /\ (u \o v) \o w \in Seq(A) /\ (u \o v) \o w = u \o (v \o w)
OBVIOUS

(* A key, '=' and an escaped value.                                          *)
LEMMA ReadParamFrom ==
    ASSUME NEW o \in Maps, NEW K \in Seq(KeyText), NEW key \in Names, NEW v \in Seq(Chars)
    PROVE  /\ <<key, "=">> \o Escape(v) \in Seq(AllChars)
           /\ After(ReadF, AtName(o, K), <<key, "=">> \o Escape(v)) = Reading(o, K \o <<key>>, Escape(v), TRUE, FALSE)
<1> DEFINE x == <<key, "=">>
           y == Escape(v)
           s == AtName(o, K)
           M == K \o <<key>>
           a == <<key>>
           b == <<"=">>
<1>1. key \in AllChars /\ "=" \in AllChars /\ key \in KeyText
  BY NameChars
<1>2. x \in Seq(AllChars) /\ a \in Seq(AllChars) /\ b \in Seq(AllChars) /\ x = a \o b
  BY <1>1, TwoChars
<1>3. s \in ReadStates
  BY AtNameType
<1>4. M \in Seq(KeyText)
  BY <1>1
<1>5. After(ReadF, s, a) = AtName(o, M)
  BY <1>1, ReadKeyChar
<1> HIDE DEF M
<1>6. After(ReadF, AtName(o, M), b) = Reading(o, M, <<>>, TRUE, FALSE)
  BY <1>4, ReadEquals
<1>7. M \in Seq(AllChars)
  BY <1>4, AtNameType
<1>8. y \in Seq(AllChars) /\ After(ReadF, Reading(o, M, <<>>, TRUE, FALSE), y) = Reading(o, M, y, TRUE, FALSE)
  BY <1>7, ReadValueFrom
<1> HIDE DEF x, y, s, a, b
<1>9. After(ReadF, s, a \o b) = After(ReadF, After(ReadF, s, a), b)
  BY <1>2, <1>3, ReadBoth
<1>10. After(ReadF, s, x \o y) = After(ReadF, After(ReadF, s, x), y)
  BY <1>2, <1>3, <1>8, ReadBoth
<1>11. After(ReadF, s, x \o y) = Reading(o, M, y, TRUE, FALSE)
  BY <1>2, <1>5, <1>6, <1>8, <1>9, <1>10
<1>12. x \o y \in Seq(AllChars)
  BY <1>2, <1>8, ConcatTexts
<1> QED
  BY <1>11, <1>12 DEF x, y, s, M

(* A pair with its value, or with what is left of it; see Pair().             *)
Piece(p, w, bare) == IF bare /\ p[2] = <<>> THEN <<p[1]>> ELSE <<p[1], "=">> \o Escape(w)

(* Its characters.                                                           *)
LEMMA PieceType ==
    ASSUME NEW p \in Names \X Seq(Chars), NEW w \in Seq(Chars), NEW bare
    PROVE  Piece(p, w, bare) \in Seq(Clean) /\ Piece(p, w, bare) # <<>> /\ Piece(p, w, bare)[1] = p[1]
<1> DEFINE x == Escape(w)
<1>1. p[1] \in Clean /\ "=" \in Clean
  BY NameChars, CleanChars
<1>2. x \in Seq(Clean)
  <2>1. PICK e : EscapeSteps(w, e)
    BY EscapeRun
  <2>2. Len(w) \in 0..Len(w)
    OBVIOUS
  <2> QED
    BY <2>1, <2>2 DEF EscapeSteps
<1> HIDE DEF x
<1>3. <<p[1], "=">> \o x \in Seq(Clean) /\ <<p[1], "=">> \o x # <<>> /\ (<<p[1], "=">> \o x)[1] = p[1]
  BY <1>1, <1>2
<1>4. <<p[1]>> \in Seq(Clean) /\ <<p[1]>> # <<>> /\ <<p[1]>>[1] = p[1]
  BY <1>1
<1> QED
  BY <1>3, <1>4 DEF Piece, x

(* What reading it leaves.                                                   *)
PieceRead(o, K, p, w, bare) ==
    \E s \in ReadStates :
        /\ s = After(ReadF, AtName(o, K), Piece(p, w, bare))
        /\ s.esc = FALSE /\ s.key # <<>> /\ Stored(s) = Extend(o, K \o <<p[1]>>, w)

(* The last pair is stored at the end of the text.                           *)
LEMMA ReadPiece ==
    ASSUME NEW o \in Maps, NEW K \in Seq(KeyText), NEW p \in Names \X Seq(Chars), NEW w \in Seq(Chars),
           p[2] = <<>> => w = <<>>, NEW bare
    PROVE  PieceRead(o, K, p, w, bare)
<1> DEFINE key == p[1]
           M == K \o <<key>>
<1>1. key \in Names /\ key \in KeyText
  BY NameChars
<1>2. M \in Seq(KeyText) /\ M # <<>>
  BY <1>1
<1> HIDE DEF M
<1>3. M \in Seq(AllChars \ {"\\"}) /\ M \in Seq(AllChars)
  BY <1>2, NameChars
<1>4. CASE bare /\ p[2] = <<>>
  <2> DEFINE s == AtName(o, M)
  <2>1. Piece(p, w, bare) = <<key>> /\ w = <<>>
    BY <1>4 DEF Piece
  <2>2. s \in ReadStates
    BY <1>2, AtNameType
  <2>3. After(ReadF, AtName(o, K), <<key>>) = s
    BY <1>1, ReadKeyChar DEF M
  <2>4. s.esc = FALSE /\ s.key = M
    BY DEF AtName, Reading
  <2>5. Stored(s) = Extend(o, M, <<>>)
    <3>1. Stored(Reading(o, M, <<>>, FALSE, FALSE)) = Extend(o, M, <<>>)
      BY <1>3, StoredIs
    <3> QED
      BY <3>1 DEF AtName
  <2> HIDE DEF s
  <2> QED
    BY <1>2, <2>1, <2>2, <2>3, <2>4, <2>5 DEF M, PieceRead
<1>5. CASE ~(bare /\ p[2] = <<>>)
  <2> DEFINE s == Reading(o, M, Escape(w), TRUE, FALSE)
  <2>1. Piece(p, w, bare) = <<key, "=">> \o Escape(w)
    BY <1>5 DEF Piece
  <2>2. After(ReadF, AtName(o, K), <<key, "=">> \o Escape(w)) = s
    BY <1>1, ReadParamFrom DEF M
  <2>3. s \in ReadStates
    <3>1. Escape(w) \in Seq(AllChars)
      BY <1>3, ReadValueFrom
    <3> QED
      BY <1>3, <3>1, ReadingType
  <2>4. s.esc = FALSE /\ s.key = M
    BY DEF Reading
  <2>5. Stored(s) = Extend(o, M, w)
    BY <1>3, StoredIs
  <2> HIDE DEF s
  <2> QED
    BY <1>2, <2>1, <2>2, <2>3, <2>4, <2>5 DEF M, PieceRead
<1> QED
  BY <1>4, <1>5

-----------------------------------------------------------------------------
(* The pairs of an entry.                                                    *)

(* A record: keys with values, each key once.                                *)
IsRecord(R) ==
    /\ R \in Seq(Names \X Seq(Chars)) /\ Len(R) \in Nat \ {0}
    /\ \A i, j \in 1..Len(R) : R[i][1] = R[j][1] => i = j

(* Its pairs.                                                                *)
Pairs(R, bare) == [i \in DOMAIN R |-> Pair(R[i], bare)]

(* The key is written alone.                                                 *)
Alone(R, bare, i) == bare /\ R[i][2] = <<>>

(* What is read of the first i pairs, the keys written alone that are still  *)
(* waiting for one with a value being K.                                     *)
ReadUpTo(R, bare, i, o, K) ==
    /\ o \in Maps /\ K \in Seq(KeyText) /\ (K = <<>> \/ Len(K) > 1)
    /\ \A j \in 1..Len(R) : <<R[j][1]>> \in DOMAIN o => j <= i /\ o[<<R[j][1]>>] = R[j][2]
    /\ (\A j \in 1..i : ~Alone(R, bare, j)) => K = <<>> /\ DOMAIN o = {<<R[j][1]>> : j \in 1..i}

(* A key of one name is none of several.                                     *)
LEMMA KeyLengths ==
    /\ \A a \in KeyText, b \in KeyText : <<a>> = <<b>> => a = b
    /\ \A a \in KeyText : <<>> \o <<a>> = <<a>>
    /\ \A K \in Seq(KeyText), a \in KeyText, b \in KeyText : Len(K) > 1 => K \o <<a>> # <<b>>
<1>1. \A a \in KeyText, b \in KeyText : <<a>> = <<b>> => a = b
  OBVIOUS
<1>2. \A a \in KeyText : <<>> \o <<a>> = <<a>>
  OBVIOUS
<1>3. ASSUME NEW K \in Seq(KeyText), NEW a \in KeyText, NEW b \in KeyText, Len(K) > 1
      PROVE  K \o <<a>> # <<b>>
  <2> DEFINE y == K \o <<a>>
             z == <<b>>
  <2>1. Len(y) = Len(K) + 1 /\ Len(K) \in Nat
    OBVIOUS
  <2>2. Len(z) = 1
    OBVIOUS
  <2> HIDE DEF y, z
  <2>3. Len(y) # 1
    BY <2>1, <1>3
  <2>4. y # z
    BY <2>2, <2>3
  <2> QED
    BY <2>4 DEF y, z
<1> QED
  BY <1>1, <1>2, <1>3

(* A map with another pair is one.                                           *)
LEMMA ExtendType ==
    ASSUME NEW o \in Maps, NEW k \in Seq(AllChars), NEW v \in Seq(AllChars)
    PROVE  Extend(o, k, v) \in Maps
<1> DEFINE f == Extend(o, k, v)
<1>1. PICK D \in SUBSET Seq(AllChars) : o \in [D -> Seq(AllChars)]
  BY DEF Maps
<1>2. f = [x \in D \cup {k} |-> IF x = k THEN v ELSE o[x]]
  BY <1>1 DEF Extend
<1> HIDE DEF f
<1>3. f \in [D \cup {k} -> Seq(AllChars)]
  BY <1>1, <1>2
<1>4. D \cup {k} \in SUBSET Seq(AllChars)
  BY <1>1
<1> QED
  BY <1>3, <1>4 DEF Maps, f

(* A key that is written alone waits.                                        *)
LEMMA KeepsWaiting ==
    ASSUME NEW R, IsRecord(R), NEW bare, NEW i \in 1..Len(R), NEW o, NEW K, ReadUpTo(R, bare, i - 1, o, K),
           Alone(R, bare, i)
    PROVE  ReadUpTo(R, bare, i, o, (K \o <<R[i][1]>>) \o <<Space>>)
<1> DEFINE key == R[i][1]
           M == K \o <<key>>
           N == M \o <<Space>>
<1>1. i \in Nat /\ i - 1 <= i /\ i \in 1..i /\ Len(R) \in Nat
  BY DEF IsRecord
<1>2. key \in KeyText /\ Space \in KeyText
  BY NameChars DEF IsRecord
<1>3. K \in Seq(KeyText) /\ o \in Maps
  BY DEF ReadUpTo
<1>4. M \in Seq(KeyText) /\ Len(M) = Len(K) + 1 /\ Len(K) \in Nat
  BY <1>2, <1>3
<1> HIDE DEF M, key
<1>5. N \in Seq(KeyText) /\ Len(N) = Len(M) + 1
  BY <1>2, <1>4
<1> HIDE DEF N
<1>6. Len(N) > 1
  BY <1>4, <1>5
<1>7. \A j \in 1..Len(R) : <<R[j][1]>> \in DOMAIN o => j <= i /\ o[<<R[j][1]>>] = R[j][2]
  <2>1. \A j \in 1..Len(R) : <<R[j][1]>> \in DOMAIN o => j <= i - 1 /\ o[<<R[j][1]>>] = R[j][2]
    BY DEF ReadUpTo
  <2>2. \A j \in 1..Len(R) : j <= i - 1 => j <= i
    BY <1>1
  <2> QED
    BY <2>1, <2>2, Zenon
<1>8. ~\A j \in 1..i : ~Alone(R, bare, j)
  BY <1>1
<1> QED
  BY <1>3, <1>5, <1>6, <1>7, <1>8 DEF ReadUpTo, N, M, key

(* A pair is stored: its value is v, or what is left of it.                  *)
StoredTo(R, i, w, o) ==
    \A j \in 1..Len(R) : <<R[j][1]>> \in DOMAIN o =>
        j <= i /\ o[<<R[j][1]>>] = IF j = i THEN w ELSE R[j][2]

(* And the keys are those before it, if none is waiting.                     *)
PairStored(R, bare, i, w, f) ==
    /\ StoredTo(R, i, w, f) /\ f = [x \in DOMAIN f |-> f[x]]
    /\ (\A j \in 1..(i - 1) : ~Alone(R, bare, j)) => DOMAIN f = {<<R[j][1]>> : j \in 1..i}

(* Reading a pair stores it.                                                 *)
LEMMA StoresPair ==
    ASSUME NEW R, IsRecord(R), NEW bare, NEW i \in 1..Len(R), NEW o, NEW K, ReadUpTo(R, bare, i - 1, o, K), NEW w
    PROVE  PairStored(R, bare, i, w, Extend(o, K \o <<R[i][1]>>, w))
<1> DEFINE key == R[i][1]
           M == K \o <<key>>
           f == Extend(o, M, w)
<1>1. i \in Nat /\ i <= i /\ i \in 1..i /\ Len(R) \in Nat
  BY DEF IsRecord
<1>2. \A j \in 1..Len(R) : R[j][1] \in KeyText
  BY NameChars DEF IsRecord
<1>3. K \in Seq(KeyText) /\ (K = <<>> \/ Len(K) > 1)
  BY DEF ReadUpTo
<1>4. K = <<>> => M = <<key>>
  BY <1>2, KeyLengths
<1>5. Len(K) > 1 => \A j \in 1..Len(R) : M # <<R[j][1]>>
  BY <1>2, <1>3, KeyLengths
<1>6. \A j \in 1..Len(R) : <<R[j][1]>> \in DOMAIN o => j <= i - 1 /\ o[<<R[j][1]>>] = R[j][2]
  BY DEF ReadUpTo
<1>7. \A j \in 1..Len(R) : <<R[j][1]>> = M => j = i
  <2> SUFFICES ASSUME NEW j \in 1..Len(R), <<R[j][1]>> = M PROVE j = i
    OBVIOUS
  <2>1. M = <<key>>
    BY <1>3, <1>4, <1>5
  <2>2. R[j][1] = R[i][1]
    BY <2>1, <1>2, KeyLengths
  <2> QED
    BY <2>2 DEF IsRecord
<1>8. f = [x \in DOMAIN f |-> f[x]]
  BY DEF Extend
<1>9. DOMAIN f = DOMAIN o \cup {M} /\ \A x \in DOMAIN o \cup {M} : f[x] = IF x = M THEN w ELSE o[x]
  BY DEF Extend
<1> HIDE DEF f
<1>10. StoredTo(R, i, w, f)
  <2> SUFFICES ASSUME NEW j \in 1..Len(R), <<R[j][1]>> \in DOMAIN f
               PROVE  j <= i /\ f[<<R[j][1]>>] = IF j = i THEN w ELSE R[j][2]
    BY DEF StoredTo
  <2> DEFINE x == <<R[j][1]>>
  <2> HIDE DEF M
  <2>1. CASE x = M
    <3>1. j = i /\ f[x] = w
      BY <2>1, <1>7, <1>9
    <3> QED
      BY <3>1, <1>1
  <2>2. CASE x # M
    <3>1. x \in DOMAIN o /\ f[x] = o[x]
      BY <2>2, <1>9
    <3>2. j <= i - 1 /\ o[x] = R[j][2]
      BY <3>1, <1>6
    <3> HIDE DEF x
    <3>3. j # i /\ j <= i
      BY <3>2, <1>1
    <3> QED
      BY <3>1, <3>2, <3>3 DEF x
  <2> QED
    BY <2>1, <2>2
<1>11. ASSUME \A j \in 1..(i - 1) : ~Alone(R, bare, j) PROVE DOMAIN f = {<<R[j][1]>> : j \in 1..i}
  <2>1. K = <<>> /\ DOMAIN o = {<<R[j][1]>> : j \in 1..(i - 1)}
    BY <1>11 DEF ReadUpTo
  <2>2. M = <<key>>
    BY <2>1, <1>4
  <2>3. 1..i = (1..(i - 1)) \cup {i}
    BY <1>1
  <2> QED
    BY <1>9, <2>1, <2>2, <2>3
<1> QED
  BY <1>8, <1>10, <1>11 DEF f, PairStored

(* One pair after the other.                                                 *)
LEMMA ReadPair ==
    ASSUME NEW R, IsRecord(R), NEW bare, NEW i \in 1..Len(R), NEW o, NEW K, ReadUpTo(R, bare, i - 1, o, K)
    PROVE  /\ Pair(R[i], bare) \in Seq(AllChars)
           /\ \E p, L : /\ ReadUpTo(R, bare, i, p, L)
                        /\ After(ReadF, AtName(o, K), Pair(R[i], bare) \o <<Space>>) = AtName(p, L)
<1> DEFINE key == R[i][1]
           v == R[i][2]
           M == K \o <<key>>
           x == Pair(R[i], bare)
           z == <<Space>>
           s == AtName(o, K)
<1>1. key \in Names /\ v \in Seq(Chars) /\ key \in KeyText /\ Space \in KeyText /\ R[i] \in Names \X Seq(Chars)
  BY NameChars DEF IsRecord
<1>2. x = Piece(R[i], v, bare)
  BY DEF Pair, Piece, Param
<1>3. x \in Seq(AllChars)
  <2>1. Piece(R[i], v, bare) \in Seq(Clean) /\ Clean \subseteq AllChars
    BY <1>1, PieceType, CleanChars
  <2> QED
    BY <2>1, <1>2
<1>4. z \in Seq(AllChars)
  BY NameChars
<1>5. o \in Maps /\ K \in Seq(KeyText)
  BY DEF ReadUpTo
<1>6. s \in ReadStates
  BY <1>5, AtNameType
<1>7. M \in Seq(KeyText)
  BY <1>1, <1>5
<1>8. After(ReadF, s, x \o z) = After(ReadF, After(ReadF, s, x), z)
  <2> HIDE DEF s, x, z
  <2> QED
    BY <1>3, <1>4, <1>6, ReadBoth
<1>9. CASE Alone(R, bare, i)
  <2> DEFINE N == M \o z
  <2>1. x = <<key>>
    BY <1>2, <1>9 DEF Piece, Alone
  <2>2. After(ReadF, s, <<key>>) = AtName(o, M)
    BY <1>1, <1>5, ReadKeyChar
  <2>3. ReadUpTo(R, bare, i, o, N)
    BY <1>9, KeepsWaiting
  <2> HIDE DEF M
  <2>4. After(ReadF, AtName(o, M), <<Space>>) = AtName(o, M \o <<Space>>)
    BY <1>1, <1>5, <1>7, ReadKeyChar
  <2> HIDE DEF s, x
  <2>5. After(ReadF, s, x \o z) = AtName(o, N)
    BY <1>8, <2>1, <2>2, <2>4
  <2> HIDE DEF N
  <2> QED
    BY <1>3, <2>3, <2>5 DEF s, x, z
<1>10. CASE ~Alone(R, bare, i)
  <2> DEFINE u == Reading(o, M, Escape(v), TRUE, FALSE)
             p == Extend(o, M, v)
             L == <<>>
  <2>1. x = <<key, "=">> \o Escape(v)
    BY <1>2, <1>10 DEF Piece, Alone
  <2>2. After(ReadF, s, <<key, "=">> \o Escape(v)) = u
    BY <1>1, <1>5, ReadParamFrom
  <2>3. PairStored(R, bare, i, v, p)
    BY StoresPair
  <2> HIDE DEF M
  <2>4. M \in Seq(AllChars) /\ M \in Seq(AllChars \ {"\\"})
    BY <1>7, NameChars
  <2>5. p \in Maps
    <3>1. v \in Seq(AllChars)
      BY <1>1, Alphabet
    <3> QED
      BY <1>5, <2>4, <3>1, ExtendType
  <2>6. Escape(v) \in Seq(AllChars)
    BY <1>1, <1>5, <2>4, ReadValueFrom
  <2>7. u \in ReadStates
    BY <1>5, <2>4, <2>6, ReadingType
  <2>8. ReadChar(u, Space) = Reading(Stored(u), <<>>, <<>>, FALSE, FALSE)
    BY ReadPlain
  <2>9. Stored(u) = p
    BY <1>1, <2>4, StoredIs
  <2> HIDE DEF u, p
  <2>10. After(ReadF, u, z) = ReadChar(u, Space)
    <3>1. Space \in AllChars
      BY NameChars
    <3> QED
      BY <2>7, <3>1, ReadOne
  <2>11. ReadChar(u, Space) = AtName(p, L)
    BY <2>8, <2>9 DEF AtName
  <2> HIDE DEF s, x, z
  <2>12. After(ReadF, s, x \o z) = AtName(p, L)
    BY <1>8, <2>1, <2>2, <2>10, <2>11
  <2>13. ReadUpTo(R, bare, i, p, L)
    <3>1. \A j \in 1..Len(R) : <<R[j][1]>> \in DOMAIN p => j <= i /\ p[<<R[j][1]>>] = R[j][2]
      BY <2>3 DEF PairStored, StoredTo
    <3>2. \A j \in 1..(i - 1) : j \in 1..i
      BY DEF IsRecord
    <3>3. (\A j \in 1..i : ~Alone(R, bare, j)) => L = <<>> /\ DOMAIN p = {<<R[j][1]>> : j \in 1..i}
      BY <2>3, <3>2 DEF PairStored
    <3>4. L \in Seq(KeyText) /\ L = <<>>
      OBVIOUS
    <3> HIDE DEF L
    <3> QED
      BY <2>5, <3>1, <3>3, <3>4 DEF ReadUpTo
  <2> HIDE DEF L
  <2> QED
    BY <1>3, <2>12, <2>13 DEF s, x, z
<1> QED
  BY <1>9, <1>10

(* All but the last.                                                         *)
LEMMA ReadPairs ==
    ASSUME NEW R, IsRecord(R), NEW bare, NEW F, Fronts(AllChars, Pairs(R, bare), <<Space>>, F), NEW i \in 0..Len(R)
    PROVE  /\ F[i] \in Seq(AllChars)
           /\ \E o, K : ReadUpTo(R, bare, i, o, K) /\ After(ReadF, NothingRead, F[i]) = AtName(o, K)
<1> DEFINE n == Len(R)
           At(k) == \E o, K : ReadUpTo(R, bare, k, o, K) /\ After(ReadF, NothingRead, F[k]) = AtName(o, K)
           T == {k \in 0..n : At(k)}
<1>1. n \in Nat /\ DOMAIN R = 1..n
  BY DEF IsRecord
<1>2. Len(Pairs(R, bare)) = n /\ \A k \in 1..n : Pairs(R, bare)[k] = Pair(R[k], bare)
  BY <1>1 DEF Pairs
<1>3. /\ F \in [0..n -> Seq(AllChars)] /\ F[0] = <<>>
      /\ \A k \in 1..n : F[k] = F[k - 1] \o Pair(R[k], bare) \o <<Space>>
  BY <1>2 DEF Fronts
<1> HIDE DEF n
<1>4. NothingRead \in ReadStates /\ Space \in AllChars
  BY NothingType, NameChars
<1>5. 0 \in T
  <2> DEFINE o == [k \in {} |-> <<>>]
             K == <<>>
  <2>1. After(ReadF, NothingRead, <<>>) = NothingRead
    BY <1>4, ReadOne
  <2>2. NothingRead = AtName(o, K)
    BY NothingIs DEF AtName
  <2>3. o \in Maps
    <3>1. NothingRead.out \in Maps /\ NothingRead.out = o
      BY <1>4 DEF ReadStates, NothingRead
    <3> QED
      BY <3>1
  <2>4. DOMAIN o = {} /\ 1..0 = {}
    OBVIOUS
  <2>5. K \in Seq(KeyText) /\ K = <<>>
    OBVIOUS
  <2> HIDE DEF o, K
  <2>6. ReadUpTo(R, bare, 0, o, K)
    BY <2>3, <2>4, <2>5 DEF ReadUpTo
  <2>7. At(0)
    BY <1>3, <2>1, <2>2, <2>6
  <2> QED
    BY <1>1, <2>7
<1>6. ASSUME NEW k \in 1..n, k - 1 \in T PROVE k \in T
  <2> DEFINE x == Pair(R[k], bare)
             z == <<Space>>
             t == F[k - 1]
  <2>1. k \in 0..n /\ k - 1 \in 0..n /\ k \in 1..Len(R)
    BY <1>1 DEF n
  <2>2. PICK o, K : ReadUpTo(R, bare, k - 1, o, K) /\ After(ReadF, NothingRead, t) = AtName(o, K)
    BY <1>6
  <2>3. /\ x \in Seq(AllChars)
        /\ \E p, L : ReadUpTo(R, bare, k, p, L) /\ After(ReadF, AtName(o, K), x \o z) = AtName(p, L)
    BY <2>1, <2>2, ReadPair
  <2>4. t \in Seq(AllChars) /\ z \in Seq(AllChars) /\ F[k] = (t \o x) \o z
    <3>1. t \in Seq(AllChars)
      BY <1>3, <2>1
    <3>2. z \in Seq(AllChars)
      BY <1>4
    <3>3. F[k] = (t \o x) \o z
      BY <1>3, Zenon
    <3> QED
      BY <3>1, <3>2, <3>3
  <2> HIDE DEF x, z, t
  <2>5. F[k] = t \o (x \o z) /\ x \o z \in Seq(AllChars)
    BY <2>3, <2>4, ConcatTexts
  <2>6. After(ReadF, NothingRead, t \o (x \o z)) = After(ReadF, After(ReadF, NothingRead, t), x \o z)
    BY <1>4, <2>4, <2>5, ReadBoth
  <2>7. At(k)
    BY <2>2, <2>3, <2>5, <2>6
  <2> QED
    BY <2>1, <2>7
<1>7. i \in T
  <2> HIDE DEF T
  <2>1. \A k \in 0..n : k \in T
    BY <1>1, <1>5, <1>6, UpTo, Zenon
  <2> QED
    BY <2>1 DEF n
<1> QED
  BY <1>3, <1>7 DEF n

(* The entry, with w for the value of its last pair.                         *)
LEMMA EntryReads ==
    ASSUME NEW R, IsRecord(R), NEW bare, NEW F, Fronts(AllChars, Pairs(R, bare), <<Space>>, F),
           NEW w \in Seq(Chars), R[Len(R)][2] = <<>> => w = <<>>
    PROVE  LET n == Len(R)
               t == F[n - 1] \o Piece(R[n], w, bare)
           IN  t \in Seq(AllChars) /\ PairStored(R, bare, n, w, ParseKeyValue(t))
<1> DEFINE n == Len(R)
           u == F[n - 1]
           x == Piece(R[n], w, bare)
           t == u \o x
<1>1. n \in 1..n /\ n - 1 \in 0..Len(R) /\ n \in 1..Len(R) /\ R[n] \in Names \X Seq(Chars)
  BY DEF IsRecord
<1>2. /\ u \in Seq(AllChars)
      /\ \E o, K : ReadUpTo(R, bare, n - 1, o, K) /\ After(ReadF, NothingRead, u) = AtName(o, K)
  BY <1>1, ReadPairs
<1>3. PICK o, K : ReadUpTo(R, bare, n - 1, o, K) /\ After(ReadF, NothingRead, u) = AtName(o, K)
  BY <1>2
<1>4. x \in Seq(AllChars)
  <2>1. x \in Seq(Clean) /\ Clean \subseteq AllChars
    BY <1>1, PieceType, CleanChars
  <2> QED
    BY <2>1
<1>5. PICK s \in ReadStates :
          /\ s = After(ReadF, AtName(o, K), x)
          /\ s.esc = FALSE /\ s.key # <<>> /\ Stored(s) = Extend(o, K \o <<R[n][1]>>, w)
  <2>1. o \in Maps /\ K \in Seq(KeyText)
    BY <1>3 DEF ReadUpTo
  <2>2. PieceRead(o, K, R[n], w, bare)
    BY <1>1, <2>1, ReadPiece, Zenon
  <2> QED
    BY <2>2 DEF PieceRead
<1>6. NothingRead \in ReadStates
  BY NothingType
<1>7. PairStored(R, bare, n, w, Stored(s))
  <2>1. PairStored(R, bare, n, w, Extend(o, K \o <<R[n][1]>>, w))
    <3>1. ReadUpTo(R, bare, n - 1, o, K) /\ n \in 1..Len(R)
      BY <1>1, <1>3
    <3> HIDE DEF n
    <3> QED
      BY <3>1, StoresPair
  <2> QED
    BY <2>1, <1>5
<1> HIDE DEF u, x, n
<1>8. t \in Seq(AllChars)
  BY <1>2, <1>4
<1>9. After(ReadF, NothingRead, u \o x) = After(ReadF, After(ReadF, NothingRead, u), x)
  BY <1>2, <1>4, <1>6, ReadBoth
<1> HIDE DEF t
<1>10. ParseKeyValue(t) = Stored(s)
  <2>1. s = After(ReadF, NothingRead, t)
    BY <1>3, <1>5, <1>9 DEF t
  <2> QED
    BY <1>5, <1>8, <2>1, ParseRun
<1> QED
  BY <1>7, <1>8, <1>10 DEF t, u, x, n

(* The last character of a text.                                             *)
EndsSolid(c) == c # <<>> /\ Solid(c[Len(c)])

(* One text behind another.                                                  *)
LEMMA BehindIs ==
    ASSUME NEW u \in Seq(AllChars), NEW x \in Seq(AllChars)
    PROVE  /\ x # <<>> => u \o x # <<>> /\ (u \o x)[Len(u \o x)] = x[Len(x)]
           /\ u # <<>> => u \o x # <<>> /\ (u \o x)[1] = u[1]
<1> DEFINE c == u \o x
           n == Len(u)
           m == Len(x)
<1>1. /\ c \in Seq(AllChars) /\ n \in Nat /\ m \in Nat /\ Len(c) = n + m
      /\ (u # <<>> => n > 0) /\ (x # <<>> => m > 0)
  OBVIOUS
<1>2. \A k \in 1..n : c[k] = u[k]
  OBVIOUS
<1>3. \A k \in 1..m : c[n + k] = x[k]
  OBVIOUS
<1>4. c = <<>> => Len(c) = 0
  OBVIOUS
<1> HIDE DEF c, n, m
<1>5. x # <<>> => c # <<>> /\ c[Len(c)] = x[m]
  BY <1>1, <1>3, <1>4
<1>6. u # <<>> => c # <<>> /\ c[1] = u[1]
  BY <1>1, <1>2, <1>4
<1> QED
  BY <1>5, <1>6 DEF c, m

(* Nothing is escaped as nothing.                                            *)
LEMMA NoEscape == Escape(<<>>) = <<>>
<1> DEFINE z == <<>>
<1>1. z \in Seq(Chars) /\ Len(z) = 0
  OBVIOUS
<1> HIDE DEF z
<1>2. PICK e : EscapeSteps(z, e)
  BY <1>1, EscapeRun
<1>3. Escape(z) = <<>>
  BY <1>1, <1>2 DEF EscapeSteps
<1> QED
  BY <1>3 DEF z

(* The order in which texts are put together does not matter.                *)
LEMMA AnyOrder == \A u, v, w \in Seq(AllChars) : (u \o v) \o w = u \o (v \o w)
OBVIOUS

(* What is left of a pair, and what trim() takes from it.                    *)
LEMMA PieceEnd ==
    ASSUME NEW p \in Names \X Seq(Chars), NEW bare, NEW w, NEW tail, Rest(p[2], w, tail)
    PROVE  /\ Pair(p, bare) = Piece(p, w, bare) \o tail
           /\ EndsSolid(Piece(p, w, bare))
<1> DEFINE key == p[1]
           x == Piece(p, w, bare)
           e == Escape(w)
           h == <<key, "=">>
<1>1. key \in Names /\ key \in AllChars /\ "=" \in AllChars /\ Solid(key)
  BY NameChars
<1>2. Solid("=")
  BY DEF Solid, Blanks, Wide, Space, Newline
<1>3. /\ w \in Seq(Chars) /\ tail \in Seq(Wide) /\ (w = <<>> \/ w[Len(w)] \notin Wide)
      /\ Escape(p[2]) = e \o tail /\ (p[2] = <<>> => w = <<>> /\ tail = <<>>)
  BY DEF Rest
<1>4. tail \in Seq(AllChars)
  BY <1>3, WideChars
<1>5. h \in Seq(AllChars) /\ h # <<>> /\ h[Len(h)] = "="
  BY <1>1
<1>6. e \in Seq(AllChars)
  <2> DEFINE z == <<>>
             o == NothingRead.out
  <2>1. z \in Seq(AllChars)
    OBVIOUS
  <2>2. o \in Maps
    BY NothingType DEF ReadStates
  <2> HIDE DEF z, o
  <2> QED
    BY <1>3, <2>1, <2>2, ReadValueFrom
<1>7. CASE bare /\ p[2] = <<>>
  <2> DEFINE y == <<key>>
  <2>1. x = y /\ Pair(p, bare) = y /\ tail = <<>>
    BY <1>3, <1>7 DEF Piece, Pair
  <2>2. y \in Seq(AllChars) /\ y # <<>> /\ y[Len(y)] = key
    BY <1>1
  <2> HIDE DEF x, y
  <2>3. y \o <<>> = y
    BY <2>2, EmptyIs
  <2> QED
    BY <1>1, <2>1, <2>2, <2>3 DEF EndsSolid, x
<1>8. CASE ~(bare /\ p[2] = <<>>)
  <2>1. x = h \o e /\ Pair(p, bare) = h \o Escape(p[2])
    BY <1>8 DEF Piece, Pair, Param
  <2> HIDE DEF h, e, x
  <2>2. Pair(p, bare) = x \o tail
    <3>1. h \in Seq(AllChars) /\ e \in Seq(AllChars) /\ tail \in Seq(AllChars)
      BY <1>4, <1>5, <1>6
    <3>2. h \o (e \o tail) = (h \o e) \o tail
      BY <3>1, AnyOrder, Zenon
    <3> QED
      BY <2>1, <3>2, <1>3
  <2>3. EndsSolid(x)
    <3>1. CASE w = <<>>
      <4>1. e = <<>>
        <5>1. Escape(w) = Escape(<<>>)
          BY <3>1, Zenon
        <5> QED
          BY <5>1, NoEscape DEF e
      <4>2. x = h
        BY <2>1, <4>1, <1>5, EmptyIs
      <4> QED
        BY <4>2, <1>2, <1>5 DEF EndsSolid
    <3>2. CASE w # <<>>
      <4>1. e # <<>> /\ Solid(e[Len(e)])
        BY <1>3, <3>2, EscapeEnd DEF e
      <4>2. x # <<>> /\ x[Len(x)] = e[Len(e)]
        BY <2>1, <4>1, <1>5, <1>6, BehindIs
      <4> QED
        BY <4>1, <4>2 DEF EndsSolid
    <3> QED
      BY <3>1, <3>2
  <2> QED
    BY <2>2, <2>3 DEF x
<1> QED
  BY <1>7, <1>8

-----------------------------------------------------------------------------
(* The text of an entry.                                                     *)

(* trim() leaves c of it, and w of its last value; both texts are read as    *)
(* the pairs they hold.                                                      *)
EntryLeft(R, bare, c, w) ==
    LET n == Len(R)
        text == Entry(R, bare)
    IN  /\ text \in Seq(LineChars) /\ c \in Seq(LineChars)
        /\ \E tail \in Seq(Wide) : Rest(R[n][2], w, tail) /\ text = c \o tail
        /\ Core(c) /\ c[1] = R[1][1]
        /\ PairStored(R, bare, n, w, ParseKeyValue(c))
        /\ PairStored(R, bare, n, R[n][2], ParseKeyValue(text))

(* Texts of at least one character.                                          *)
Texts(parts) == \A k \in 1..Len(parts) : parts[k] \in Seq(AllChars) /\ parts[k] # <<>>

(* Put together they begin as the first.                                     *)
LEMMA FrontsFirst ==
    ASSUME NEW parts, NEW z \in Seq(AllChars), NEW F, Fronts(AllChars, parts, z, F), Texts(parts),
           NEW i \in 1..Len(parts)
    PROVE  F[i] # <<>> /\ F[i][1] = parts[1][1]
<1> DEFINE n == Len(parts)
           T == {k \in 0..n : k = 0 \/ (F[k] # <<>> /\ F[k][1] = parts[1][1])}
<1>1. /\ n \in Nat /\ F \in [0..n -> Seq(AllChars)] /\ F[0] = <<>>
      /\ \A k \in 1..n : F[k] = F[k - 1] \o parts[k] \o z
  BY DEF Fronts
<1>2. \A k \in 1..n : parts[k] \in Seq(AllChars) /\ parts[k] # <<>>
  BY DEF Texts
<1> HIDE DEF n
<1>3. 0 \in T
  BY <1>1
<1>4. ASSUME NEW k \in 1..n, k - 1 \in T PROVE k \in T
  <2> DEFINE t == F[k - 1]
             x == parts[k]
  <2>1. k \in 0..n /\ k - 1 \in 0..n
    BY <1>1
  <2>2. t \in Seq(AllChars)
    BY <1>1, <2>1
  <2>3. x \in Seq(AllChars) /\ x # <<>> /\ x[1] = parts[k][1]
    BY <1>2
  <2>4. F[k] = (t \o x) \o z
    BY <1>1, Zenon
  <2>5. k - 1 = 0 \/ (t # <<>> /\ t[1] = parts[1][1])
    BY <1>4
  <2>6. k - 1 = 0 => t = <<>> /\ k = 1
    BY <1>1
  <2> HIDE DEF t, x
  <2>7. t \o x \in Seq(AllChars)
    BY <2>2, <2>3
  <2>8. t \o x # <<>> /\ (t \o x)[1] = parts[1][1]
    <3>1. CASE t = <<>> /\ k = 1
      <4>1. t \o x = x
        BY <3>1, <2>3, EmptyIs
      <4> QED
        BY <3>1, <4>1, <2>3
    <3>2. CASE t # <<>> /\ t[1] = parts[1][1]
      BY <3>2, <2>2, <2>3, BehindIs
    <3> QED
      BY <2>5, <2>6, <3>1, <3>2
  <2> DEFINE y == t \o x
  <2> HIDE DEF y
  <2>9. y \in Seq(AllChars) /\ y # <<>> /\ y[1] = parts[1][1] /\ F[k] = y \o z
    BY <2>4, <2>7, <2>8 DEF y
  <2>10. F[k] # <<>> /\ F[k][1] = parts[1][1]
    BY <2>9, BehindIs
  <2> QED
    BY <2>1, <2>10
<1>5. i \in T
  <2> HIDE DEF T
  <2>1. \A k \in 0..n : k \in T
    BY <1>1, <1>3, <1>4, UpTo, Zenon
  <2> QED
    BY <2>1, <1>1 DEF n
<1> QED
  BY <1>1, <1>5

(* So an entry begins with its first name.                                   *)
LEMMA FrontsBegin ==
    ASSUME NEW R, IsRecord(R), NEW bare, NEW F, Fronts(AllChars, Pairs(R, bare), <<Space>>, F), NEW i \in 1..Len(R)
    PROVE  F[i] # <<>> /\ F[i][1] = R[1][1]
<1> DEFINE n == Len(R)
           parts == Pairs(R, bare)
           z == <<Space>>
<1>1. n \in Nat /\ DOMAIN R = 1..n /\ 1 \in 1..n
  BY DEF IsRecord
<1>2. Len(parts) = n /\ \A k \in 1..n : parts[k] = Pair(R[k], bare)
  BY <1>1 DEF Pairs
<1>3. \A k \in 1..n : /\ Pair(R[k], bare) \in Seq(AllChars) /\ Pair(R[k], bare) # <<>>
                      /\ Pair(R[k], bare)[1] = R[k][1]
  <2> SUFFICES ASSUME NEW k \in 1..n
               PROVE  /\ Pair(R[k], bare) \in Seq(AllChars) /\ Pair(R[k], bare) # <<>>
                      /\ Pair(R[k], bare)[1] = R[k][1]
    OBVIOUS
  <2>1. R[k] \in Names \X Seq(Chars) /\ R[k][2] \in Seq(Chars)
    BY DEF IsRecord
  <2>2. Pair(R[k], bare) = Piece(R[k], R[k][2], bare)
    BY DEF Pair, Piece, Param
  <2>3. /\ Piece(R[k], R[k][2], bare) \in Seq(Clean) /\ Piece(R[k], R[k][2], bare) # <<>>
        /\ Piece(R[k], R[k][2], bare)[1] = R[k][1]
    BY <2>1, PieceType, Zenon
  <2> QED
    BY <2>2, <2>3, CleanChars
<1>4. z \in Seq(AllChars)
  BY NameChars
<1>5. Fronts(AllChars, parts, z, F)
  OBVIOUS
<1>6. i \in 1..Len(parts)
  BY <1>2
<1> HIDE DEF parts, z, n
<1>7. Texts(parts)
  BY <1>2, <1>3 DEF Texts
<1>8. F[i] # <<>> /\ F[i][1] = parts[1][1]
  BY <1>4, <1>5, <1>6, <1>7, FrontsFirst
<1> QED
  BY <1>1, <1>2, <1>3, <1>8

(* Every record has such texts, and the last value is its own rest if it     *)
(* does not end in a blank.                                                  *)
LEMMA EntryFacts ==
    ASSUME NEW R, IsRecord(R), NEW bare
    PROVE  \E c, w : EntryLeft(R, bare, c, w)
<1> DEFINE n == Len(R)
           v == R[n][2]
           parts == Pairs(R, bare)
           text == Entry(R, bare)
<1>1. n \in Nat /\ n > 0 /\ DOMAIN R = 1..n /\ n \in 1..n /\ n - 1 \in 0..n /\ n \in 1..Len(R)
  BY DEF IsRecord
<1>2. R[n] \in Names \X Seq(Chars) /\ v \in Seq(Chars) /\ \A k \in 1..n : R[k] \in Names \X Seq(Chars)
  BY <1>1 DEF IsRecord
<1>3. PICK w, tail : Rest(v, w, tail)
  BY <1>2, CoreOf
<1>4. w \in Seq(Chars) /\ tail \in Seq(Wide) /\ (v = <<>> => w = <<>>)
  BY <1>3 DEF Rest
<1> DEFINE x == Piece(R[n], w, bare)
<1>5. Pair(R[n], bare) = x \o tail /\ EndsSolid(x) /\ x \in Seq(Clean) /\ x # <<>> /\ x[1] = R[n][1]
  <2>1. Pair(R[n], bare) = x \o tail /\ EndsSolid(x)
    BY <1>2, <1>3, PieceEnd, Zenon
  <2>2. x \in Seq(Clean) /\ x # <<>> /\ x[1] = R[n][1]
    <3>1. R[n] \in Names \X Seq(Chars) /\ w \in Seq(Chars)
      BY <1>2, <1>4
    <3> HIDE DEF x, n
    <3>2. /\ Piece(R[n], w, bare) \in Seq(Clean) /\ Piece(R[n], w, bare) # <<>>
          /\ Piece(R[n], w, bare)[1] = R[n][1]
      BY <3>1, PieceType
    <3> QED
      BY <3>2 DEF x
  <2> QED
    BY <2>1, <2>2
<1>6. Clean \subseteq LineChars /\ Wide \subseteq LineChars /\ LineChars \subseteq AllChars /\ Space \in LineChars
  BY WideChars, CleanChars, NameChars DEF LineChars
<1>7. parts \in Seq(Seq(LineChars)) /\ Len(parts) = n /\ \A k \in 1..n : parts[k] = Pair(R[k], bare)
  <2>1. ASSUME NEW k \in 1..n PROVE Pair(R[k], bare) \in Seq(LineChars)
    <3>1. R[k] \in Names \X Seq(Chars) /\ R[k][2] \in Seq(Chars)
      BY <1>2
    <3>2. Pair(R[k], bare) = Piece(R[k], R[k][2], bare)
      BY DEF Pair, Piece, Param
    <3>3. Piece(R[k], R[k][2], bare) \in Seq(Clean)
      BY <3>1, PieceType, Zenon
    <3> QED
      BY <3>2, <3>3, <1>6
  <2>2. parts = [k \in 1..n |-> Pair(R[k], bare)]
    BY <1>1 DEF Pairs
  <2> HIDE DEF n, parts
  <2> QED
    BY <1>1, <2>1, <2>2
<1>8. PICK F : Fronts(LineChars, parts, <<Space>>, F)
  <2>1. <<Space>> \in Seq(LineChars)
    BY <1>6
  <2> HIDE DEF parts
  <2> QED
    BY <1>7, <2>1, FrontsExist
<1>9. /\ F \in [0..n -> Seq(LineChars)] /\ F[0] = <<>>
      /\ Join(parts, <<Space>>) = F[n - 1] \o Pair(R[n], bare)
  <2> HIDE DEF parts, n
  <2> QED
    BY <1>1, <1>7, <1>8 DEF Fronts
<1>10. Fronts(AllChars, parts, <<Space>>, F)
  <2>1. \A s \in Seq(LineChars) : s \in Seq(AllChars)
    BY <1>6
  <2>2. F \in [0..Len(parts) -> Seq(AllChars)]
    BY <2>1, <1>7, <1>9
  <2> HIDE DEF parts, n
  <2> QED
    BY <2>2, <1>8 DEF Fronts
<1> DEFINE u == F[n - 1]
           c == u \o x
<1>11. text = u \o (x \o tail)
  BY <1>5, <1>9 DEF Entry, Pairs
<1>12. u \in Seq(LineChars) /\ u \in Seq(AllChars)
  <2>1. u \in Seq(LineChars)
    BY <1>1, <1>9
  <2> HIDE DEF u
  <2> QED
    BY <2>1, <1>6
<1>13. x \in Seq(LineChars) /\ x \in Seq(AllChars) /\ tail \in Seq(LineChars) /\ tail \in Seq(AllChars)
  BY <1>4, <1>5, <1>6
<1>14. PairStored(R, bare, n, w, ParseKeyValue(c))
  BY <1>4, <1>10, EntryReads
<1>15. PairStored(R, bare, n, v, ParseKeyValue(text))
  <2>1. text = u \o Piece(R[n], v, bare)
    BY <1>9 DEF Entry, Pairs, Pair, Piece, Param
  <2>2. PairStored(R, bare, n, v, ParseKeyValue(u \o Piece(R[n], v, bare)))
    BY <1>2, <1>10, EntryReads
  <2> QED
    BY <2>1, <2>2
<1>16. n = 1 => u = <<>>
  BY <1>9
<1>17. n # 1 => u # <<>> /\ u[1] = R[1][1]
  <2>1. n # 1 => n - 1 \in 1..Len(R)
    BY <1>1
  <2> QED
    BY <2>1, <1>10, FrontsBegin
<1> HIDE DEF text, u, x, v
<1>18. text = c \o tail
  BY <1>11, <1>12, <1>13, AnyOrder, Zenon
<1>19. c \in Seq(LineChars) /\ c \in Seq(AllChars)
  BY <1>12, <1>13
<1>20. c # <<>> /\ c[Len(c)] = x[Len(x)]
  BY <1>5, <1>12, <1>13, BehindIs
<1>21. c[1] = R[1][1]
  <2>1. CASE n = 1
    <3>1. c = x
      BY <2>1, <1>13, <1>16, EmptyIs
    <3> QED
      BY <2>1, <3>1, <1>5
  <2>2. CASE n # 1
    BY <2>2, <1>12, <1>13, <1>17, BehindIs
  <2> QED
    BY <2>1, <2>2
<1> HIDE DEF c
<1>22. text \in Seq(LineChars)
  BY <1>13, <1>18, <1>19
<1>23. Core(c)
  <2>1. R[1][1] \in Names
    BY <1>1, <1>2
  <2>2. Solid(c[1])
    BY <2>1, <1>21, NameChars
  <2>3. Solid(c[Len(c)])
    BY <1>5, <1>20 DEF EndsSolid
  <2> QED
    BY <2>2, <2>3, <1>20 DEF Core
<1>24. EntryLeft(R, bare, c, w)
  BY <1>3, <1>4, <1>14, <1>15, <1>18, <1>19, <1>21, <1>22, <1>23 DEF EntryLeft, text, v
<1> QED
  BY <1>24

-----------------------------------------------------------------------------
(* The lines of a response.                                                  *)

(* What a line is made of.                                                   *)
LEMMA LineMade ==
    /\ \A s \in Seq(LineChars) : /\ s \in Seq(AllChars) /\ s \in Seq(AllChars \ {Newline})
                                 /\ s \in Seq(AllChars \ {"|"})
    /\ "error" \in LineChars /\ Space \in LineChars /\ \A e \in Names \cup Events \cup {"clid", "=", "9"} : e \in LineChars
<1>1. LineChars \subseteq AllChars /\ Space \in LineChars
  BY CleanChars, NameChars DEF LineChars
<1>2. LineChars \subseteq AllChars \ {Newline} /\ LineChars \subseteq AllChars \ {"|"}
  BY <1>1, CleanHasNoSpace
<1>3. \A e \in Names \cup Events \cup {"error", "clid", "=", "9"} : e \in LineChars
  <2>1. Names \cup Events \cup {"error", "clid", "=", "9"} \subseteq AllChars
    BY DEF AllChars
  <2>2. {"error", "clid", "=", "9"} \cap Special = {}
    BY DEF Special, Space, Newline
  <2>3. (Names \cup Events) \cap Special = {}
    BY NamesAssumption
  <2> QED
    BY <2>1, <2>2, <2>3, CleanChars DEF LineChars
<1> QED
  BY <1>1, <1>2, <1>3

(* A line that trim() leaves as it is.                                       *)
LEMMA LeavesItself ==
    ASSUME NEW c \in Seq(AllChars), Core(c)
    PROVE  Leaves(c, c)
<1>1. <<>> \in Seq(Wide) /\ c \o <<>> = c
  BY EmptyIs
<1> QED
  BY <1>1 DEF Leaves

(* A line of data is no other line.                                          *)
IsData(c) == ~IsError(c) /\ c[1] \notin Events

LEMMA EntryLine ==
    ASSUME NEW R, IsRecord(R), NEW bare, NEW c, NEW w, EntryLeft(R, bare, c, w)
    PROVE  Leaves(Entry(R, bare), c) /\ c[1] \in Names /\ c \in Seq(LineChars) /\ Entry(R, bare) \in Seq(LineChars)
<1>1. c \in Seq(LineChars) /\ Entry(R, bare) \in Seq(LineChars) /\ Core(c) /\ c[1] = R[1][1]
      /\ \E tail \in Seq(Wide) : Entry(R, bare) = c \o tail
  BY DEF EntryLeft
<1>2. c \in Seq(AllChars)
  BY <1>1, LineMade
<1>3. R[1][1] \in Names
  <2>1. 1 \in 1..Len(R)
    BY DEF IsRecord
  <2> QED
    BY <2>1 DEF IsRecord
<1> QED
  BY <1>1, <1>2, <1>3 DEF Leaves

(* A line that begins with a name is data.                                   *)
LEMMA DataLine ==
    ASSUME NEW c, c[1] \in Names
    PROVE  IsData(c)
BY NameChars DEF IsData, IsError

(* The error line is one, and holds the id.                                  *)
LEMMA ErrorLineIs ==
    ASSUME NEW id \in {"0", "1"}
    PROVE  LET e == ErrorLine(id)
           IN  e \in Seq(LineChars) /\ Leaves(e, e) /\ IsError(e) /\ ErrorId(e) = <<id>>
<1> DEFINE R == <<<<"id", <<id>>>>, <<"msg", <<"o", Space, "k">>>>>>
           x == Entry(R, FALSE)
           h == <<"error", Space>>
           e == h \o x
           m == <<"o", Space, "k">>
<1>1. IsRecord(R) /\ Len(R) = 2 /\ R[1][1] = "id" /\ R[1][2] = <<id>> /\ R[2][2] = m
  <2>1. {"id", "msg"} \subseteq Names /\ {"0", "1", "o", "k", Space} \subseteq Chars
    BY NamesAssumption, CharsAssumption
  <2>2. <<id>> \in Seq(Chars) /\ m \in Seq(Chars)
    BY <2>1
  <2> HIDE DEF m
  <2>3. R = <<<<"id", <<id>>>>, <<"msg", m>>>>
    BY DEF m
  <2> HIDE DEF R
  <2>4. R \in Seq(Names \X Seq(Chars)) /\ Len(R) = 2 /\ R[1] = <<"id", <<id>>>> /\ R[2] = <<"msg", m>>
    <3> DEFINE a == <<"id", <<id>>>>
               b == <<"msg", m>>
    <3>1. a \in Names \X Seq(Chars) /\ b \in Names \X Seq(Chars)
      BY <2>1, <2>2
    <3>2. R = <<a, b>>
      BY <2>3
    <3> HIDE DEF a, b
    <3>3. R \in Seq(Names \X Seq(Chars)) /\ Len(R) = 2 /\ R[1] = a /\ R[2] = b
      BY <3>1, <3>2
    <3> QED
      BY <3>3 DEF a, b
  <2>5. \A i, j \in 1..2 : R[i][1] = R[j][1] => i = j
    BY <2>4
  <2> QED
    BY <2>4, <2>5 DEF IsRecord
<1>2. ~EndsBlank(m)
  <2>1. Len(m) = 3 /\ m[3] = "k" /\ "k" \notin Wide
    BY DEF Wide
  <2> HIDE DEF m
  <2> QED
    BY <2>1 DEF EndsBlank
<1> HIDE DEF R, m
<1>3. PICK c, w : EntryLeft(R, FALSE, c, w)
  BY <1>1, EntryFacts
<1>4. PICK tail \in Seq(Wide) : Rest(m, w, tail) /\ x = c \o tail
  BY <1>1, <1>3 DEF EntryLeft
<1>5. c \in Seq(LineChars) /\ x \in Seq(LineChars) /\ Core(c)
  BY <1>3 DEF EntryLeft
<1>6. x = c
  <2>1. tail = <<>>
    BY <1>2, <1>4 DEF Rest
  <2>2. c \o <<>> = c
    BY <1>5, EmptyIs
  <2> HIDE DEF x
  <2> QED
    BY <1>4, <2>1, <2>2
<1>7. PairStored(R, FALSE, 2, m, ParseKeyValue(x))
  BY <1>1, <1>3 DEF EntryLeft
<1>8. ParseKeyValue(x)[<<"id">>] = <<id>> /\ <<"id">> \in DOMAIN ParseKeyValue(x)
  <2>1. \A j \in 1..(2 - 1) : ~Alone(R, FALSE, j)
    BY DEF Alone
  <2>2. DOMAIN ParseKeyValue(x) = {<<R[j][1]>> : j \in 1..2} /\ StoredTo(R, 2, m, ParseKeyValue(x))
    BY <1>7, <2>1 DEF PairStored
  <2>3. 1 \in 1..2 /\ 1 \in 1..Len(R) /\ 1 # 2
    BY <1>1
  <2> HIDE DEF x
  <2>4. <<"id">> \in DOMAIN ParseKeyValue(x)
    BY <1>1, <2>2, <2>3
  <2>5. ParseKeyValue(x)[<<R[1][1]>>] = IF 1 = 2 THEN m ELSE R[1][2]
    BY <1>1, <2>2, <2>3, <2>4 DEF StoredTo
  <2> QED
    BY <1>1, <2>3, <2>4, <2>5
<1> HIDE DEF x
<1>9. h \in Seq(LineChars) /\ Len(h) = 2 /\ h[1] = "error" /\ h[2] = Space /\ h # <<>>
  BY LineMade
<1> HIDE DEF h
<1>10. /\ e \in Seq(LineChars) /\ Len(e) = 2 + Len(x) /\ Len(x) \in Nat
       /\ e[1] = "error" /\ e[2] = Space /\ \A k \in 1..Len(x) : e[2 + k] = x[k]
  <2>1. h \in Seq(LineChars) /\ x \in Seq(LineChars)
    BY <1>5, <1>9
  <2>2. e \in Seq(LineChars) /\ Len(x) \in Nat
    BY <2>1
  <2>3. Len(e) = Len(h) + Len(x)
    BY <2>1
  <2>4. \A k \in 1..Len(h) : e[k] = h[k]
    BY <2>1
  <2>5. \A k \in 1..Len(x) : e[Len(h) + k] = x[k]
    BY <2>1
  <2> HIDE DEF e
  <2>6. e[1] = "error" /\ e[2] = Space
    BY <1>9, <2>4
  <2> QED
    BY <1>9, <2>2, <2>3, <2>5, <2>6
<1>11. e[1] = "error" /\ e[2] = Space
  BY <1>10
<1>12. \A k \in 1..Len(x) : e[2 + k] = x[k]
  BY <1>10
<1>13. h \in Seq(AllChars) /\ x \in Seq(AllChars)
  BY <1>5, <1>9, LineMade
<1>14. x # <<>> /\ Solid(x[Len(x)])
  BY <1>5, <1>6 DEF Core
<1>15. e[Len(e)] = x[Len(x)] /\ e # <<>>
  BY <1>13, <1>14, BehindIs
<1> HIDE DEF e
<1>16. e \in Seq(AllChars)
  BY <1>10, LineMade
<1>17. Core(e)
  <2>1. Solid("error")
    BY DEF Solid, Blanks, Wide, Space, Newline
  <2> QED
    BY <1>11, <1>14, <1>15, <2>1 DEF Core
<1>18. SubSeq(e, 3, Len(e)) = x
  <2> DEFINE y == SubSeq(e, 3, Len(e))
             n == Len(e)
             A == AllChars
  <2>1. n \in Nat /\ 3 \in Nat \ {0} /\ 3 <= n + 1 /\ n <= Len(e) /\ n + 1 - 3 = Len(x) /\ \A k \in 1..Len(x) : 3 - 1 + k = 2 + k
    BY <1>10
  <2>2. /\ y \in Seq(A) /\ Len(y) = n + 1 - 3
        /\ \A k \in 1..(n + 1 - 3) : y[k] = e[3 - 1 + k]
    <3>1. e \in Seq(A)
      BY <1>16
    <3> HIDE DEF A
    <3> QED
      BY <2>1, <3>1, PartIs
  <2> HIDE DEF y, n
  <2>3. Len(y) = Len(x) /\ \A k \in 1..Len(y) : y[k] = x[k]
    BY <2>1, <2>2, <1>12
  <2>4. y = x
    BY <2>2, <2>3, <1>13, SameSeq
  <2> QED
    BY <2>4 DEF y, n
<1>19. IsError(e)
  <2>1. Len(e) > 1
    BY <1>10
  <2> QED
    BY <2>1, <1>11 DEF IsError
<1>20. ErrorId(e) = <<id>>
  BY <1>8, <1>18 DEF ErrorId
<1>21. Leaves(e, e)
  BY <1>16, <1>17, LeavesItself
<1>22. e = ErrorLine(id)
  BY DEF e, h, x, R, ErrorLine
<1> QED
  BY <1>10, <1>19, <1>20, <1>21, <1>22

(* A notification is one.                                                    *)
LEMMA NotificationIs ==
    LET e == Notification
    IN  e \in Seq(LineChars) /\ Leaves(e, e) /\ ~IsError(e) /\ e[1] \in Events
<1> DEFINE ev == CHOOSE e \in Events : TRUE
           e == <<ev, Space, "clid", "=", "9">>
<1>1. ev \in Events
  BY NamesAssumption
<1> HIDE DEF ev
<1>2. ev \in LineChars /\ Space \in LineChars /\ "clid" \in LineChars /\ "=" \in LineChars /\ "9" \in LineChars
  BY <1>1, LineMade
<1>3. e \in Seq(LineChars) /\ Len(e) = 5 /\ e[1] = ev /\ e[5] = "9"
  BY <1>2
<1>4. e # <<>>
  BY <1>3
<1> HIDE DEF e
<1>5. ev \notin Special /\ ev \notin Wide /\ ev # "error"
  BY <1>1, NamesAssumption
<1>6. Blanks \subseteq Special
  BY DEF Blanks, Special, Space, Newline
<1>7. Solid(ev)
  BY <1>5, <1>6 DEF Solid
<1>8. Solid("9")
  BY DEF Solid, Blanks, Wide, Space, Newline
<1>9. Core(e)
  BY <1>3, <1>4, <1>7, <1>8 DEF Core
<1>10. e \in Seq(AllChars)
  BY <1>3, LineMade
<1>11. Leaves(e, e)
  BY <1>9, <1>10, LeavesItself
<1>12. ~IsError(e)
  BY <1>3, <1>5 DEF IsError
<1>13. e = Notification
  BY DEF e, ev, Notification
<1> QED
  BY <1>1, <1>3, <1>11, <1>12, <1>13

-----------------------------------------------------------------------------
(* The loop over the lines.                                                  *)

(* Before the error line: the entries so far.                                *)
Gathered(E) == [entries |-> E, over |-> FALSE, id |-> <<>>]

LEMMA GatheredType ==
    /\ \A E \in Seq(Parses) : Gathered(E) \in LoopStates
    /\ NoLine = Gathered(<<>>)
BY DEF Gathered, LoopStates, ErrorIds, NoLine

(* A line of data, a notification and the error line.                        *)
LEMMA LoopCases ==
    ASSUME NEW E, NEW c
    PROVE  /\ IsData(c) => ReadLine(Gathered(E), c) = Gathered(E \o Entries(c))
           /\ ~IsError(c) /\ c[1] \in Events => ReadLine(Gathered(E), c) = Gathered(E)
           /\ IsError(c) => ReadLine(Gathered(E), c) = [entries |-> E, over |-> TRUE, id |-> ErrorId(c)]
<1>1. IsData(c) => ReadLine(Gathered(E), c) = Gathered(E \o Entries(c))
  BY DEF IsData, ReadLine, Gathered
<1>2. ~IsError(c) /\ c[1] \in Events => ReadLine(Gathered(E), c) = Gathered(E)
  BY DEF ReadLine, Gathered
<1>3. IsError(c) => ReadLine(Gathered(E), c) = [entries |-> E, over |-> TRUE, id |-> ErrorId(c)]
  BY DEF ReadLine, Gathered
<1> QED
  BY <1>1, <1>2, <1>3

(* What one line makes of a state.                                           *)
LEMMA LoopOne ==
    ASSUME NEW s \in LoopStates, NEW c \in Seq(AllChars)
    PROVE  After(LoopF, s, <<c>>) = ReadLine(s, c) /\ After(LoopF, s, <<>>) = s
<1> DEFINE A == Seq(AllChars)
<1>1. Machine(LoopF, LoopStates, A) /\ c \in A
  BY LoopFType
<1>2. LoopF[<<s, c>>] = ReadLine(s, c)
  BY DEF LoopF
<1> HIDE DEF A
<1>3. After(LoopF, s, <<>>) = s /\ After(LoopF, s, <<c>>) = LoopF[<<s, c>>]
  BY <1>1, AfterOne
<1> QED
  BY <1>2, <1>3

(* And two sequences of them.                                                *)
LEMMA LoopBoth ==
    ASSUME NEW s \in LoopStates, NEW v \in Seq(Seq(AllChars)), NEW w \in Seq(Seq(AllChars))
    PROVE  After(LoopF, s, v \o w) = After(LoopF, After(LoopF, s, v), w) /\ After(LoopF, s, v) \in LoopStates
<1> DEFINE A == Seq(AllChars)
<1>1. Machine(LoopF, LoopStates, A) /\ v \in Seq(A) /\ w \in Seq(A)
  BY LoopFType
<1> HIDE DEF A
<1>2. After(LoopF, s, v \o w) = After(LoopF, After(LoopF, s, v), w)
  BY <1>1, AfterConcat
<1>3. After(LoopF, s, v) \in LoopStates
  BY <1>1, AfterType
<1> QED
  BY <1>2, <1>3

(* A line without bars is one entry.                                         *)
LEMMA OneEntry ==
    ASSUME NEW c \in Seq(AllChars \ {"|"})
    PROVE  Entries(c) = <<ParseKeyValue(c)>>
<1> DEFINE A == AllChars \ {"|"}
           es == <<c>>
           n == 1
<1>1. es \in Seq(Seq(A)) /\ Len(es) = n /\ n > 0
  OBVIOUS
<1>2. PICK F : Fronts(AllChars, es, <<"|">>, F)
  <2> DEFINE z == <<"|">>
  <2>1. z \in Seq(AllChars)
    <3>1. "|" \in AllChars
      BY Alphabet
    <3> QED
      BY <3>1
  <2>2. es \in Seq(Seq(AllChars))
    <3>1. c \in Seq(AllChars)
      OBVIOUS
    <3> QED
      BY <3>1
  <2> HIDE DEF es, z
  <2>3. \E F : Fronts(AllChars, es, z, F)
    BY <2>1, <2>2, FrontsExist
  <2> QED
    BY <2>3 DEF z
<1>3. F[0] = <<>>
  BY <1>2 DEF Fronts
<1> HIDE DEF es
<1>4. Entries(F[n - 1] \o c) = [k \in 1..n |-> ParseKeyValue(IF k = n THEN c ELSE es[k])]
  <2>1. es \in Seq(Seq(AllChars \ {"|"})) /\ n = Len(es) /\ n > 0
    BY <1>1
  <2> HIDE DEF n
  <2> QED
    <3>1. BarsRead(es, n, c, F)
      BY <2>1, <1>2, EntriesRead
    <3> QED
      BY <3>1 DEF BarsRead
<1>5. F[n - 1] \o c = c
  <2>1. n - 1 = 0
    OBVIOUS
  <2>2. <<>> \o c = c
    BY EmptyIs
  <2> QED
    BY <2>1, <2>2, <1>3
<1>6. [k \in 1..n |-> ParseKeyValue(IF k = n THEN c ELSE es[k])] = <<ParseKeyValue(c)>>
  <2> DEFINE p == ParseKeyValue(c)
  <2>1. [k \in 1..n |-> ParseKeyValue(IF k = n THEN c ELSE es[k])] = [k \in 1..1 |-> p]
    OBVIOUS
  <2> HIDE DEF p
  <2>2. [k \in 1..1 |-> p] = <<p>>
    OBVIOUS
  <2> QED
    BY <2>1, <2>2 DEF p
<1> QED
  BY <1>4, <1>5, <1>6

(* Lines of one entry each.                                                  *)
LEMMA SplitRead ==
    ASSUME NEW cs \in Seq(Seq(LineChars)), \A k \in 1..Len(cs) : cs[k][1] \in Names
    PROVE  LinesOf(cs) = Gathered([k \in 1..Len(cs) |-> ParseKeyValue(cs[k])])
<1> DEFINE n == Len(cs)
           A == Seq(AllChars)
           T == [k \in 1..n |-> ParseKeyValue(cs[k])]
           h == [i \in 0..n |-> Gathered(SubSeq(T, 1, i))]
<1>1. n \in Nat /\ \A k \in 1..n : cs[k] \in Seq(LineChars) /\ cs[k][1] \in Names
  OBVIOUS
<1>2. \A k \in 1..n : cs[k] \in A
  BY <1>1, LineMade
<1>3. cs \in Seq(A)
  <2> HIDE DEF A
  <2> QED
    BY <1>2, SeqOf
<1>4. T \in Seq(Parses) /\ Len(T) = n /\ \A k \in 1..n : T[k] = ParseKeyValue(cs[k])
  <2>1. \A k \in 1..n : ParseKeyValue(cs[k]) \in Parses
    BY <1>2 DEF Parses
  <2>2. n \in Nat
    BY <1>1
  <2> HIDE DEF n
  <2>3. T \in [1..n -> Parses] /\ \A k \in 1..n : T[k] = ParseKeyValue(cs[k])
    BY <2>1
  <2> HIDE DEF T
  <2> QED
    BY <2>2, <2>3, FunctionSeq
<1>5. Machine(LoopF, LoopStates, A) /\ NoLine \in LoopStates
  BY LoopFType
<1>6. AfterSteps(LoopF, NoLine, cs, h)
  <2>1. h[0] = NoLine
    <3>1. SubSeq(T, 1, 0) = <<>>
      OBVIOUS
    <3>2. 0 \in 0..n
      BY <1>1
    <3> QED
      BY <3>1, <3>2, GatheredType
  <2>2. ASSUME NEW i \in 1..n PROVE h[i] = LoopF[<<h[i - 1], cs[i]>>]
    <3> DEFINE E == SubSeq(T, 1, i - 1)
               c == cs[i]
               p == ParseKeyValue(c)
    <3>1. i \in 0..n /\ i - 1 \in 0..n
      BY <1>1
    <3>2. h[i] = Gathered(SubSeq(T, 1, i)) /\ h[i - 1] = Gathered(E)
      BY <3>1
    <3>3. SubSeq(T, 1, i) = E \o <<p>> /\ E \in Seq(Parses)
      <4> HIDE DEF T, n
      <4>1. \A j \in 1..Len(T) : SubSeq(T, 1, j - 1) \o <<T[j]>> = SubSeq(T, 1, j)
        BY <1>4, SubTexts
      <4>2. SubSeq(T, 1, i - 1) \in Seq(Parses)
        BY <1>4, <3>1
      <4> QED
        BY <1>4, <4>1, <4>2
    <3>4. IsData(c)
      BY <1>1, DataLine
    <3>5. Entries(c) = <<p>>
      <4>1. c \in Seq(AllChars \ {"|"})
        BY <1>1, LineMade
      <4> QED
        BY <4>1, OneEntry
    <3>6. c \in A
      BY <1>2
    <3> HIDE DEF h, E, c, p, T
    <3>7. ReadLine(Gathered(E), c) = Gathered(E \o <<p>>)
      BY <3>4, <3>5, LoopCases
    <3>8. LoopF[<<Gathered(E), c>>] = ReadLine(Gathered(E), c)
      <4>1. Gathered(E) \in LoopStates
        BY <3>3, GatheredType
      <4> QED
        BY <4>1, <3>6 DEF LoopF
    <3> QED
      BY <3>2, <3>3, <3>7, <3>8 DEF c
  <2> QED
    BY <2>1, <2>2 DEF AfterSteps
<1>7. After(LoopF, NoLine, cs) = h[n]
  <2> HIDE DEF h, A
  <2> QED
    BY <1>3, <1>5, <1>6, AfterIs
<1>8. h[n] = Gathered(T)
  <2>1. n \in 0..n
    BY <1>1
  <2>2. SubSeq(T, 1, n) = T
    <3> HIDE DEF T, n
    <3> QED
      BY <1>4, SubTexts
  <2> QED
    BY <2>1, <2>2
<1> QED
  BY <1>7, <1>8 DEF LinesOf

-----------------------------------------------------------------------------
(* Entries in one line.                                                      *)

(* Those of es, with c for the last.                                         *)
WithLast(es, c) == [k \in 1..Len(es) |-> ParseKeyValue(IF k = Len(es) THEN c ELSE es[k])]

(* trim() leaves t of the line, and it is read as these entries.             *)
BarredAs(es, c, t) ==
    /\ Join(es, <<"|">>) \in Seq(AllChars \ {Newline}) /\ Leaves(Join(es, <<"|">>), t)
    /\ IsData(t) /\ Entries(t) = WithLast(es, c)

LEMMA BarredRead ==
    ASSUME NEW es \in Seq(Seq(LineChars)), Len(es) > 0, NEW c \in Seq(LineChars), Core(c), NEW tail \in Seq(Wide),
           es[Len(es)] = c \o tail, c[1] \in Names,
           \A k \in 1..Len(es) : es[k] # <<>> /\ es[k][1] \in Names
    PROVE  \E t : BarredAs(es, c, t)
<1> DEFINE n == Len(es)
           z == <<"|">>
           N == AllChars \ {Newline}
           B == AllChars \ {"|"}
           s == Join(es, z)
<1>1. n \in Nat /\ n > 0 /\ n \in 1..n /\ n - 1 \in 0..n /\ \A k \in 1..n : es[k] \in Seq(LineChars)
  OBVIOUS
<1>2. \A k \in 1..n : es[k] \in Seq(N) /\ es[k] \in Seq(B) /\ es[k] \in Seq(AllChars)
  BY <1>1, LineMade
<1>3. es \in Seq(Seq(N)) /\ es \in Seq(Seq(B)) /\ es \in Seq(Seq(AllChars))
  <2> DEFINE X == Seq(N)
             Y == Seq(B)
             Z == Seq(AllChars)
             C == Seq(LineChars)
  <2>1. \A k \in 1..Len(es) : es[k] \in X /\ es[k] \in Y /\ es[k] \in Z
    BY <1>2
  <2>2. es \in Seq(C)
    OBVIOUS
  <2> HIDE DEF X, Y, Z, C
  <2>3. es \in Seq(X) /\ es \in Seq(Y) /\ es \in Seq(Z)
    BY <2>1, <2>2, SeqOf
  <2> QED
    BY <2>3 DEF X, Y, Z
<1>4. "|" \in AllChars /\ "|" # Newline
  BY Alphabet DEF Newline
<1>5. z \in Seq(N) /\ z \in Seq(AllChars)
  BY <1>4
<1>6. PICK F : Fronts(N, es, z, F)
  <2> HIDE DEF z
  <2> QED
    BY <1>3, <1>5, FrontsExist
<1>7. /\ F \in [0..n -> Seq(N)] /\ F[0] = <<>> /\ s = F[n - 1] \o es[n]
      /\ \A i \in 1..n : F[i] = F[i - 1] \o es[i] \o z
  BY <1>1, <1>6 DEF Fronts
<1>8. Fronts(AllChars, es, z, F)
  <2>1. \A x \in Seq(N) : x \in Seq(AllChars)
    OBVIOUS
  <2>2. F \in [0..Len(es) -> Seq(AllChars)]
    BY <2>1, <1>7
  <2> QED
    BY <2>2, <1>6 DEF Fronts
<1> DEFINE u == F[n - 1]
           t == u \o c
<1>9. u \in Seq(N) /\ u \in Seq(AllChars)
  <2>1. u \in Seq(N)
    BY <1>1, <1>7
  <2> HIDE DEF u
  <2> QED
    BY <2>1
<1>10. c \in Seq(AllChars) /\ c \in Seq(N) /\ c \in Seq(B) /\ c # <<>> /\ tail \in Seq(AllChars) /\ es[n] \in Seq(N)
  <2>1. c \in Seq(AllChars) /\ c \in Seq(N) /\ c \in Seq(B)
    BY LineMade
  <2>2. tail \in Seq(AllChars)
    BY WideChars
  <2>3. c # <<>>
    BY DEF Core
  <2>4. es[n] \in Seq(N)
    BY <1>1, <1>2
  <2> QED
    BY <2>1, <2>2, <2>3, <2>4
<1>11. BarsRead(es, n, c, F)
  <2>1. es \in Seq(Seq(AllChars \ {"|"})) /\ n = Len(es) /\ n > 0 /\ c \in Seq(AllChars \ {"|"})
    BY <1>1, <1>3, <1>10
  <2>2. Fronts(AllChars, es, <<"|">>, F)
    BY <1>8
  <2> HIDE DEF n
  <2> QED
    BY <2>1, <2>2, EntriesRead
<1>12. n = 1 => u = <<>>
  BY <1>7
<1>13. n # 1 => u # <<>> /\ u[1] \in Names
  <2> SUFFICES ASSUME n # 1 PROVE u # <<>> /\ u[1] \in Names
    OBVIOUS
  <2>1. n - 1 \in 1..Len(es) /\ 1 \in 1..Len(es)
    <3> HIDE DEF n
    <3>1. n - 1 \in 1..n /\ 1 \in 1..n
      BY <1>1
    <3> QED
      BY <3>1 DEF n
  <2>2. Texts(es)
    BY <1>2 DEF Texts
  <2> DEFINE i == n - 1
  <2>3. F[i] # <<>> /\ F[i][1] = es[1][1]
    <3>1. i \in 1..Len(es)
      BY <2>1
    <3>2. z \in Seq(AllChars)
      BY <1>5
    <3> HIDE DEF i, z, n
    <3> QED
      BY <1>8, <2>2, <3>1, <3>2, FrontsFirst
  <2> QED
    BY <2>1, <2>3
<1> HIDE DEF s, u, z
<1>14. s = u \o (c \o tail)
  BY <1>7 DEF u
<1>15. s = t \o tail
  BY <1>9, <1>10, <1>14, AnyOrder, Zenon
<1>16. s \in Seq(N)
  BY <1>7, <1>9, <1>10 DEF u
<1>17. t \in Seq(AllChars)
  BY <1>9, <1>10
<1>18. t # <<>> /\ t[Len(t)] = c[Len(c)]
  BY <1>9, <1>10, BehindIs
<1>19. t[1] \in Names
  <2>1. CASE n = 1
    <3>1. t = c
      BY <2>1, <1>10, <1>12, EmptyIs
    <3> QED
      BY <3>1
  <2>2. CASE n # 1
    <3>1. t[1] = u[1]
      BY <2>2, <1>9, <1>10, <1>13, BehindIs
    <3> QED
      BY <3>1, <2>2, <1>13
  <2> QED
    BY <2>1, <2>2
<1>20. Entries(t) = WithLast(es, c)
  BY <1>11 DEF BarsRead, WithLast, u
<1> HIDE DEF t
<1>21. Core(t)
  <2>1. Solid(t[1])
    BY <1>19, NameChars
  <2>2. Solid(c[Len(c)])
    BY DEF Core
  <2> QED
    BY <2>1, <2>2, <1>18 DEF Core
<1>22. Leaves(s, t)
  BY <1>15, <1>17, <1>21 DEF Leaves
<1>23. IsData(t)
  BY <1>19, DataLine
<1> QED
  BY <1>16, <1>20, <1>22, <1>23 DEF BarredAs, s, z

-----------------------------------------------------------------------------
(* Lines behind lines.                                                       *)

(* trim() leaves cs of the lines ls.                                         *)
LinesLeft(ls, cs) ==
    /\ ls \in Seq(Seq(AllChars \ {Newline})) /\ cs \in Seq(Seq(AllChars)) /\ Len(cs) = Len(ls)
    /\ \A i \in 1..Len(ls) : Leaves(ls[i], cs[i])

LEMMA NoLines == LinesLeft(<<>>, <<>>)
BY DEF LinesLeft

LEMMA SingleLine ==
    ASSUME NEW x \in Seq(AllChars \ {Newline}), NEW c, Leaves(x, c)
    PROVE  LinesLeft(<<x>>, <<c>>)
<1> DEFINE X == Seq(AllChars \ {Newline})
           Y == Seq(AllChars)
           a == <<x>>
           b == <<c>>
<1>1. x \in X /\ c \in Y
  BY DEF Leaves
<1> HIDE DEF X, Y
<1>2. a \in Seq(X) /\ b \in Seq(Y) /\ Len(a) = 1 /\ Len(b) = 1 /\ a[1] = x /\ b[1] = c
  BY <1>1
<1> HIDE DEF a, b
<1>3. \A i \in 1..Len(a) : Leaves(a[i], b[i])
  <2>1. \A i \in 1..1 : i = 1
    OBVIOUS
  <2> QED
    BY <1>2, <2>1
<1>4. LinesLeft(a, b)
  BY <1>2, <1>3 DEF LinesLeft, X, Y
<1> QED
  BY <1>4 DEF a, b

(* Members of sequences behind each other.                                   *)
LEMMA BehindSeq ==
    ASSUME NEW X, NEW a \in Seq(X), NEW c \in Seq(X)
    PROVE  /\ a \o c \in Seq(X) /\ Len(a \o c) = Len(a) + Len(c)
           /\ \A i \in 1..Len(a) : (a \o c)[i] = a[i]
           /\ \A i \in 1..Len(c) : (a \o c)[Len(a) + i] = c[i]
<1>1. a \o c \in Seq(X) /\ Len(a \o c) = Len(a) + Len(c)
  OBVIOUS
<1>2. \A i \in 1..Len(a) : (a \o c)[i] = a[i]
  OBVIOUS
<1>3. \A i \in 1..Len(c) : (a \o c)[Len(a) + i] = c[i]
  OBVIOUS
<1> QED
  BY <1>1, <1>2, <1>3

LEMMA LinesBoth ==
    ASSUME NEW a, NEW b, NEW c, NEW d, LinesLeft(a, b), LinesLeft(c, d)
    PROVE  LinesLeft(a \o c, b \o d)
<1> DEFINE X == Seq(AllChars \ {Newline})
           Y == Seq(AllChars)
           x == a \o c
           y == b \o d
           n == Len(a)
           m == Len(c)
<1>1. a \in Seq(X) /\ c \in Seq(X) /\ b \in Seq(Y) /\ d \in Seq(Y) /\ Len(b) = n /\ Len(d) = m
  BY DEF LinesLeft
<1>2. (\A i \in 1..n : Leaves(a[i], b[i])) /\ (\A i \in 1..m : Leaves(c[i], d[i]))
  BY DEF LinesLeft
<1> HIDE DEF X, Y
<1>3. n \in Nat /\ m \in Nat
  BY <1>1
<1>4. x \in Seq(X) /\ Len(x) = n + m /\ (\A i \in 1..n : x[i] = a[i]) /\ \A i \in 1..m : x[n + i] = c[i]
  BY <1>1, BehindSeq
<1>5. y \in Seq(Y) /\ Len(y) = n + m /\ (\A i \in 1..n : y[i] = b[i]) /\ \A i \in 1..m : y[n + i] = d[i]
  <2>1. y \in Seq(Y) /\ Len(y) = Len(b) + Len(d) /\ (\A i \in 1..Len(b) : y[i] = b[i])
        /\ \A i \in 1..Len(d) : y[Len(b) + i] = d[i]
    <3>1. b \in Seq(Y) /\ d \in Seq(Y)
      BY <1>1
    <3> QED
      BY <3>1, BehindSeq
  <2> HIDE DEF y, n, m
  <2> QED
    BY <1>1, <2>1
<1> HIDE DEF x, y, n, m
<1>6. ASSUME NEW i \in 1..(n + m) PROVE Leaves(x[i], y[i])
  <2>1. CASE i <= n
    <3>1. i \in 1..n
      BY <2>1, <1>3
    <3> QED
      BY <3>1, <1>2, <1>4, <1>5
  <2>2. CASE i > n
    <3> DEFINE j == i - n
    <3>1. j \in 1..m /\ n + j = i
      BY <2>2, <1>3
    <3> HIDE DEF j
    <3>2. x[n + j] = c[j] /\ y[n + j] = d[j] /\ Leaves(c[j], d[j])
      BY <3>1, <1>2, <1>4, <1>5
    <3> QED
      BY <3>1, <3>2
  <2> QED
    BY <2>1, <2>2, <1>3
<1>7. LinesLeft(x, y)
  BY <1>4, <1>5, <1>6 DEF LinesLeft, X, Y
<1> QED
  BY <1>7 DEF x, y

-----------------------------------------------------------------------------
(* The records of a response.                                                *)

(* m is what is read of the record: the last value may have lost the blanks  *)
(* at its end if the entry ends its line.                                    *)
EntryRead(R, bare, last, m) ==
    LET v == R[Len(R)][2]
    IN  \E w : LeftOf(w, v) /\ (w = v \/ (last /\ EndsBlank(v))) /\ PairStored(R, bare, Len(R), w, m)

RecordsRead(recs, bare, split, E) ==
    /\ Len(E) = Len(recs) /\ E = [k \in 1..Len(recs) |-> E[k]]
    /\ \A k \in 1..Len(recs) : EntryRead(recs[k], bare, split \/ k = Len(recs), E[k])

(* A value is left of itself.                                                *)
LEMMA LeftSelf ==
    ASSUME NEW v \in Seq(Chars)
    PROVE  LeftOf(v, v)
<1>1. Len(v) \in 0..Len(v) /\ v = SubSeq(v, 1, Len(v)) /\ \A i \in (Len(v) + 1)..Len(v) : FALSE
  BY SubTexts
<1> QED
  BY <1>1 DEF LeftOf

(* The values of a record.                                                   *)
LEMMA RecordValues ==
    ASSUME NEW R, IsRecord(R)
    PROVE  Len(R) \in 1..Len(R) /\ DOMAIN R = 1..Len(R) /\ \A i \in 1..Len(R) : R[i][2] \in Seq(Chars)
<1>1. Len(R) \in 1..Len(R) /\ R \in Seq(Names \X Seq(Chars))
  BY DEF IsRecord
<1> QED
  BY <1>1

(* Both texts of an entry are read so.                                       *)
LEMMA EntryReadIs ==
    ASSUME NEW R, IsRecord(R), NEW bare, NEW c, NEW w, EntryLeft(R, bare, c, w)
    PROVE  /\ EntryRead(R, bare, TRUE, ParseKeyValue(c))
           /\ EntryRead(R, bare, FALSE, ParseKeyValue(Entry(R, bare)))
<1> DEFINE v == R[Len(R)][2]
<1>1. PICK tail \in Seq(Wide) : Rest(v, w, tail)
  BY DEF EntryLeft
<1>2. PairStored(R, bare, Len(R), w, ParseKeyValue(c)) /\ PairStored(R, bare, Len(R), v, ParseKeyValue(Entry(R, bare)))
  BY DEF EntryLeft
<1>3. LeftOf(w, v) /\ (w = v \/ EndsBlank(v))
  BY <1>1 DEF Rest
<1>4. v \in Seq(Chars)
  BY RecordValues
<1>5. LeftOf(v, v)
  BY <1>4, LeftSelf
<1> QED
  BY <1>2, <1>3, <1>5 DEF EntryRead

(* A report holds records.                                                   *)
LEMMA ReportType ==
    ASSUME NEW recs \in Reports
    PROVE  Len(recs) \in Nat /\ DOMAIN recs = 1..Len(recs) /\ \A k \in 1..Len(recs) : IsRecord(recs[k])
<1> DEFINE X == Names \X Seq(Chars)
           Y == Seq(X)
<1>1. recs \in Seq(Y) /\ \A k \in DOMAIN recs : /\ recs[k] # <<>>
                                                /\ \A i, j \in DOMAIN recs[k] : recs[k][i][1] = recs[k][j][1] => i = j
  BY ReportsAssumption
<1> HIDE DEF Y
<1>2. Len(recs) \in Nat /\ DOMAIN recs = 1..Len(recs) /\ \A k \in 1..Len(recs) : recs[k] \in Y
  BY <1>1
<1>3. ASSUME NEW k \in 1..Len(recs) PROVE IsRecord(recs[k])
  <2> DEFINE R == recs[k]
  <2>1. R \in Seq(X) /\ R # <<>> /\ \A i, j \in DOMAIN R : R[i][1] = R[j][1] => i = j
    BY <1>1, <1>2 DEF Y
  <2> HIDE DEF R, X
  <2>2. Len(R) \in Nat \ {0} /\ DOMAIN R = 1..Len(R)
    BY <2>1
  <2>3. IsRecord(R)
    BY <2>1, <2>2 DEF IsRecord, X
  <2> QED
    BY <2>3 DEF R
<1> QED
  BY <1>2, <1>3

(* The lines of data: see RawReply().                                        *)
EntriesOf(recs, bare) == [k \in DOMAIN recs |-> Entry(recs[k], bare)]
DataOf(recs, bare, split) ==
    IF split \/ EntriesOf(recs, bare) = <<>> THEN EntriesOf(recs, bare) ELSE <<Join(EntriesOf(recs, bare), <<"|">>)>>

(* They are read as the records.                                             *)
DataReadAs(recs, bare, split, cs, E) ==
    LinesLeft(DataOf(recs, bare, split), cs) /\ LinesOf(cs) = Gathered(E) /\ RecordsRead(recs, bare, split, E)

LEMMA DataRead ==
    ASSUME NEW recs \in Reports, NEW bare, NEW split
    PROVE  \E cs, E : DataReadAs(recs, bare, split, cs, E)
<1> DEFINE n == Len(recs)
           es == EntriesOf(recs, bare)
           C(k) == CHOOSE d : \E w : EntryLeft(recs[k], bare, d, w)
           c == [k \in 1..n |-> C(k)]
           L == Seq(LineChars)
<1>1. n \in Nat /\ DOMAIN recs = 1..n /\ \A k \in 1..n : IsRecord(recs[k])
  BY ReportType
<1>2. \A k \in 1..n : \E w : EntryLeft(recs[k], bare, c[k], w)
  BY <1>1, EntryFacts
<1>3. \A k \in 1..n : /\ Leaves(Entry(recs[k], bare), c[k]) /\ c[k][1] \in Names
                      /\ c[k] \in L /\ Entry(recs[k], bare) \in L
                      /\ EntryRead(recs[k], bare, TRUE, ParseKeyValue(c[k]))
                      /\ EntryRead(recs[k], bare, FALSE, ParseKeyValue(Entry(recs[k], bare)))
  <2> HIDE DEF c, n, C
  <2>1. SUFFICES ASSUME NEW k \in 1..n
                 PROVE  /\ Leaves(Entry(recs[k], bare), c[k]) /\ c[k][1] \in Names
                        /\ c[k] \in L /\ Entry(recs[k], bare) \in L
                        /\ EntryRead(recs[k], bare, TRUE, ParseKeyValue(c[k]))
                        /\ EntryRead(recs[k], bare, FALSE, ParseKeyValue(Entry(recs[k], bare)))
    OBVIOUS
  <2>2. PICK w : EntryLeft(recs[k], bare, c[k], w)
    BY <1>2
  <2>3. IsRecord(recs[k])
    BY <1>1
  <2>4. Leaves(Entry(recs[k], bare), c[k]) /\ c[k][1] \in Names /\ c[k] \in L /\ Entry(recs[k], bare) \in L
    BY <2>2, <2>3, EntryLine
  <2>5. /\ EntryRead(recs[k], bare, TRUE, ParseKeyValue(c[k]))
        /\ EntryRead(recs[k], bare, FALSE, ParseKeyValue(Entry(recs[k], bare)))
    BY <2>2, <2>3, EntryReadIs
  <2> QED
    BY <2>4, <2>5
<1>4. es = [k \in 1..n |-> Entry(recs[k], bare)]
  BY <1>1 DEF EntriesOf
<1>5. es \in Seq(L) /\ Len(es) = n /\ (\A k \in 1..n : es[k] = Entry(recs[k], bare)) /\ c \in Seq(L) /\ Len(c) = n
  <2> HIDE DEF n, L, C
  <2>1. c \in Seq(L) /\ Len(c) = n
    <3>1. c \in [1..n -> L]
      <4>1. \A k \in 1..n : C(k) = c[k]
        OBVIOUS
      <4>2. \A k \in 1..n : C(k) \in L
        BY <1>3, <4>1
      <4> QED
        BY <4>2
    <3> HIDE DEF c
    <3> QED
      BY <1>1, <3>1
  <2> HIDE DEF es, c
  <2>2. es \in Seq(L) /\ Len(es) = n /\ \A k \in 1..n : es[k] = Entry(recs[k], bare)
    <3>1. \A k \in 1..n : Entry(recs[k], bare) \in L
      BY <1>3
    <3>2. \A k \in 1..n : es[k] = Entry(recs[k], bare)
      BY <1>4
    <3>3. es \in [1..n -> L]
      BY <1>4, <3>1
    <3>4. es \in Seq(L) /\ Len(es) = n
      BY <1>1, <3>3
    <3> QED
      BY <3>2, <3>4
  <2> QED
    BY <2>1, <2>2
<1> HIDE DEF es, c, n, C
<1>6. \A x \in L : x \in Seq(AllChars) /\ x \in Seq(AllChars \ {Newline})
  BY LineMade
<1>7. (es = <<>>) <=> n = 0
  <2> HIDE DEF L
  <2> QED
    BY <1>5
<1>8. CASE split \/ n = 0
  <2> DEFINE E == [k \in 1..n |-> ParseKeyValue(c[k])]
             X == Seq(AllChars \ {Newline})
             Y == Seq(AllChars)
  <2>1. DataOf(recs, bare, split) = es
    BY <1>7, <1>8 DEF DataOf, es
  <2>2. LinesLeft(es, c)
    <3>1. (\A k \in 1..n : es[k] \in X /\ c[k] \in Y) /\ \A i \in 1..n : Leaves(es[i], c[i])
      BY <1>3, <1>5, <1>6
    <3> HIDE DEF X, Y, L
    <3>2. es \in Seq(X) /\ c \in Seq(Y)
      BY <1>5, <3>1, SeqOf
    <3> QED
      BY <1>5, <3>1, <3>2 DEF LinesLeft, X, Y
  <2>3. LinesOf(c) = Gathered(E)
    <3>1. \A k \in 1..Len(c) : c[k][1] \in Names
      BY <1>3, <1>5
    <3>2. LinesOf(c) = Gathered([k \in 1..Len(c) |-> ParseKeyValue(c[k])])
      BY <1>5, <3>1, SplitRead
    <3> QED
      BY <1>5, <3>2
  <2>4. RecordsRead(recs, bare, split, E)
    <3>1. Len(E) = n /\ E = [k \in 1..n |-> E[k]] /\ \A k \in 1..n : E[k] = ParseKeyValue(c[k])
      BY <1>1
    <3>2. \A k \in 1..n : EntryRead(recs[k], bare, split \/ k = n, E[k])
      <4>1. SUFFICES ASSUME NEW k \in 1..n PROVE EntryRead(recs[k], bare, split \/ k = n, E[k])
        OBVIOUS
      <4>2. split
        BY <1>1, <1>8
      <4>3. EntryRead(recs[k], bare, TRUE, E[k])
        BY <1>3, <3>1
      <4> HIDE DEF E
      <4> QED
        BY <4>2, <4>3 DEF EntryRead
    <3> HIDE DEF E
    <3> QED
      BY <3>1, <3>2 DEF RecordsRead, n
  <2> HIDE DEF E
  <2> QED
    BY <2>1, <2>2, <2>3, <2>4 DEF DataReadAs
<1>9. CASE ~split /\ n # 0
  <2> DEFINE d == c[n]
             x == Join(es, <<"|">>)
             E == WithLast(es, d)
  <2>1. n \in 1..n /\ n > 0
    BY <1>1, <1>9
  <2>2. PICK w : EntryLeft(recs[n], bare, d, w)
    BY <1>2, <2>1
  <2>3. PICK tail \in Seq(Wide) : es[n] = d \o tail
    BY <1>5, <2>1, <2>2 DEF EntryLeft
  <2>4. Core(d) /\ d[1] \in Names /\ d \in Seq(LineChars)
    BY <1>3, <2>1, <2>2 DEF EntryLeft
  <2>5. \A k \in 1..Len(es) : es[k] # <<>> /\ es[k][1] \in Names
    <3>1. SUFFICES ASSUME NEW k \in 1..n PROVE es[k] # <<>> /\ es[k][1] \in Names
      BY <1>5
    <3>2. PICK u : EntryLeft(recs[k], bare, c[k], u)
      BY <1>2
    <3>3. PICK z \in Seq(Wide) : es[k] = c[k] \o z
      BY <1>5, <3>2 DEF EntryLeft
    <3> DEFINE y == c[k]
    <3>4. y \in L /\ y[1] \in Names /\ Core(y)
      BY <1>3, <3>2 DEF EntryLeft
    <3>5. y \in Seq(AllChars) /\ y # <<>>
      BY <3>4, <1>6 DEF Core
    <3>6. z \in Seq(AllChars)
      BY WideChars
    <3> HIDE DEF y
    <3>7. y \o z # <<>> /\ (y \o z)[1] = y[1]
      BY <3>5, <3>6, BehindIs
    <3> QED
      BY <3>3, <3>4, <3>7 DEF y
  <2>6. PICK t : BarredAs(es, d, t)
    <3>1. Len(es) > 0 /\ es[Len(es)] = d \o tail
      BY <1>5, <2>1, <2>3
    <3> HIDE DEF d
    <3> QED
      BY <1>5, <2>4, <2>5, <3>1, BarredRead
  <2>7. DataOf(recs, bare, split) = <<x>>
    BY <1>7, <1>9 DEF DataOf, es
  <2>8. /\ x \in Seq(AllChars \ {Newline}) /\ Leaves(x, t)
        /\ IsData(t) /\ Entries(t) = E
    BY <2>6 DEF BarredAs
  <2> HIDE DEF x, E, d
  <2>9. LinesLeft(<<x>>, <<t>>)
    BY <2>8, SingleLine
  <2>10. LinesOf(<<t>>) = Gathered(E)
    <3>1. t \in Seq(AllChars)
      BY <2>8 DEF Leaves
    <3>2. NoLine \in LoopStates
      BY LoopFType
    <3>3. After(LoopF, NoLine, <<t>>) = ReadLine(NoLine, t)
      BY <3>1, <3>2, LoopOne
    <3>4. ReadLine(NoLine, t) = Gathered(<<>> \o E)
      BY <2>8, LoopCases, GatheredType
    <3>5. <<>> \o E = E
      <4>1. E \in Seq(Parses)
        BY <2>8, <3>1, EntriesType
      <4> QED
        BY <4>1, EmptyIs
    <3> QED
      BY <3>3, <3>4, <3>5 DEF LinesOf
  <2>11. RecordsRead(recs, bare, split, E)
    <3>1. Len(E) = n /\ E = [k \in 1..n |-> E[k]]
          /\ \A k \in 1..n : E[k] = ParseKeyValue(IF k = n THEN d ELSE es[k])
      BY <1>1, <1>5 DEF E, WithLast
    <3>2. \A k \in 1..n : EntryRead(recs[k], bare, split \/ k = n, E[k])
      <4>1. SUFFICES ASSUME NEW k \in 1..n PROVE EntryRead(recs[k], bare, split \/ k = n, E[k])
        OBVIOUS
      <4>2. CASE k = n
        <5>1. EntryRead(recs[k], bare, TRUE, E[k])
          BY <1>3, <3>1, <4>2 DEF d
        <5> QED
          BY <4>2, <5>1 DEF EntryRead
      <4>3. CASE k # n
        <5>1. EntryRead(recs[k], bare, FALSE, E[k])
          BY <1>3, <1>5, <3>1, <4>3
        <5> QED
          BY <5>1 DEF EntryRead
      <4> QED
        BY <4>2, <4>3
    <3> QED
      BY <3>1, <3>2 DEF RecordsRead, n
  <2> QED
    BY <2>7, <2>9, <2>10, <2>11 DEF DataReadAs
<1> QED
  BY <1>8, <1>9

-----------------------------------------------------------------------------
(* The whole response.                                                       *)

IsReply(r) ==
    /\ r.records \in Reports /\ r.end \in LineEnds /\ r.id \in {"0", "1"} /\ r.notified \in 0..1
    /\ r.cut \in BOOLEAN

(* The notifications, and the last line.                                     *)
NotesOf(r) == [i \in 1..r.notified |-> Notification]
EndOf(r) == IF r.cut THEN <<>> ELSE <<ErrorLine(r.id)>>

(* What is read of it: without an error line nothing is over.                *)
ReadAs(r, E) == IF r.cut THEN Gathered(E) ELSE [entries |-> E, over |-> TRUE, id |-> <<r.id>>]

(* No notification, or one.                                                  *)
LEMMA NotesRead ==
    ASSUME NEW r, IsReply(r), NEW E, Gathered(E) \in LoopStates
    PROVE  LinesLeft(NotesOf(r), NotesOf(r)) /\ After(LoopF, Gathered(E), NotesOf(r)) = Gathered(E)
<1> DEFINE x == Notification
           s == Gathered(E)
<1>1. x \in Seq(LineChars) /\ Leaves(x, x) /\ ~IsError(x) /\ x[1] \in Events
  BY NotificationIs
<1>2. x \in Seq(AllChars \ {Newline}) /\ x \in Seq(AllChars)
  BY <1>1, LineMade
<1> HIDE DEF x
<1>3. After(LoopF, s, <<x>>) = s /\ After(LoopF, s, <<>>) = s
  <2>1. ReadLine(s, x) = s
    BY <1>1, LoopCases
  <2> HIDE DEF s
  <2>2. After(LoopF, s, <<x>>) = ReadLine(s, x) /\ After(LoopF, s, <<>>) = s
    BY <1>2, LoopOne DEF s
  <2> QED
    BY <2>1, <2>2
<1>4. r.notified = 0 \/ r.notified = 1
  BY DEF IsReply
<1>5. r.notified = 0 => NotesOf(r) = <<>>
  BY DEF NotesOf
<1>6. r.notified = 1 => NotesOf(r) = <<x>>
  BY DEF NotesOf, x
<1>7. LinesLeft(<<>>, <<>>) /\ LinesLeft(<<x>>, <<x>>)
  BY <1>1, <1>2, NoLines, SingleLine
<1> QED
  BY <1>3, <1>4, <1>5, <1>6, <1>7

(* The error line, unless it is cut off.                                     *)
LEMMA EndRead ==
    ASSUME NEW r, IsReply(r), NEW E, Gathered(E) \in LoopStates
    PROVE  LinesLeft(EndOf(r), EndOf(r)) /\ After(LoopF, Gathered(E), EndOf(r)) = ReadAs(r, E)
<1> DEFINE x == ErrorLine(r.id)
           s == Gathered(E)
<1>1. x \in Seq(LineChars) /\ Leaves(x, x) /\ IsError(x) /\ ErrorId(x) = <<r.id>>
  BY ErrorLineIs DEF IsReply
<1>2. x \in Seq(AllChars \ {Newline}) /\ x \in Seq(AllChars)
  BY <1>1, LineMade
<1>3. After(LoopF, s, <<x>>) = ReadLine(s, x) /\ After(LoopF, s, <<>>) = s
  <2> HIDE DEF s, x
  <2> QED
    BY <1>2, LoopOne DEF s
<1>4. ReadLine(s, x) = [entries |-> E, over |-> TRUE, id |-> <<r.id>>]
  <2> HIDE DEF x
  <2>1. ReadLine(s, x) = [entries |-> E, over |-> TRUE, id |-> ErrorId(x)]
    BY <1>1, LoopCases
  <2> QED
    BY <2>1, <1>1
<1> HIDE DEF x, s
<1>5. LinesLeft(<<>>, <<>>) /\ LinesLeft(<<x>>, <<x>>)
  BY <1>1, <1>2, NoLines, SingleLine
<1>6. CASE r.cut
  BY <1>3, <1>5, <1>6 DEF EndOf, ReadAs, s
<1>7. CASE ~r.cut
  BY <1>3, <1>4, <1>5, <1>7 DEF EndOf, ReadAs, s, x
<1> QED
  BY <1>6, <1>7

(* A response is read as the records it was made from.                       *)
LEMMA ReplyRead ==
    ASSUME NEW r, IsReply(r)
    PROVE  \E E : RecordsRead(r.records, r.bare, r.split, E) /\ ParseResponse(RawReply(r)) = ReadAs(r, E)
<1> DEFINE D == DataOf(r.records, r.bare, r.split)
           N == NotesOf(r)
           X == EndOf(r)
           ls == (D \o N) \o X
           e == r.end
<1>1. PICK cs, E : DataReadAs(r.records, r.bare, r.split, cs, E)
  BY DataRead DEF IsReply
<1>2. LinesLeft(D, cs) /\ LinesOf(cs) = Gathered(E) /\ RecordsRead(r.records, r.bare, r.split, E)
  BY <1>1 DEF DataReadAs
<1> DEFINE vs == (cs \o N) \o X
<1>3. cs \in Seq(Seq(AllChars))
  BY <1>2 DEF LinesLeft
<1>4. Gathered(E) \in LoopStates
  <2>1. NoLine \in LoopStates
    BY LoopFType
  <2>2. LinesOf(cs) \in LoopStates
    BY <1>3, <2>1, LoopBoth DEF LinesOf
  <2> QED
    BY <2>2, <1>2
<1>5. LinesLeft(N, N) /\ After(LoopF, Gathered(E), N) = Gathered(E)
  BY <1>4, NotesRead
<1>6. LinesLeft(X, X) /\ After(LoopF, Gathered(E), X) = ReadAs(r, E)
  BY <1>4, EndRead
<1>7. IsEnd(e)
  BY LineEndsAssumption DEF IsEnd, IsReply
<1>8. RawReply(r) = Join(ls, e) \o e
  BY DEF RawReply, DataOf, EntriesOf, NotesOf, EndOf
<1> HIDE DEF D, N, X, e
<1>9. LinesLeft(ls, vs)
  <2>1. LinesLeft(D \o N, cs \o N)
    BY <1>2, <1>5, LinesBoth
  <2> QED
    BY <2>1, <1>6, LinesBoth
<1>10. N \in Seq(Seq(AllChars)) /\ X \in Seq(Seq(AllChars))
  BY <1>5, <1>6 DEF LinesLeft
<1>11. LinesOf(vs) = ReadAs(r, E)
  <2> DEFINE Y == Seq(AllChars)
             z == cs \o N
  <2>1. cs \in Seq(Y) /\ N \in Seq(Y) /\ X \in Seq(Y)
    BY <1>3, <1>10
  <2>2. NoLine \in LoopStates
    BY LoopFType
  <2>3. z \in Seq(Y)
    <3> HIDE DEF Y
    <3> QED
      BY <2>1
  <2>4. After(LoopF, NoLine, cs \o N) = After(LoopF, After(LoopF, NoLine, cs), N)
    BY <2>1, <2>2, LoopBoth
  <2> HIDE DEF z
  <2>5. After(LoopF, NoLine, z \o X) = After(LoopF, After(LoopF, NoLine, z), X)
    BY <2>1, <2>2, <2>3, LoopBoth
  <2>6. After(LoopF, NoLine, cs) = Gathered(E)
    BY <1>2 DEF LinesOf
  <2>7. After(LoopF, NoLine, z) = Gathered(E)
    BY <1>5, <2>4, <2>6 DEF z
  <2>8. After(LoopF, NoLine, z \o X) = ReadAs(r, E)
    BY <1>6, <2>5, <2>7
  <2> QED
    BY <2>8 DEF LinesOf, z
<1> HIDE DEF ls, vs
<1>12. Lines(RawReply(r)) = vs
  <2>1. /\ ls \in Seq(Seq(AllChars \ {Newline})) /\ vs \in Seq(Seq(AllChars)) /\ Len(vs) = Len(ls)
        /\ \A i \in 1..Len(ls) : Leaves(ls[i], vs[i])
    BY <1>9 DEF LinesLeft
  <2>2. Lines(Join(ls, e) \o e) = vs
    BY <2>1, <1>7, LinesRead
  <2> QED
    BY <2>2, <1>8
<1>13. ParseResponse(RawReply(r)) = ReadAs(r, E)
  <2>1. ParseResponse(RawReply(r)) = ReadLines(vs)
    BY <1>12, ParseIs
  <2>2. vs \in Seq(Seq(AllChars))
    BY <1>9 DEF LinesLeft
  <2>3. ReadLines(vs) = LinesOf(vs)
    BY <2>2, ReadLinesRun
  <2> QED
    BY <2>1, <2>3, <1>11
<1> QED
  BY <1>2, <1>13

-----------------------------------------------------------------------------
(* The requests and their answers.                                           *)

(* How a call ends: see Resolve.                                             *)
Answer(r) ==
    LET response == ParseResponse(RawReply(r))
    IN  IF response.over /\ response.id = <<"0">>
        THEN [status |-> 200, entries |-> response.entries]
        ELSE [status |-> 500, entries |-> <<>>]

(* A response follows a command, which follows a request that was not        *)
(* refused, and the answer is the one to it.                                 *)
RInv ==
    /\ line = <<>> => reply = None
    /\ line # <<>> /\ reply = None => result = None
    /\ reply # None => IsReply(reply)
    /\ reply # None /\ result # None => result = Answer(reply)

LEMMA InitRInv == Init => RInv
BY DEF Init, RInv

LEMMA NextRInv == RInv /\ [Next]_vars => RInv'
<1> SUFFICES ASSUME RInv, [Next]_vars PROVE RInv'
  OBVIOUS
<1>1. /\ line = <<>> => reply = None
      /\ line # <<>> /\ reply = None => result = None
      /\ reply # None => IsReply(reply)
      /\ reply # None /\ result # None => result = Answer(reply)
  BY DEF RInv
<1>2. CASE Refuse
  <2>1. line = <<>> /\ UNCHANGED <<line, reply>>
    BY <1>2 DEF Refuse
  <2> QED
    BY <2>1, <1>1 DEF RInv
<1>3. CASE Send
  <2>1. line = <<>> /\ result = None /\ UNCHANGED <<reply, result>>
    BY <1>3 DEF Send
  <2> QED
    BY <2>1, <1>1 DEF RInv
<1>4. CASE Reply
  <2>1. line # <<>> /\ reply = None /\ UNCHANGED <<line, result>>
    BY <1>4 DEF Reply
  <2>2. IsReply(reply')
    BY <1>4 DEF Reply, IsReply
  <2> QED
    BY <2>1, <2>2, <1>1 DEF RInv
<1>5. CASE Resolve
  <2>1. reply # None /\ result' = Answer(reply) /\ UNCHANGED <<line, reply>>
    BY <1>5 DEF Resolve, Answer
  <2> QED
    BY <2>1, <1>1 DEF RInv
<1>6. CASE UNCHANGED vars
  BY <1>1, <1>6 DEF vars, RInv
<1> QED
  BY <1>2, <1>3, <1>4, <1>5, <1>6 DEF Next

(* What an answer holds.                                                     *)
LEMMA AnswerIs ==
    ASSUME NEW r, IsReply(r)
    PROVE  \E E : /\ RecordsRead(r.records, r.bare, r.split, E)
                  /\ Answer(r) = IF r.id = "0" /\ ~r.cut THEN [status |-> 200, entries |-> E]
                                 ELSE [status |-> 500, entries |-> <<>>]
<1>1. PICK E : RecordsRead(r.records, r.bare, r.split, E) /\ ParseResponse(RawReply(r)) = ReadAs(r, E)
  BY ReplyRead
<1> DEFINE x == ParseResponse(RawReply(r))
<1>2. Answer(r) = IF x.over /\ x.id = <<"0">> THEN [status |-> 200, entries |-> x.entries]
                  ELSE [status |-> 500, entries |-> <<>>]
  BY DEF Answer
<1>3. x = ReadAs(r, E)
  BY <1>1
<1> HIDE DEF x
<1>4. CASE r.cut
  <2>1. x.over = FALSE
    BY <1>3, <1>4 DEF ReadAs, Gathered
  <2> QED
    BY <1>1, <1>2, <1>4, <2>1
<1>5. CASE ~r.cut
  <2>1. x.over = TRUE /\ x.id = <<r.id>> /\ x.entries = E
    BY <1>3, <1>5 DEF ReadAs
  <2>2. <<r.id>> = <<"0">> <=> r.id = "0"
    OBVIOUS
  <2> QED
    BY <1>1, <1>2, <1>5, <2>1, <2>2
<1> QED
  BY <1>4, <1>5

(* The records, with no value lost.                                          *)
LEMMA RecordIs ==
    ASSUME NEW R, IsRecord(R), NEW bare, NEW last, NEW m, EntryRead(R, bare, last, m),
           \A i \in 1..(Len(R) - 1) : ~Alone(R, bare, i), ~(last /\ EndsBlank(R[Len(R)][2]))
    PROVE  m = [key \in {<<R[i][1]>> : i \in DOMAIN R} |-> R[CHOOSE i \in DOMAIN R : <<R[i][1]>> = key][2]]
<1> DEFINE n == Len(R)
           v == R[n][2]
           K == {<<R[i][1]>> : i \in 1..n}
           C(key) == CHOOSE i \in DOMAIN R : <<R[i][1]>> = key
<1>1. n \in 1..n /\ DOMAIN R = 1..n
  BY RecordValues
<1>2. PairStored(R, bare, n, v, m)
  BY DEF EntryRead
<1>3. DOMAIN m = K /\ m = [x \in DOMAIN m |-> m[x]] /\ StoredTo(R, n, v, m)
  BY <1>2 DEF PairStored
<1>4. ASSUME NEW key \in K PROVE m[key] = R[C(key)][2]
  <2>1. C(key) \in DOMAIN R /\ <<R[C(key)][1]>> = key
    BY <1>1
  <2> DEFINE j == C(key)
  <2> HIDE DEF j, C
  <2>2. j \in 1..Len(R) /\ <<R[j][1]>> = key
    BY <1>1, <2>1 DEF j
  <2>3. m[<<R[j][1]>>] = IF j = n THEN v ELSE R[j][2]
    BY <1>3, <2>2 DEF StoredTo
  <2> QED
    BY <2>2, <2>3 DEF j
<1> HIDE DEF C
<1>5. m = [key \in K |-> R[C(key)][2]]
  BY <1>3, <1>4
<1> QED
  BY <1>1, <1>5 DEF C

(* Records are read back.                                                    *)
LEMMA RInvRecords == RInv => RecordsReadBack
<1> SUFFICES ASSUME RInv, reply # None, result # None
             PROVE  /\ (result.status = 200) = (reply.id = "0" /\ ~reply.cut)
                    /\ result.status = 200 /\ ~Swallows(reply) /\ ~Trims(reply) =>
                           result.entries = [k \in DOMAIN reply.records |->
                               LET record == reply.records[k]
                               IN  [key \in {<<record[i][1]>> : i \in DOMAIN record} |->
                                      record[CHOOSE i \in DOMAIN record : <<record[i][1]>> = key][2]]]
  BY DEF RecordsReadBack
<1>1. IsReply(reply) /\ result = Answer(reply)
  BY DEF RInv
<1>2. PICK E : /\ RecordsRead(reply.records, reply.bare, reply.split, E)
               /\ Answer(reply) = IF reply.id = "0" /\ ~reply.cut THEN [status |-> 200, entries |-> E]
                                  ELSE [status |-> 500, entries |-> <<>>]
  BY <1>1, AnswerIs
<1>3. (result.status = 200) = (reply.id = "0" /\ ~reply.cut)
  BY <1>1, <1>2
<1>4. ASSUME result.status = 200, ~Swallows(reply), ~Trims(reply)
      PROVE  result.entries = [k \in DOMAIN reply.records |->
                 LET record == reply.records[k]
                 IN  [key \in {<<record[i][1]>> : i \in DOMAIN record} |->
                        record[CHOOSE i \in DOMAIN record : <<record[i][1]>> = key][2]]]
  <2> DEFINE recs == reply.records
             Map(R) == [key \in {<<R[i][1]>> : i \in DOMAIN R} |-> R[CHOOSE i \in DOMAIN R : <<R[i][1]>> = key][2]]
  <2>1. result.entries = E
    BY <1>1, <1>2, <1>3, <1>4
  <2>2. Len(recs) \in Nat /\ DOMAIN recs = 1..Len(recs) /\ \A k \in 1..Len(recs) : IsRecord(recs[k])
    BY <1>1, ReportType DEF IsReply
  <2>3. ASSUME NEW k \in 1..Len(recs) PROVE E[k] = Map(recs[k])
    <3> DEFINE R == recs[k]
               last == reply.split \/ k = Len(recs)
    <3>1. IsRecord(R) /\ EntryRead(R, reply.bare, last, E[k])
      BY <1>2, <2>2 DEF RecordsRead
    <3>2. \A i \in 1..(Len(R) - 1) : ~Alone(R, reply.bare, i)
      BY <1>4, <2>2 DEF Swallows, Alone
    <3>3. ~(last /\ EndsBlank(R[Len(R)][2]))
      BY <1>4, <2>2 DEF Trims
    <3> HIDE DEF R, last
    <3> QED
      BY <3>1, <3>2, <3>3, RecordIs DEF R
  <2>4. E = [k \in 1..Len(recs) |-> E[k]]
    BY <1>2 DEF RecordsRead
  <2> HIDE DEF Map
  <2>5. E = [k \in DOMAIN recs |-> Map(recs[k])]
    BY <2>2, <2>3, <2>4
  <2> QED
    BY <2>1, <2>5 DEF Map
<1> QED
  BY <1>3, <1>4

(* Values stay with their keys.                                              *)
LEMMA RInvValues == RInv => ValuesKeepTheirKey
<1> SUFFICES ASSUME RInv, reply # None, result # None, result.status = 200
             PROVE  /\ Len(result.entries) = Len(reply.records)
                    /\ \A k \in DOMAIN result.entries : \A i \in DOMAIN reply.records[k] :
                           <<reply.records[k][i][1]>> \in DOMAIN result.entries[k] =>
                               LeftOf(result.entries[k][<<reply.records[k][i][1]>>], reply.records[k][i][2])
  BY DEF ValuesKeepTheirKey
<1> DEFINE recs == reply.records
<1>1. IsReply(reply) /\ result = Answer(reply)
  BY DEF RInv
<1>2. PICK E : /\ RecordsRead(recs, reply.bare, reply.split, E)
               /\ Answer(reply) = IF reply.id = "0" /\ ~reply.cut THEN [status |-> 200, entries |-> E]
                                  ELSE [status |-> 500, entries |-> <<>>]
  BY <1>1, AnswerIs
<1>3. result.entries = E
  BY <1>1, <1>2
<1>4. Len(recs) \in Nat /\ DOMAIN recs = 1..Len(recs) /\ \A k \in 1..Len(recs) : IsRecord(recs[k])
  BY <1>1, ReportType DEF IsReply
<1>5. Len(E) = Len(recs) /\ DOMAIN E = 1..Len(recs)
  BY <1>2 DEF RecordsRead
<1>6. ASSUME NEW k \in 1..Len(recs), NEW i \in DOMAIN recs[k], <<recs[k][i][1]>> \in DOMAIN E[k]
      PROVE  LeftOf(E[k][<<recs[k][i][1]>>], recs[k][i][2])
  <2> DEFINE R == recs[k]
             n == Len(R)
  <2>1. IsRecord(R)
    BY <1>4
  <2>2. EntryRead(R, reply.bare, reply.split \/ k = Len(recs), E[k])
    BY <1>2 DEF RecordsRead
  <2> HIDE DEF R
  <2>3. PICK w : LeftOf(w, R[n][2]) /\ StoredTo(R, n, w, E[k])
    BY <2>2 DEF EntryRead, PairStored
  <2>4. i \in 1..Len(R) /\ R[i][2] \in Seq(Chars)
    BY <2>1, <1>6, RecordValues DEF R
  <2>5. E[k][<<R[i][1]>>] = IF i = n THEN w ELSE R[i][2]
    BY <2>3, <2>4, <1>6 DEF StoredTo, R
  <2>6. LeftOf(R[i][2], R[i][2])
    BY <2>4, LeftSelf
  <2>7. LeftOf(E[k][<<R[i][1]>>], R[i][2])
    BY <2>3, <2>5, <2>6
  <2> QED
    BY <2>7 DEF R
<1> QED
  BY <1>3, <1>5, <1>6

(* For all texts a server may report: a call that resolves has read the      *)
(* records of the response, whatever separates them, however the lines end   *)
(* and whether a notification is between them (executeRead(),                *)
(* parseRawResponse() and parseKeyValueLine()).                              *)
THEOREM RecordsAreReadBack == Spec => []RecordsReadBack
<1>1. Spec => []RInv
  BY InitRInv, NextRInv, PTL DEF Spec
<1> QED
  BY <1>1, RInvRecords, PTL

(* Even where a key is written alone, or trim() takes blanks from the end of *)
(* a value, no value passes to another key or to another record.             *)
THEOREM ValuesAlwaysKeepTheirKey == Spec => []ValuesKeepTheirKey
<1>1. Spec => []RInv
  BY InitRInv, NextRInv, PTL DEF Spec
<1> QED
  BY <1>1, RInvValues, PTL
=============================================================================
