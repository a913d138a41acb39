---------------------------- MODULE ThreadProofs ----------------------------
(***************************************************************************)
(* Facts about the message lists of Thread, for lists of any length.       *)
(***************************************************************************)
EXTENDS Thread, SequenceTheorems, WellFoundedInduction, TLAPS

\* A non-empty set of numbers up to n has a greatest element: n - k is least.
LEMMA GreatestExists ==
  ASSUME NEW n \in Nat, NEW T \in SUBSET (0..n), T # {}
  PROVE  \E k \in T : \A j \in T : j <= k
  <1> DEFINE Gap == {x \in 0..n : n - x \in T}
  <1>1. Gap \subseteq Nat
    OBVIOUS
  <1>2. Gap # {}
    <2>1. PICK k \in T : TRUE
      OBVIOUS
    <2>2. n - k \in 0..n /\ n - (n - k) = k
      OBVIOUS
    <2>. QED
      BY <2>1, <2>2
  <1>3. PICK x \in Gap : \A y \in Gap : ~(<<y, x>> \in OpToRel(<, Nat))
    <2> HIDE DEF Gap
    <2>. QED
      BY <1>1, <1>2, NatLessThanWellFounded, WFMin, Zenon
  <1>4. \A y \in Gap : ~(y < x)
    <2> HIDE DEF Gap
    <2>. QED
      BY <1>1, <1>3, Zenon DEF OpToRel
  <1>5. ASSUME NEW j \in T PROVE j <= n - x
    <2>1. n - j \in Gap
      <3>1. n - j \in 0..n /\ n - (n - j) = j
        OBVIOUS
      <3>. QED
        BY <3>1
    <2>. QED
      BY <2>1, <1>4
  <1>. QED
    BY <1>5

\* _trim_orphan_tool_use returns a prefix of the thread in which every tool_use
\* has its result, and no longer prefix has that property.
THEOREM TrimIsLongestAnswered ==
  ASSUME NEW S, NEW m \in Seq(S)
  PROVE  \E k \in 0..Len(m) :
            /\ TrimOrphans(m) = SubSeq(m, 1, k)
            /\ Unanswered(m, k) = {}
            /\ \A j \in 0..Len(m) : Unanswered(m, j) = {} => j <= k
  <1> DEFINE balanced == {k \in 0..Len(m) : Unanswered(m, k) = {}}
  <1> DEFINE last == CHOOSE k \in balanced : \A j \in balanced : j <= k
  <1>1. Unanswered(m, 0) = {}
    BY DEF Unanswered
  <1>2. balanced # {} /\ balanced \in SUBSET (0..Len(m))
    BY <1>1
  <1>3. last \in balanced /\ \A j \in balanced : j <= last
    <2> HIDE DEF balanced
    <2>. QED
      BY <1>2, GreatestExists, LenProperties
  <1>. QED
    BY <1>3 DEF TrimOrphans

\* Reading a thread yields messages of the thread.
LEMMA TrimType ==
  ASSUME NEW S, NEW m \in Seq(S)
  PROVE  TrimOrphans(m) \in Seq(S)
  <1>1. PICK k \in 0..Len(m) : TrimOrphans(m) = SubSeq(m, 1, k)
    BY TrimIsLongestAnswered
  <1>2. k \in Int /\ \A i \in 1..k : m[i] \in S
    BY LenProperties, ElementOfSeq
  <1>. QED
    BY <1>1, <1>2, SubSeqProperties

\* A slice of a list holds messages of the list, from the slice's place on.
LEMMA SliceMember ==
  ASSUME NEW S, NEW m \in Seq(S), NEW a \in Nat \ {0}, NEW b \in 0..Len(m)
  PROVE  /\ SubSeq(m, a, b) \in Seq(S)
         /\ \A i \in 1..Len(SubSeq(m, a, b)) :
               \E j \in a..b : j \in 1..Len(m) /\ SubSeq(m, a, b)[i] = m[j]
  <1> DEFINE c == SubSeq(m, a, b)
  <1>1. Len(m) \in Nat /\ \A j \in a..b : m[j] \in S
    BY LenProperties, ElementOfSeq
  <1>2. /\ c \in Seq(S)
        /\ Len(c) = IF a <= b THEN b - a + 1 ELSE 0
        /\ \A i \in 1..(b - a + 1) : c[i] = m[a + i - 1]
    BY <1>1, SubSeqProperties
  <1> HIDE DEF c
  <1>3. ASSUME NEW i \in 1..Len(c) PROVE \E j \in a..b : j \in 1..Len(m) /\ c[i] = m[j]
    <2>1. a + i - 1 \in a..b /\ a + i - 1 \in 1..Len(m) /\ i \in 1..(b - a + 1)
      BY <1>1, <1>2
    <2>2. c[i] = m[a + i - 1]
      BY <1>2, <2>1
    <2>. QED
      BY <2>1, <2>2
  <1>. QED
    BY <1>2, <1>3 DEF c

----------------------------------------------------------------------------
\* Whose messages a list holds.

LEMMA HeardMember ==
  ASSUME NEW m, NEW q
  PROVE  q \in HeardIn(m) <=> \E i \in 1..Len(m) : m[i].text = "message" /\ m[i].turn = q
  BY DEF HeardIn

LEMMA HeardAppend ==
  ASSUME NEW S, NEW m \in Seq(S), NEW r, UserText(r) \in S
  PROVE  HeardIn(Append(m, UserText(r))) = HeardIn(m) \cup {r}
  <1> DEFINE a == Append(m, UserText(r))
  <1>1. /\ Len(a) = Len(m) + 1 /\ Len(m) \in Nat
        /\ \A i \in 1..Len(m) : a[i] = m[i]
        /\ a[Len(m) + 1] = UserText(r)
    BY AppendProperties, LenProperties
  <1>2. UserText(r).text = "message" /\ UserText(r).turn = r
    BY DEF UserText
  <1> HIDE DEF a
  <1>3. ASSUME NEW q PROVE q \in HeardIn(a) <=> q \in HeardIn(m) \cup {r}
    BY <1>1, <1>2, HeardMember
  <1>. QED
    BY <1>3 DEF a

\* Adding messages of turns already heard changes nothing.
LEMMA HeardConcat ==
  ASSUME NEW S, NEW m \in Seq(S), NEW n \in Seq(S),
         \A i \in 1..Len(n) : n[i].text = "message" => n[i].turn \in HeardIn(m)
  PROVE  HeardIn(m \o n) = HeardIn(m)
  <1> DEFINE c == m \o n
  <1>1. /\ Len(c) = Len(m) + Len(n) /\ Len(m) \in Nat /\ Len(n) \in Nat
        /\ \A i \in 1..(Len(m) + Len(n)) : c[i] = IF i <= Len(m) THEN m[i] ELSE n[i - Len(m)]
    BY ConcatProperties, LenProperties
  <1>2. /\ \A q : q \in HeardIn(c) <=> \E i \in 1..Len(c) : c[i].text = "message" /\ c[i].turn = q
        /\ \A q : q \in HeardIn(m) <=> \E i \in 1..Len(m) : m[i].text = "message" /\ m[i].turn = q
    BY HeardMember
  <1> HIDE DEF c
  <1>3. ASSUME NEW q \in HeardIn(m) PROVE q \in HeardIn(c)
    BY <1>1, <1>2
  <1>4. ASSUME NEW q \in HeardIn(c) PROVE q \in HeardIn(m)
    <2>1. PICK i \in 1..(Len(m) + Len(n)) : c[i].text = "message" /\ c[i].turn = q
      BY <1>1, <1>2
    <2>2. CASE i <= Len(m)
      BY <2>1, <2>2, <1>1, <1>2
    <2>3. CASE i > Len(m)
      BY <2>1, <2>3, <1>1
    <2>. QED
      BY <2>2, <2>3, <1>1
  <1>. QED
    BY <1>3, <1>4 DEF c

\* A summary holds no user's message.
LEMMA HeardCondensed == ASSUME NEW r PROVE HeardIn(Condensed(r)) = {}
  BY DEF HeardIn, Condensed, Assistant
----------------------------------------------------------------------------
\* Calls and results.

\* Facts used at every place where a list grows or is cut.
LEMMA Grown ==
  ASSUME NEW S, NEW m \in Seq(S), NEW n \in Seq(S)
  PROVE  /\ m \o n \in Seq(S)
         /\ Len(m \o n) = Len(m) + Len(n) /\ Len(m) \in Nat /\ Len(n) \in Nat
         /\ \A i \in 1..Len(m) : (m \o n)[i] = m[i]
         /\ \A i \in 1..Len(n) : (m \o n)[Len(m) + i] = n[i]
         /\ \A i \in (Len(m) + 1)..(Len(m) + Len(n)) :
               i - Len(m) \in 1..Len(n) /\ (m \o n)[i] = n[i - Len(m)]
  BY ConcatProperties, LenProperties

LEMMA Cut ==
  ASSUME NEW S, NEW m \in Seq(S), NEW p \in Nat, NEW b \in 0..Len(m), p <= b
  PROVE  /\ SubSeq(m, p + 1, b) \in Seq(S)
         /\ Len(SubSeq(m, p + 1, b)) = b - p
         /\ \A i \in 1..(b - p) : SubSeq(m, p + 1, b)[i] = m[p + i] /\ p + i \in 1..Len(m)
  <1>1. Len(m) \in Nat /\ \A j \in 1..Len(m) : m[j] \in S
    BY LenProperties, ElementOfSeq
  <1>2. \A j \in (p + 1)..b : m[j] \in S
    BY <1>1
  <1>3. /\ SubSeq(m, p + 1, b) \in Seq(S)
        /\ Len(SubSeq(m, p + 1, b)) = IF p + 1 <= b THEN b - (p + 1) + 1 ELSE 0
        /\ \A i \in 1..(b - (p + 1) + 1) : SubSeq(m, p + 1, b)[i] = m[p + 1 + i - 1]
    BY <1>1, <1>2, SubSeqProperties
  <1>. QED
    BY <1>1, <1>3

\* Behind its first p messages, an orderly list is orderly by itself.
LEMMA OrderlyCut ==
  ASSUME NEW S, NEW m \in Seq(S), NEW p \in Nat, NEW b \in 0..Len(m), p <= b,
         OrderlyFrom(m, p)
  PROVE  OrderlyFrom(SubSeq(m, p + 1, b), 0)
  <1> DEFINE c == SubSeq(m, p + 1, b)
  <1>1. /\ Len(c) = b - p /\ Len(m) \in Nat
        /\ \A i \in 1..(b - p) : c[i] = m[p + i] /\ p + i \in 1..Len(m)
    BY Cut, LenProperties
  <1> HIDE DEF c
  <1>2. ASSUME NEW i \in 1..Len(c), c[i].results # {}
        PROVE  i > 1 /\ c[i].results \subseteq c[i - 1].uses
    <2>1. p + i > p + 1 /\ m[p + i].results \subseteq m[p + i - 1].uses
      BY <1>1, <1>2 DEF OrderlyFrom
    <2>2. i - 1 \in 1..(b - p) /\ p + (i - 1) = p + i - 1
      BY <1>1, <2>1
    <2>3. c[i] = m[p + i] /\ c[i - 1] = m[p + i - 1]
      BY <1>1, <2>2
    <2>. QED
      BY <2>1, <2>2, <2>3
  <1>3. ASSUME NEW i \in 1..Len(c), NEW j \in 1..Len(c), i # j
        PROVE  c[i].uses \cap c[j].uses = {}
    <2>1. p + i \in (p + 1)..Len(m) /\ p + j \in (p + 1)..Len(m) /\ p + i # p + j
      BY <1>1, <1>3
    <2>. QED
      BY <1>1, <2>1 DEF OrderlyFrom
  <1>. QED
    BY <1>2, <1>3 DEF OrderlyFrom, c

\* Orderly lists with different calls, one after the other, are orderly.
LEMMA OrderlyConcat ==
  ASSUME NEW S, NEW m \in Seq(S), NEW n \in Seq(S), OrderlyFrom(m, 0), OrderlyFrom(n, 0),
         \A i \in 1..Len(m), j \in 1..Len(n) : m[i].uses \cap n[j].uses = {}
  PROVE  OrderlyFrom(m \o n, 0)
  <1> DEFINE c == m \o n
  <1>1. /\ Len(c) = Len(m) + Len(n) /\ Len(m) \in Nat /\ Len(n) \in Nat
        /\ \A i \in 1..Len(m) : c[i] = m[i]
        /\ \A i \in (Len(m) + 1)..(Len(m) + Len(n)) :
               i - Len(m) \in 1..Len(n) /\ c[i] = n[i - Len(m)]
    BY Grown
  <1> HIDE DEF c
  <1>2. ASSUME NEW i \in 1..Len(c), c[i].results # {}
        PROVE  i > 1 /\ c[i].results \subseteq c[i - 1].uses
    <2>1. CASE i <= Len(m)
      <3>1. i > 1 /\ m[i].results \subseteq m[i - 1].uses
        BY <1>1, <1>2, <2>1 DEF OrderlyFrom
      <3>2. i - 1 \in 1..Len(m) /\ i \in 1..Len(m)
        BY <1>1, <2>1, <3>1
      <3>. QED
        BY <1>1, <3>1, <3>2
    <2>2. CASE i > Len(m)
      <3>1. i - Len(m) \in 1..Len(n) /\ c[i] = n[i - Len(m)]
        BY <1>1, <2>2
      <3>2. i - Len(m) > 1 /\ n[i - Len(m)].results \subseteq n[i - Len(m) - 1].uses
        BY <1>2, <3>1 DEF OrderlyFrom
      <3>3. i - 1 \in (Len(m) + 1)..(Len(m) + Len(n)) /\ (i - 1) - Len(m) = i - Len(m) - 1
        BY <1>1, <3>1, <3>2
      <3>4. c[i - 1] = n[i - Len(m) - 1]
        BY <1>1, <3>3
      <3>. QED
        BY <1>1, <3>1, <3>2, <3>4
    <2>. QED
      BY <1>1, <2>1, <2>2
  <1>3. ASSUME NEW i \in 1..Len(c), NEW j \in 1..Len(c), i # j
        PROVE  c[i].uses \cap c[j].uses = {}
    <2>1. CASE i <= Len(m) /\ j <= Len(m)
      BY <1>1, <1>3, <2>1 DEF OrderlyFrom
    <2>2. CASE i > Len(m) /\ j > Len(m)
      <3>1. /\ i - Len(m) \in 1..Len(n) /\ c[i] = n[i - Len(m)]
            /\ j - Len(m) \in 1..Len(n) /\ c[j] = n[j - Len(m)]
            /\ i - Len(m) # j - Len(m)
        BY <1>1, <1>3, <2>2
      <3>. QED
        BY <3>1 DEF OrderlyFrom
    <2>3. CASE i <= Len(m) /\ j > Len(m)
      <3>1. i \in 1..Len(m) /\ j - Len(m) \in 1..Len(n) /\ c[j] = n[j - Len(m)] /\ c[i] = m[i]
        BY <1>1, <2>3
      <3>. QED
        BY <3>1
    <2>4. CASE i > Len(m) /\ j <= Len(m)
      <3>1. j \in 1..Len(m) /\ i - Len(m) \in 1..Len(n) /\ c[i] = n[i - Len(m)] /\ c[j] = m[j]
        BY <1>1, <2>4
      <3>. QED
        BY <3>1
    <2>. QED
      BY <1>1, <2>1, <2>2, <2>3, <2>4
  <1>4. OrderlyFrom(c, 0)
    <2>1. \A i \in (0 + 1)..Len(c) : i \in 1..Len(c)
      BY <1>1
    <2>. QED
      BY <1>2, <1>3, <2>1 DEF OrderlyFrom
  <1>. QED
    BY <1>4 DEF c

\* An orderly list reads as a paired one, wherever it was cut: once every call
\* has a result, the results are those of the very next message.
THEOREM OrderlyReadsPaired ==
  ASSUME NEW S, NEW m \in Seq(S), OrderlyFrom(m, 0)
  PROVE  Paired(TrimOrphans(m))
  <1>1. PICK k \in 0..Len(m) : TrimOrphans(m) = SubSeq(m, 1, k) /\ Unanswered(m, k) = {}
    BY TrimIsLongestAnswered
  <1> DEFINE c == SubSeq(m, 0 + 1, k)
  <1>2. Len(c) = k /\ (\A i \in 1..k : c[i] = m[i] /\ i \in 1..Len(m)) /\ Len(m) \in Nat
    BY Cut, LenProperties
  <1> HIDE DEF c
  <1>3. ASSUME NEW i \in 1..k, m[i].uses # {}
        PROVE  i < k /\ m[i + 1].results = m[i].uses
    <2>1. ASSUME NEW id \in m[i].uses
          PROVE  i < k /\ id \in m[i + 1].results
      <3>1. PICK j \in (i + 1)..k : id \in m[j].results
        BY <1>1, <1>3 DEF Unanswered
      <3>2. j > 1 /\ id \in m[j - 1].uses /\ j - 1 \in 1..Len(m)
        BY <1>2, <3>1 DEF OrderlyFrom
      <3>3. j - 1 = i
        BY <1>2, <2>1, <3>2 DEF OrderlyFrom
      <3>. QED
        BY <3>1, <3>3
    <2>2. i < k /\ m[i + 1].results # {}
      BY <1>3, <2>1
    <2>3. i + 1 \in 1..Len(m) /\ (i + 1) - 1 = i
      BY <1>2, <2>2
    <2>4. m[i + 1].results \subseteq m[i].uses
      BY <2>2, <2>3 DEF OrderlyFrom
    <2>. QED
      BY <2>1, <2>2, <2>4
  <1>4. ASSUME NEW i \in 1..k, m[i].results # {}
        PROVE  i > 1 /\ m[i - 1].uses = m[i].results
    <2>1. i > 1 /\ m[i].results \subseteq m[i - 1].uses
      BY <1>2, <1>4 DEF OrderlyFrom
    <2>2. i - 1 \in 1..k /\ m[i - 1].uses # {} /\ (i - 1) + 1 = i
      BY <1>4, <2>1
    <2>. QED
      BY <1>3, <2>1, <2>2
  <1>5. ASSUME NEW i \in 1..k
        PROVE  /\ c[i].uses # {} => i < k /\ c[i + 1].results = c[i].uses
               /\ c[i].results # {} => i > 1 /\ c[i - 1].uses = c[i].results
    <2>1. c[i] = m[i] /\ (i < k => c[i + 1] = m[i + 1]) /\ (i > 1 => c[i - 1] = m[i - 1])
      BY <1>2
    <2>. QED
      BY <1>3, <1>4, <2>1
  <1>6. PairedTo(c, k)
    BY <1>5 DEF PairedTo
  <1>. QED
    BY <1>1, <1>2, <1>6 DEF Paired, c

\* A list none of whose calls waits for a result is read in full.
LEMMA AnsweredReadsFull ==
  ASSUME NEW S, NEW m \in Seq(S), AnsweredBut(m, {})
  PROVE  TrimOrphans(m) = m
  <1>1. Unanswered(m, Len(m)) = {}
    BY DEF AnsweredBut, Unanswered
  <1>2. PICK k \in 0..Len(m) : TrimOrphans(m) = SubSeq(m, 1, k)
                               /\ \A j \in 0..Len(m) : Unanswered(m, j) = {} => j <= k
    BY TrimIsLongestAnswered
  <1>3. k = Len(m) /\ Len(m) \in Nat
    BY <1>1, <1>2, LenProperties
  <1> DEFINE c == SubSeq(m, 0 + 1, Len(m))
  <1>4. c \in Seq(S) /\ Len(c) = Len(m) /\ \A i \in 1..Len(m) : c[i] = m[i]
    BY <1>3, Cut
  <1>5. c = m
    BY <1>4, SeqEqual
  <1>. QED
    BY <1>2, <1>3, <1>5

\* A slice up to the end, or two such lists in a row, have every call answered too.
LEMMA AnsweredCut ==
  ASSUME NEW S, NEW m \in Seq(S), NEW p \in Nat, p <= Len(m), AnsweredBut(m, {}), OneKind(m)
  PROVE  AnsweredBut(SubSeq(m, p + 1, Len(m)), {}) /\ OneKind(SubSeq(m, p + 1, Len(m)))
  <1> DEFINE c == SubSeq(m, p + 1, Len(m))
  <1>1. /\ Len(c) = Len(m) - p /\ Len(m) \in Nat
        /\ \A i \in 1..(Len(m) - p) : c[i] = m[p + i] /\ p + i \in 1..Len(m)
    BY Cut, LenProperties
  <1> HIDE DEF c
  <1>2. OneKind(c)
    BY <1>1 DEF OneKind
  <1>3. ASSUME NEW i \in 1..Len(c), NEW id \in c[i].uses
        PROVE  \E j \in (i + 1)..Len(c) : id \in c[j].results
    <2>1. PICK j \in (p + i + 1)..Len(m) : id \in m[j].results
      BY <1>1, <1>3 DEF AnsweredBut
    <2>2. j - p \in (i + 1)..Len(c) /\ j - p \in 1..(Len(m) - p) /\ p + (j - p) = j
      BY <1>1, <2>1
    <2>3. c[j - p] = m[j]
      BY <1>1, <2>2
    <2>. QED
      BY <2>1, <2>2, <2>3
  <1>. QED
    BY <1>2, <1>3 DEF AnsweredBut, c

LEMMA AnsweredConcat ==
  ASSUME NEW S, NEW m \in Seq(S), NEW n \in Seq(S),
         AnsweredBut(m, {}), OneKind(m), AnsweredBut(n, {}), OneKind(n)
  PROVE  AnsweredBut(m \o n, {}) /\ OneKind(m \o n)
  <1> DEFINE c == m \o n
  <1>1. /\ Len(c) = Len(m) + Len(n) /\ Len(m) \in Nat /\ Len(n) \in Nat
        /\ \A i \in 1..Len(m) : c[i] = m[i]
        /\ \A i \in 1..Len(n) : c[Len(m) + i] = n[i]
        /\ \A i \in (Len(m) + 1)..(Len(m) + Len(n)) :
               i - Len(m) \in 1..Len(n) /\ c[i] = n[i - Len(m)]
    BY Grown
  <1> HIDE DEF c
  <1>2. OneKind(c)
    <2> SUFFICES ASSUME NEW i \in 1..Len(c) PROVE c[i].uses = {} \/ c[i].results = {}
      BY DEF OneKind
    <2>1. CASE i <= Len(m)
      BY <1>1, <2>1 DEF OneKind
    <2>2. CASE i > Len(m)
      <3>1. i - Len(m) \in 1..Len(n) /\ c[i] = n[i - Len(m)]
        BY <1>1, <2>2
      <3>. QED
        BY <3>1 DEF OneKind
    <2>. QED
      BY <1>1, <2>1, <2>2
  <1>3. ASSUME NEW i \in 1..Len(c), NEW id \in c[i].uses
        PROVE  \E j \in (i + 1)..Len(c) : id \in c[j].results
    <2>1. CASE i <= Len(m)
      <3>1. PICK j \in (i + 1)..Len(m) : id \in m[j].results
        BY <1>1, <1>3, <2>1 DEF AnsweredBut
      <3>2. j \in (i + 1)..Len(c) /\ c[j] = m[j]
        BY <1>1, <3>1
      <3>. QED
        BY <3>1, <3>2
    <2>2. CASE i > Len(m)
      <3>1. i - Len(m) \in 1..Len(n) /\ c[i] = n[i - Len(m)]
        BY <1>1, <2>2
      <3>2. PICK j \in (i - Len(m) + 1)..Len(n) : id \in n[j].results
        BY <1>3, <3>1 DEF AnsweredBut
      <3>3. j \in 1..Len(n) /\ Len(m) + j \in (i + 1)..Len(c)
        BY <1>1, <3>1, <3>2
      <3>. QED
        BY <1>1, <3>2, <3>3
    <2>. QED
      BY <1>1, <2>1, <2>2
  <1>. QED
    BY <1>2, <1>3 DEF AnsweredBut, c
=============================================================================
