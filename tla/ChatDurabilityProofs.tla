------------------------ MODULE ChatDurabilityProofs ------------------------
(***************************************************************************)
(* Theorems about ChatDurability, of every history it has.                 *)
(*                                                                         *)
(*   TypeCorrect       types, and what a process that is down leaves empty *)
(*   SavesAreAtomic    a session file is whole unless two saves of that    *)
(*                     session ran at once                                 *)
(*   SavesAreOrdered   under the same condition it has its messages once,  *)
(*                     in the order they were made                         *)
(*                                                                         *)
(* The inductive invariant has three parts.  TypeInv says more than types: *)
(* walSeq never exceeds the messages created, and a process that is down   *)
(* has nothing in memory (DownIsIdle).  SaveInv is the protocol of a save  *)
(* over the temporary name it shares with others: saves of a session that  *)
(* has not clashed have it to themselves (SavesApart), the file they write *)
(* is what they hold (SavesHold), and the session file is whole (Whole).   *)
(* OrderInv follows the order of messages from the transcript and the      *)
(* running batch (MemInv) over the log and its buffer (LogInv) into the    *)
(* session files (FilesInv).  Steps are sorted by what they do to the      *)
(* saves and the files (SaveChange) and by how they move messages (Steps,  *)
(* Moves), and each class keeps each part.                                 *)
(***************************************************************************)
EXTENDS ChatDurability, SequenceLemmas, TLAPS

(***************************************************************************)
(* The elements of sequences.                                              *)
(***************************************************************************)
LEMMA ToSetIs ==
    ASSUME NEW S, NEW s \in Seq(S)
    PROVE  /\ ToSet(s) \subseteq S
           /\ \A i \in 1..Len(s) : s[i] \in ToSet(s)
           /\ \A x \in ToSet(s) : \E i \in 1..Len(s) : x = s[i]
<1>1. DOMAIN s = 1..Len(s)
    BY LenProperties
<1> QED
    BY <1>1 DEF ToSet

LEMMA ToSetShort ==
    /\ ToSet(<<>>) = {}
    /\ \A x : ToSet(<<x>>) = {x}
    /\ \A x, y : ToSet(<<x, y>>) = {x, y}
    BY DEF ToSet

LEMMA ToSetConcat ==
    ASSUME NEW S, NEW a \in Seq(S), NEW b \in Seq(S)
    PROVE  a \o b \in Seq(S) /\ ToSet(a \o b) = ToSet(a) \cup ToSet(b)
<1> DEFINE c == a \o b
<1>1. c \in Seq(S) /\ Joins(c, a, b)
    BY ConcatJoins
<1>2. Len(a) \in Nat /\ Len(b) \in Nat
    OBVIOUS
<1> HIDE DEF c
<1>3. ASSUME NEW x \in ToSet(c) PROVE x \in ToSet(a) \cup ToSet(b)
  <2>1. PICK k \in 1..Len(c) : x = c[k]
      BY <1>1, <1>3, ToSetIs
  <2>2. CASE k \in 1..Len(a)
    <3>1. c[k] = a[k] /\ a[k] \in ToSet(a)
        BY <1>1, <2>2, ToSetIs DEF Joins
    <3> QED
        BY <2>1, <3>1
  <2>3. ASSUME NEW m \in 1..Len(b), k = Len(a) + m PROVE x \in ToSet(b)
    <3>1. c[k] = b[m] /\ b[m] \in ToSet(b)
        BY <1>1, <2>3, ToSetIs DEF Joins
    <3> QED
        BY <2>1, <3>1
  <2> QED
      BY <1>1, <2>2, <2>3 DEF Joins
<1>4. ASSUME NEW x \in ToSet(a) PROVE x \in ToSet(c)
  <2>1. PICK k \in 1..Len(a) : x = a[k]
      BY <1>4, ToSetIs
  <2>2. k \in 1..Len(c) /\ c[k] = x
      BY <1>1, <1>2, <2>1 DEF Joins
  <2> QED
      BY <1>1, <2>2, ToSetIs
<1>5. ASSUME NEW x \in ToSet(b) PROVE x \in ToSet(c)
  <2>1. PICK k \in 1..Len(b) : x = b[k]
      BY <1>5, ToSetIs
  <2>2. Len(a) + k \in 1..Len(c) /\ c[Len(a) + k] = x
      BY <1>1, <1>2, <2>1 DEF Joins
  <2> QED
      BY <1>1, <2>2, ToSetIs
<1> QED
    BY <1>1, <1>3, <1>4, <1>5 DEF c

LEMMA ToSetAppend ==
    ASSUME NEW S, NEW s \in Seq(S), NEW x \in S
    PROVE  Append(s, x) \in Seq(S) /\ ToSet(Append(s, x)) = ToSet(s) \cup {x}
<1>1. Append(s, x) = s \o <<x>> /\ <<x>> \in Seq(S)
    BY AppendIsConcat
<1>2. s \o <<x>> \in Seq(S) /\ ToSet(s \o <<x>>) = ToSet(s) \cup ToSet(<<x>>)
    BY <1>1, ToSetConcat
<1>3. ToSet(<<x>>) = {x}
    BY ToSetShort
<1> QED
    BY <1>1, <1>2, <1>3

LEMMA ToSetTail ==
    ASSUME NEW S, NEW s \in Seq(S), s # <<>>
    PROVE  /\ Head(s) \in S /\ Tail(s) \in Seq(S) /\ Len(Tail(s)) = Len(s) - 1
           /\ ToSet(s) = {Head(s)} \cup ToSet(Tail(s))
<1>1. /\ Head(s) \in S /\ Tail(s) \in Seq(S) /\ Len(Tail(s)) = Len(s) - 1
      /\ \A i \in 1..Len(Tail(s)) : Tail(s)[i] = s[i + 1]
      /\ Head(s) = s[1] /\ Len(s) \in Nat /\ Len(s) > 0
    BY HeadTailProperties
<1> DEFINE t == Tail(s)
<1>2. ASSUME NEW x \in ToSet(s), x # s[1] PROVE x \in ToSet(t)
  <2>1. PICK i \in 1..Len(s) : x = s[i]
      BY <1>2, ToSetIs
  <2>2. i - 1 \in 1..Len(t) /\ (i - 1) + 1 = i
      BY <1>1, <1>2, <2>1
  <2>3. t[i - 1] = x
      BY <1>1, <2>1, <2>2
  <2> QED
      BY <1>1, <2>2, <2>3, ToSetIs
<1>3. ASSUME NEW x \in ToSet(t) PROVE x \in ToSet(s)
  <2>1. PICK i \in 1..Len(t) : x = t[i]
      BY <1>1, <1>3, ToSetIs
  <2>2. i + 1 \in 1..Len(s) /\ s[i + 1] = x
      BY <1>1, <2>1
  <2> QED
      BY <2>2, ToSetIs
<1>4. s[1] \in ToSet(s)
    BY <1>1, ToSetIs
<1> QED
    BY <1>1, <1>2, <1>3, <1>4

(***************************************************************************)
(* Sequences of messages in the order of their creation.                   *)
(***************************************************************************)
Increasing(s) == \A i, j \in 1..Len(s) : i < j => s[i] < s[j]
Below(A, B) == \A a \in A, b \in B : a < b

LEMMA IncreasingConcat ==
    ASSUME NEW a \in Seq(Nat), NEW b \in Seq(Nat),
           Increasing(a), Increasing(b), Below(ToSet(a), ToSet(b))
    PROVE  Increasing(a \o b)
<1> DEFINE c == a \o b
<1>1. c \in Seq(Nat) /\ Joins(c, a, b)
    BY ConcatJoins
<1> HIDE DEF c
<1>2. ASSUME NEW i \in 1..Len(c), NEW j \in 1..Len(c), i < j PROVE c[i] < c[j]
  <2>1. Len(a) \in Nat /\ Len(b) \in Nat /\ Len(c) = Len(a) + Len(b)
      BY <1>1 DEF Joins
  <2>2. CASE j \in 1..Len(a)
    <3>1. i \in 1..Len(a)
        BY <1>2, <2>1, <2>2
    <3> QED
        BY <1>1, <1>2, <2>2, <3>1 DEF Joins, Increasing
  <2>3. ASSUME i \in 1..Len(a), NEW m \in 1..Len(b), j = Len(a) + m PROVE c[i] < c[j]
    <3>1. c[i] = a[i] /\ c[j] = b[m]
        BY <1>1, <2>3 DEF Joins
    <3>2. a[i] \in ToSet(a) /\ b[m] \in ToSet(b)
        BY <2>3, ToSetIs
    <3> QED
        BY <3>1, <3>2 DEF Below
  <2>4. ASSUME NEW m \in 1..Len(b), NEW n \in 1..Len(b), i = Len(a) + m, j = Len(a) + n
        PROVE  c[i] < c[j]
    <3>1. m < n /\ c[i] = b[m] /\ c[j] = b[n]
        BY <1>1, <1>2, <2>1, <2>4 DEF Joins
    <3> QED
        BY <3>1 DEF Increasing
  <2> QED
      BY <1>1, <2>2, <2>3, <2>4 DEF Joins
<1> QED
    BY <1>2 DEF c, Increasing

LEMMA IncreasingShort ==
    /\ Increasing(<<>>)
    /\ \A x : Increasing(<<x>>)
    /\ \A x \in Nat : Increasing(<<x, x + 1>>)
    BY DEF Increasing

LEMMA IncreasingAppend ==
    ASSUME NEW s \in Seq(Nat), NEW x \in Nat, Increasing(s), Below(ToSet(s), {x})
    PROVE  Increasing(Append(s, x))
<1>1. Append(s, x) = s \o <<x>> /\ <<x>> \in Seq(Nat)
    BY AppendIsConcat
<1>2. Increasing(<<x>>) /\ ToSet(<<x>>) = {x}
    BY IncreasingShort, ToSetShort
<1> QED
    BY <1>1, <1>2, IncreasingConcat

LEMMA IncreasingTail ==
    ASSUME NEW s \in Seq(Nat), s # <<>>, Increasing(s)
    PROVE  Increasing(Tail(s)) /\ Below({Head(s)}, ToSet(Tail(s)))
<1>1. /\ Tail(s) \in Seq(Nat) /\ Len(Tail(s)) = Len(s) - 1
      /\ \A i \in 1..Len(Tail(s)) : Tail(s)[i] = s[i + 1]
      /\ Head(s) = s[1] /\ Len(s) \in Nat /\ Len(s) > 0
    BY HeadTailProperties
<1> DEFINE t == Tail(s)
<1>2. \A i \in 1..Len(t) : i + 1 \in 1..Len(s) /\ 1 < i + 1 /\ t[i] = s[i + 1]
    BY <1>1
<1>3. 1 \in 1..Len(s)
    BY <1>1
<1> HIDE DEF t
<1>4. Increasing(t)
    BY <1>2 DEF Increasing
<1>5. ASSUME NEW x \in ToSet(t) PROVE s[1] < x
  <2>1. PICK i \in 1..Len(t) : x = t[i]
      BY <1>1, ToSetIs DEF t
  <2> QED
      BY <1>2, <1>3, <2>1 DEF Increasing
<1> QED
    BY <1>1, <1>4, <1>5 DEF t, Below

(***************************************************************************)
(* The lines of a log, meta lines among them, and what a reader makes of   *)
(* them.                                                                   *)
(***************************************************************************)
Files == {Absent} \cup Seq(0..MaxMsgs)
RisingLog(f) == \A i, j \in 1..Len(f) : i < j /\ f[i] # Meta /\ f[j] # Meta => f[i] < f[j]

LEMMA Bounds == MaxMsgs \in Nat /\ MaxQueue \in Nat
    BY BoundsAreNaturals

LEMMA MessagesAreNumbers ==
    /\ Meta = 0 /\ Meta \in 0..MaxMsgs /\ Meta \notin 1..MaxMsgs
    /\ 1..MaxMsgs \subseteq 0..MaxMsgs /\ 0..MaxMsgs \subseteq Nat /\ 1..MaxMsgs \subseteq Nat
    BY Bounds DEF Meta

LEMMA AbsentIsNoFile == Absent \notin Seq(0..MaxMsgs)
<1>1. Seq(0..MaxMsgs) \subseteq Seq(Nat)
    BY MessagesAreNumbers, SeqMonotonic
<1> QED
    BY <1>1, IdsDistinct

LEMMA MessageSeqs ==
    ASSUME NEW s \in Seq(1..MaxMsgs)
    PROVE  s \in Seq(0..MaxMsgs) /\ s \in Seq(Nat) /\ ToSet(s) \subseteq 1..MaxMsgs
    BY MessagesAreNumbers, SeqMonotonic, ToSetIs

LEMMA LinesOfFile ==
    ASSUME NEW f \in Files
    PROVE  /\ Lines(f) \in Seq(0..MaxMsgs) /\ Lines(f) \in Seq(Nat) /\ Lines(f) \in Files
           /\ Recorded(f) \subseteq 1..MaxMsgs
           /\ f # Absent => Lines(f) = f
<1>1. Lines(f) \in Seq(0..MaxMsgs)
    BY EmptySeq DEF Lines, Files
<1>2. ToSet(Lines(f)) \subseteq 0..MaxMsgs
    BY <1>1, ToSetIs
<1>3. Recorded(f) \subseteq 1..MaxMsgs
    BY <1>2, MessagesAreNumbers DEF Recorded
<1>4. Lines(f) \in Seq(Nat)
    BY <1>1, MessagesAreNumbers, SeqMonotonic
<1> QED
    BY <1>1, <1>3, <1>4 DEF Lines, Files

LEMMA FileIsLines ==
    ASSUME NEW f \in Seq(0..MaxMsgs)
    PROVE  f \in Files /\ f # Absent /\ Lines(f) = f /\ Recorded(f) = ToSet(f) \ {Meta}
    BY AbsentIsNoFile DEF Files, Lines, Recorded

LEMMA EmptyFiles ==
    /\ Absent \in Files /\ <<>> \in Files /\ <<>> # Absent
    /\ Lines(Absent) = <<>> /\ Lines(<<>>) = <<>>
    /\ Recorded(Absent) = {} /\ Recorded(<<>>) = {}
<1>1. <<>> \in Seq(0..MaxMsgs)
    BY EmptySeq
<1> QED
    BY <1>1, FileIsLines, ToSetShort DEF Files, Lines, Recorded

LEMMA SavedLines ==
    ASSUME NEW s \in Seq(1..MaxMsgs)
    PROVE  LET f == <<Meta>> \o s
           IN  /\ f \in Seq(0..MaxMsgs) /\ f \in Files /\ f # Absent /\ Lines(f) = f
               /\ f # <<>> /\ Head(f) = Meta /\ Recorded(f) = ToSet(s)
               /\ Len(f) = Len(s) + 1
               /\ Increasing(s) => Increasing(f)
<1> DEFINE f == <<Meta>> \o s
<1>1. <<Meta>> \in Seq(0..MaxMsgs) /\ s \in Seq(0..MaxMsgs) /\ ToSet(<<Meta>>) = {Meta}
      /\ <<Meta>> \in Seq(Nat) /\ s \in Seq(Nat) /\ ToSet(s) \subseteq 1..MaxMsgs
    BY MessagesAreNumbers, MessageSeqs, ToSetShort
<1>2. f \in Seq(0..MaxMsgs) /\ ToSet(f) = {Meta} \cup ToSet(s)
  <2> DEFINE head == <<Meta>>
  <2>1. head \in Seq(0..MaxMsgs) /\ ToSet(head) = {Meta} /\ s \in Seq(0..MaxMsgs)
      BY <1>1
  <2> HIDE DEF head
  <2>2. head \o s \in Seq(0..MaxMsgs) /\ ToSet(head \o s) = {Meta} \cup ToSet(s)
      BY <2>1, ToSetConcat
  <2> QED
      BY <2>2 DEF head
<1>3. Len(f) = 1 + Len(s) /\ f[1] = Meta
    BY <1>1
<1>4. Increasing(s) => Increasing(f)
  <2>1. Below({Meta}, ToSet(s))
      BY <1>1, MessagesAreNumbers DEF Below
  <2>2. Increasing(<<Meta>>)
      BY IncreasingShort
  <2> QED
      BY <1>1, <2>1, <2>2, IncreasingConcat
<1> HIDE DEF f
<1>5. f \in Files /\ f # Absent /\ Lines(f) = f /\ Recorded(f) = ToSet(f) \ {Meta}
    BY <1>2, FileIsLines
<1>6. Recorded(f) = ToSet(s)
    BY <1>1, <1>2, <1>5, MessagesAreNumbers
<1>7. f # <<>> /\ Head(f) = Meta
    BY <1>1, <1>2, <1>3
<1>8. Len(f) = Len(s) + 1
    BY <1>1, <1>3
<1> QED
    BY <1>2, <1>4, <1>5, <1>6, <1>7, <1>8 DEF f

LEMMA RisingJoins ==
    ASSUME NEW f \in Seq(Nat), NEW b \in Seq(Nat), RisingLog(f), Increasing(b),
           Below(ToSet(f) \ {Meta}, ToSet(b))
    PROVE  RisingLog(f \o b)
<1> DEFINE c == f \o b
<1>1. c \in Seq(Nat) /\ Joins(c, f, b)
    BY ConcatJoins
<1> HIDE DEF c
<1>2. ASSUME NEW i \in 1..Len(c), NEW j \in 1..Len(c), i < j, c[i] # Meta, c[j] # Meta
      PROVE  c[i] < c[j]
  <2>1. Len(f) \in Nat /\ Len(b) \in Nat /\ Len(c) = Len(f) + Len(b)
      BY <1>1 DEF Joins
  <2>2. CASE j \in 1..Len(f)
    <3>1. i \in 1..Len(f) /\ c[i] = f[i] /\ c[j] = f[j]
        BY <1>1, <1>2, <2>1, <2>2, SMTT(30) DEF Joins
    <3> QED
        BY <1>2, <2>2, <3>1 DEF RisingLog
  <2>3. ASSUME i \in 1..Len(f), NEW m \in 1..Len(b), j = Len(f) + m PROVE c[i] < c[j]
    <3>1. c[i] = f[i] /\ c[j] = b[m]
        BY <1>1, <2>3 DEF Joins
    <3>2. f[i] \in ToSet(f) /\ b[m] \in ToSet(b)
        BY <2>3, ToSetIs
    <3> QED
        BY <1>2, <3>1, <3>2 DEF Below
  <2>4. ASSUME NEW m \in 1..Len(b), NEW n \in 1..Len(b), i = Len(f) + m, j = Len(f) + n
        PROVE  c[i] < c[j]
    <3>1. m < n /\ c[i] = b[m] /\ c[j] = b[n]
        BY <1>1, <1>2, <2>1, <2>4 DEF Joins
    <3> QED
        BY <3>1 DEF Increasing
  <2> QED
      BY <1>1, <2>2, <2>3, <2>4 DEF Joins
<1> QED
    BY <1>2 DEF c, RisingLog

LEMMA RisingMeta ==
    ASSUME NEW f \in Seq(Nat), RisingLog(f)
    PROVE  RisingLog(Append(f, Meta))
<1> DEFINE c == Append(f, Meta)
<1>1. Len(f) \in Nat /\ Len(c) = Len(f) + 1 /\ c[Len(f) + 1] = Meta
      /\ \A i \in 1..Len(f) : c[i] = f[i]
    BY DEF Meta
<1> HIDE DEF c
<1>2. ASSUME NEW i \in 1..Len(c), c[i] # Meta PROVE i \in 1..Len(f)
    BY <1>1, <1>2
<1> QED
    BY <1>1, <1>2 DEF c, RisingLog

(***************************************************************************)
(* Parsed gives messages of the file in their order.                       *)
(***************************************************************************)
PartParsed(f, i, r) ==
    /\ r \in Seq(1..MaxMsgs)
    /\ \A x \in ToSet(r) : x # Meta /\ \E k \in 1..i : x = f[k]
    /\ RisingLog(f) => Increasing(r)

LEMMA PartParsedGrows ==
    ASSUME NEW f \in Seq(0..MaxMsgs), NEW i \in 1..Len(f), NEW r, PartParsed(f, i - 1, r), NEW p,
           p = <<>> \/ (f[i] # Meta /\ p = <<f[i]>>)
    PROVE  PartParsed(f, i, r \o p)
<1>1. /\ Len(f) \in Nat /\ f[i] \in 0..MaxMsgs
      /\ \A k \in 1..(i - 1) : k \in 1..Len(f) /\ k \in 1..i /\ k < i
  <2>1. Len(f) \in Nat
      BY LenProperties
  <2>2. f[i] \in 0..MaxMsgs
      BY ElementOfSeq
  <2>3. \A k \in 1..(i - 1) : k \in 1..Len(f) /\ k \in 1..i /\ k < i
      BY <2>1
  <2> QED
      BY <2>1, <2>2, <2>3
<1>2. r \in Seq(1..MaxMsgs) /\ r \in Seq(Nat)
    BY MessageSeqs DEF PartParsed
<1>3. CASE p = <<>>
  <2>1. r \o p = r
      BY <1>2, <1>3, ConcatEmptySeq
  <2> QED
      BY <1>1, <2>1 DEF PartParsed
<1>4. CASE f[i] # Meta /\ p = <<f[i]>>
  <2>1. f[i] \in 1..MaxMsgs
      BY <1>1, <1>4, Bounds DEF Meta
  <2>2. p \in Seq(1..MaxMsgs) /\ p \in Seq(Nat) /\ ToSet(p) = {f[i]} /\ Increasing(p)
      BY <1>4, <2>1, MessageSeqs, ToSetShort, IncreasingShort
  <2>3. r \o p \in Seq(1..MaxMsgs) /\ ToSet(r \o p) = ToSet(r) \cup {f[i]}
      BY <1>2, <2>2, ToSetConcat
  <2>4. \A x \in ToSet(r \o p) : x # Meta /\ \E k \in 1..i : x = f[k]
    <3>1. i \in 1..i
        BY <1>1
    <3> QED
        BY <1>1, <1>4, <2>3, <3>1 DEF PartParsed
  <2>5. ASSUME RisingLog(f) PROVE Increasing(r \o p)
    <3>1. Below(ToSet(r), ToSet(p))
        BY <1>1, <1>4, <2>2, <2>5 DEF Below, PartParsed, RisingLog
    <3> QED
        BY <1>2, <2>2, <2>5, <3>1, IncreasingConcat DEF PartParsed
  <2> QED
      BY <2>3, <2>4, <2>5 DEF PartParsed
<1> QED
    BY <1>3, <1>4

LEMMA ParsedKeeps ==
    ASSUME NEW f \in Files
    PROVE  /\ Parsed(f) \in Seq(1..MaxMsgs)
           /\ ToSet(Parsed(f)) \subseteq Recorded(f)
           /\ RisingLog(Lines(f)) => Increasing(Parsed(f))
<1> DEFINE n == Len(Lines(f))
           last(i) == IF i = 1 \/ f[i] = Meta THEN <<>> ELSE <<f[i]>>
           piece == [i \in 1..n |-> last(i)]
           Value(g, i) == IF i = 0 THEN <<>> ELSE g[i - 1] \o last(i)
           kept == CHOOSE g : g = [i \in 0..n |-> Value(g, i)]
<1>1. n \in Nat /\ Lines(f) \in Seq(0..MaxMsgs)
    BY LinesOfFile
<1>2. PICK g : IsBackward(g, n, piece)
  <2> HIDE DEF n, piece
  <2> QED
      BY <1>1, RecursionBackward
<1>3. ASSUME NEW i \in 0..n PROVE g[i] = Value(g, i)
  <2>1. CASE i = 0
      BY <1>2, <2>1 DEF IsBackward
  <2>2. CASE i \in 1..n
    <3>1. g[i] = g[i - 1] \o piece[i] /\ piece[i] = last(i)
        BY <1>2, <2>2 DEF IsBackward
    <3> HIDE DEF piece, last
    <3> QED
        BY <2>2, <3>1
  <2> QED
      BY <1>1, <2>1, <2>2
<1>4. g = [i \in 0..n |-> Value(g, i)]
    BY <1>2, <1>3 DEF IsBackward
<1>5. kept = [i \in 0..n |-> Value(kept, i)]
  <2>1. \E h : h = [i \in 0..n |-> Value(h, i)]
      BY <1>4
  <2> QED
      BY <2>1
<1>6. Parsed(f) = kept[n]
    BY DEF Parsed
<1>7. \A i \in 0..n : kept[i] = Value(kept, i)
    BY <1>5
<1> DEFINE T == {i \in 0..n : PartParsed(Lines(f), i, kept[i])}
<1> HIDE DEF kept
<1>8. 0 \in T
  <2>1. 0 \in 0..n
      BY <1>1
  <2>2. kept[0] = <<>>
      BY <1>7, <2>1
  <2> QED
      BY <2>1, <2>2, EmptySeq, ToSetShort, IncreasingShort DEF PartParsed
<1>9. ASSUME NEW i \in 1..n, i - 1 \in T PROVE i \in T
  <2>1. i \in 0..n /\ i # 0
      BY <1>1
  <2>2. kept[i] = kept[i - 1] \o last(i)
      BY <1>7, <2>1
  <2>3. Lines(f) = f
    <3>1. f # Absent
        BY <1>1 DEF Lines
    <3> QED
        BY <3>1, LinesOfFile
  <2>4. last(i) = <<>> \/ (Lines(f)[i] # Meta /\ last(i) = <<Lines(f)[i]>>)
      BY <2>3
  <2>5. PartParsed(Lines(f), i - 1, kept[i - 1])
      BY <1>9
  <2> HIDE DEF last
  <2>6. PartParsed(Lines(f), i, kept[i])
      BY <1>1, <2>2, <2>4, <2>5, PartParsedGrows
  <2> QED
      BY <2>1, <2>6
<1>10. n \in T
  <2> HIDE DEF T
  <2>1. \A i \in 0..n : i \in T
      BY <1>1, <1>8, <1>9, InductionUp
  <2> QED
      BY <1>1, <2>1
<1>11. PartParsed(Lines(f), n, Parsed(f))
    BY <1>6, <1>10
<1>12. ASSUME NEW x \in ToSet(Parsed(f)) PROVE x \in Recorded(f)
  <2>1. PICK k \in 1..n : x = Lines(f)[k] /\ x # Meta
      BY <1>11 DEF PartParsed
  <2> QED
      BY <1>1, <2>1, ToSetIs DEF Recorded
<1> QED
    BY <1>11, <1>12 DEF PartParsed

-----------------------------------------------------------------------------
(***************************************************************************)
(* Types.  What TypeOK says of the variables, with what it rests on: a     *)
(* message is appended to the log at most once, so its count stays within  *)
(* that of the messages; a process that is down holds nothing; and a save  *)
(* has its file under the name it believes in.                             *)
(***************************************************************************)
SaveRecord == [stage : {"none", "ready", "opened", "written", "ok", "err"},
               sess : Sessions \cup {NoSession}, msgs : Seq(1..MaxMsgs), seq : 0..MaxMsgs,
               at : {"tmp", "jsonl", "gone"}]
ResultRecord == [sess : Sessions, seq : 0..MaxMsgs, ok : BOOLEAN]

HandleTyped ==
    /\ wal \in [Sessions -> Files]
    /\ walFor \in Sessions \cup {NoSession}
    /\ walAt \in {"linked", "orphan", "closed"} /\ batched \in BOOLEAN
    /\ buf \in Seq(1..MaxMsgs)
    /\ walFor = NoSession => walAt = "linked" /\ ~batched
    /\ ~batched => buf = <<>>

CountsTyped ==
    /\ created \in Seq(Sessions) /\ Len(created) <= MaxMsgs
    /\ unlogged \in Seq(1..MaxMsgs)
    /\ walSeq \in Nat /\ walSeq + Len(unlogged) <= Len(created)
    /\ logged \subseteq 1..MaxMsgs

ChatTyped ==
    /\ up \in BOOLEAN /\ waiting \in BOOLEAN /\ sid \in Sessions \cup {NoSession}
    /\ cur \in Sessions \cup {NoSession}
    /\ msgs \in Seq(1..MaxMsgs) /\ toolMsgs \in Seq(1..MaxMsgs)
    /\ queued \in 0..MaxQueue /\ uiOp \in {"none", "new", "quit", "exit"}
    /\ toRecover \subseteq Sessions
    /\ up => cur \in Sessions
    /\ ~waiting => toolMsgs = <<>> /\ unlogged = <<>>

DownIsIdle ==
    ~up => /\ cur = NoSession /\ msgs = <<>> /\ toolMsgs = <<>> /\ unlogged = <<>>
           /\ walFor = NoSession /\ buf = <<>> /\ walSeq = 0 /\ ~waiting /\ uiOp = "none"
           /\ saves = [i \in Saves |-> NoSave] /\ results = {} /\ toRecover = {}

SavesTyped ==
    /\ jsonl \in [Sessions -> Files] /\ tmp \in [Sessions -> Files]
    /\ saves \in [Saves -> SaveRecord] /\ results \subseteq ResultRecord
    /\ \A i \in Saves : /\ saves[i].stage = "none" <=> saves[i] = NoSave
                        /\ saves[i].sess \in Sessions \/ saves[i] = NoSave
                        /\ saves[i].at = "tmp" => tmp[saves[i].sess] # Absent
                        /\ saves[i].at = "jsonl" => jsonl[saves[i].sess] # Absent

FlawsTyped == clashed \subseteq Sessions /\ misused \subseteq Sessions

TypeInv == HandleTyped /\ CountsTyped /\ ChatTyped /\ DownIsIdle /\ SavesTyped /\ FlawsTyped

LEMMA NothingTyped ==
    /\ <<>> \in Seq(1..MaxMsgs) /\ <<>> \in Seq(Sessions) /\ Len(<<>>) = 0
    /\ 0 \in 0..MaxMsgs /\ 0 \in 0..MaxQueue
    BY EmptySeq, Bounds

LEMMA NoSaveTyped ==
    /\ NoSave \in SaveRecord /\ NoSave.stage = "none" /\ NoSave.sess = NoSession
    /\ NoSave.at = "gone" /\ NoSave.msgs = <<>> /\ NoSession \notin Sessions
    BY NothingTyped, IdsDistinct DEF NoSave, SaveRecord

LEMMA TypeInit == Init => TypeInv
<1> SUFFICES ASSUME Init PROVE TypeInv
    OBVIOUS
<1>1. HandleTyped
    BY NothingTyped DEF Init, HandleTyped, Files
<1>2. CountsTyped
    BY NothingTyped, Bounds DEF Init, CountsTyped
<1>3. ChatTyped
    BY NothingTyped DEF Init, ChatTyped
<1>4. DownIsIdle
    BY DEF Init, DownIsIdle
<1>5. SavesTyped
  <2>1. saves = [i \in Saves |-> NoSave] /\ results = {}
      BY DEF Init
  <2>2. \A i \in Saves : saves[i] = NoSave
      BY <2>1
  <2>3. jsonl \in [Sessions -> Files] /\ tmp \in [Sessions -> Files]
      BY DEF Init, Files
  <2> QED
      BY <2>1, <2>2, <2>3, NoSaveTyped DEF SavesTyped
<1>6. FlawsTyped
    BY DEF Init, FlawsTyped
<1> QED
    BY <1>1, <1>2, <1>3, <1>4, <1>5, <1>6 DEF TypeInv

LEMMA TypeIsEnough == TypeInv => TypeOK
<1> SUFFICES ASSUME TypeInv PROVE TypeOK
    OBVIOUS
<1> USE DEF TypeInv
<1>1. \A s \in Sessions : IsFile(jsonl[s]) /\ IsFile(tmp[s]) /\ IsFile(wal[s])
    BY DEF HandleTyped, SavesTyped, Files, IsFile
<1>2. walSeq \in 0..MaxMsgs
    BY Bounds, LenProperties DEF CountsTyped
<1>3. \A i \in Saves :
          /\ saves[i].stage \in {"none", "ready", "opened", "written", "ok", "err"}
          /\ saves[i].at \in {"tmp", "jsonl", "gone"}
          /\ saves[i].sess \in Sessions \/ saves[i] = NoSave
    BY DEF SavesTyped, SaveRecord
<1>4. \A r \in results : r.sess \in Sessions /\ r.seq \in 0..MaxMsgs /\ r.ok \in BOOLEAN
    BY DEF SavesTyped, ResultRecord
<1>5. cur \in Sessions \cup {NoSession} /\ walFor \in Sessions \cup {NoSession}
    BY DEF ChatTyped, HandleTyped
<1>6. {msgs, toolMsgs, unlogged, buf} \subseteq Seq(1..MaxMsgs)
    BY DEF ChatTyped, CountsTyped, HandleTyped
<1>7. {up, batched, waiting} \subseteq BOOLEAN
    BY DEF ChatTyped, HandleTyped
<1> QED
    BY <1>1, <1>2, <1>3, <1>4, <1>5, <1>6, <1>7
    DEF TypeOK, ChatTyped, CountsTyped, HandleTyped, FlawsTyped

(***************************************************************************)
(* The operations on the log's handle.                                     *)
(***************************************************************************)
LEMMA FilesGrow ==
    /\ \A f \in Files, m \in 0..MaxMsgs : Append(Lines(f), m) \in Files
    /\ \A f \in Files, b \in Seq(1..MaxMsgs) : Lines(f) \o b \in Files
<1>1. ASSUME NEW f \in Files, NEW m \in 0..MaxMsgs PROVE Append(Lines(f), m) \in Files
  <2>1. Append(Lines(f), m) \in Seq(0..MaxMsgs)
      BY LinesOfFile, ToSetAppend
  <2> QED
      BY <2>1 DEF Files
<1>2. ASSUME NEW f \in Files, NEW b \in Seq(1..MaxMsgs) PROVE Lines(f) \o b \in Files
  <2>1. Lines(f) \in Seq(0..MaxMsgs) /\ b \in Seq(0..MaxMsgs)
      BY LinesOfFile, MessageSeqs
  <2>2. Lines(f) \o b \in Seq(0..MaxMsgs)
      BY <2>1, ToSetConcat
  <2> QED
      BY <2>2 DEF Files
<1> QED
    BY <1>1, <1>2

LEMMA LoggedTyped ==
    ASSUME HandleTyped, cur \in Sessions, NEW new \in 1..MaxMsgs, Logged(new)
    PROVE  HandleTyped' /\ walSeq' = walSeq + 1 /\ logged' = logged \cup {new}
<1> DEFINE s == IF walFor = NoSession THEN cur ELSE walFor
<1>1. s \in Sessions /\ walFor' = s /\ s # NoSession
    BY IdsDistinct DEF HandleTyped, Logged
<1>2. walAt' \in {"linked", "orphan", "closed"} /\ batched' = batched
    BY DEF HandleTyped, Logged
<1>3. CASE batched
  <2>1. buf' = Append(buf, new) /\ wal' = wal
      BY <1>3 DEF Logged
  <2>2. buf' \in Seq(1..MaxMsgs)
      BY <2>1, ToSetAppend DEF HandleTyped
  <2> QED
      BY <1>1, <1>2, <1>3, <2>1, <2>2 DEF HandleTyped, Logged
<1>4. CASE ~batched
  <2>1. buf' = buf /\ (wal' = wal \/ wal' = [wal EXCEPT ![s] = Append(Lines(wal[s]), new)])
      BY <1>4 DEF Logged
  <2>2. wal[s] \in Files
      BY <1>1 DEF HandleTyped
  <2>3. Append(Lines(wal[s]), new) \in Files
      BY <2>2, FilesGrow, MessagesAreNumbers
  <2>4. wal' \in [Sessions -> Files]
      BY <2>1, <2>3 DEF HandleTyped
  <2> QED
      BY <1>1, <1>2, <1>4, <2>1, <2>4 DEF HandleTyped, Logged
<1> QED
    BY <1>3, <1>4 DEF HandleTyped

LEMMA FlushedTyped ==
    ASSUME HandleTyped
    PROVE  FlushedFile \in [Sessions -> Files] /\ FlushedBuf \in Seq(1..MaxMsgs)
<1>1. CASE batched /\ walAt = "linked"
  <2>1. walFor \in Sessions /\ wal[walFor] \in Files
      BY <1>1 DEF HandleTyped
  <2>2. Lines(wal[walFor]) \o buf \in Files
      BY <2>1, FilesGrow DEF HandleTyped
  <2>3. FlushedFile = [wal EXCEPT ![walFor] = Lines(wal[walFor]) \o buf]
      BY <1>1 DEF FlushedFile
  <2> QED
      BY <2>2, <2>3, NothingTyped DEF FlushedBuf, HandleTyped
<1>2. CASE ~(batched /\ walAt = "linked")
    BY <1>2, NothingTyped DEF FlushedFile, FlushedBuf, HandleTyped
<1> QED
    BY <1>1, <1>2

LEMMA RemoveTyped ==
    ASSUME HandleTyped, walFor # NoSession, RemoveWAL
    PROVE  HandleTyped' /\ walSeq' = walSeq
<1>1. buf' \in Seq(1..MaxMsgs) /\ walSeq' = walSeq
    BY FlushedTyped DEF RemoveWAL
<1>2. CASE walAt = "linked"
  <2>1. /\ wal' = [wal EXCEPT ![walFor] = Absent] /\ walFor' = NoSession
        /\ batched' = FALSE /\ walAt' = "linked" /\ buf' = <<>>
      BY <1>2 DEF RemoveWAL, FlushedBuf
  <2> QED
      BY <1>1, <2>1, EmptyFiles DEF HandleTyped
<1>3. CASE walAt # "linked"
  <2>1. /\ walAt' = "closed" /\ UNCHANGED <<wal, walFor, batched>>
        /\ buf' = buf \/ buf' = <<>>
      BY <1>3 DEF RemoveWAL, FlushedBuf
  <2> QED
      BY <1>1, <2>1 DEF HandleTyped
<1> QED
    BY <1>2, <1>3

LEMMA UnlinkTyped ==
    ASSUME HandleTyped, NEW s \in Sessions, UnlinkWAL(s)
    PROVE  HandleTyped' /\ walSeq' = walSeq
    BY EmptyFiles, IdsDistinct DEF HandleTyped, UnlinkWAL

LEMMA OpensTyped ==
    ASSUME HandleTyped, NEW s \in Sessions, NEW left \in [Sessions -> Files], Opens(s, left)
    PROVE  HandleTyped'
<1>1. [left EXCEPT ![s] = Append(Lines(@), Meta)] \in [Sessions -> Files]
    BY FilesGrow, MessagesAreNumbers
<1> QED
    BY <1>1, IdsDistinct DEF HandleTyped, Opens

(***************************************************************************)
(* Only a running process acts.                                            *)
(***************************************************************************)
LEMMA UpOrStart ==
    ASSUME TypeInv, Next, ~up
    PROVE  Start
<1>1. /\ msgs = <<>> /\ toolMsgs = <<>> /\ unlogged = <<>> /\ buf = <<>> /\ ~waiting
      /\ uiOp = "none" /\ results = {} /\ toRecover = {}
      /\ \A i \in Saves : saves[i] = NoSave
    BY DEF TypeInv, DownIsIdle
<1>2. \A i \in Saves : saves[i].stage = "none"
    BY <1>1, NoSaveTyped
<1>3. ASSUME NEW i \in Saves PROVE ~SaveStep(i) /\ ~SavePosts(i)
    BY <1>2 DEF SaveStep, SaveOpens, SaveWrites, SaveRenames, SaveFails, SavePosts, Finished
<1>4. ~Recovery
  <2>1. Rec \in Saves
      BY DEF Saves
  <2> QED
      BY <1>1, <1>2, <2>1 DEF Recovery, RecoveryScans, RecoveryRemoves, RecoveryReads, Finished
<1>5. ~Engine /\ ~Crash /\ ~FlushWAL
    BY DEF Engine, ToolText, ToolFinishes, BatchAppended, Crash, FlushWAL
<1>6. ASSUME NEW s \in Sessions PROVE ~ResumeCommand(s) /\ \A saved \in BOOLEAN : ~RecoverCommand(s, saved)
    BY DEF ResumeCommand, RecoverCommand, Switch, UIReady
<1>7. ~Submit /\ ~ToolResult /\ ~QueuePrompt /\ ~TurnEnds /\ ~TurnEndsIntoQueued /\ ~SaveResult
    BY DEF Submit, ToolResult, QueuePrompt, TurnEnds, TurnEndsIntoQueued, SaveResult, HandleResult,
           Answered, UIReady
<1>8. ~NewBegins /\ ~NewEnds /\ ~QuitBegins /\ ~QuitSaved /\ ~ExitSaveBegins /\ ~Exit
    BY <1>1 DEF NewBegins, NewEnds, NewSession, QuitBegins, QuitSaved, ExitSaveBegins, Exit, UIReady
<1>9. BgSaves \subseteq Saves
    BY DEF Saves
<1> QED
    BY <1>3, <1>4, <1>5, <1>6, <1>7, <1>8, <1>9 DEF Next, UI

LEMMA UpOrEnds ==
    ASSUME Next
    PROVE  up' = TRUE \/ up' = up \/ ProcessEnds
<1>1. CASE UI
  <2>1. Submit \/ ToolResult \/ QueuePrompt \/ TurnEnds \/ TurnEndsIntoQueued \/ SaveResult => up' = up
      BY DEF Submit, ToolResult, QueuePrompt, TurnEnds, TurnEndsIntoQueued, SaveResult,
             HandleResult, chat
  <2>2. NewBegins \/ NewEnds \/ QuitBegins \/ QuitSaved \/ ExitSaveBegins => up' = up
      BY DEF NewBegins, NewEnds, NewSession, QuitBegins, QuitSaved, ExitSaveBegins, SaveBegins, chat
  <2>3. ASSUME NEW s \in Sessions, ResumeCommand(s) \/ \E saved \in BOOLEAN : RecoverCommand(s, saved)
        PROVE  up' = up
      BY <2>3 DEF ResumeCommand, RecoverCommand, Switch
  <2>4. Exit => ProcessEnds
      BY DEF Exit
  <2> QED
      BY <1>1, <2>1, <2>2, <2>3, <2>4 DEF UI
<1>2. CASE Engine
    BY <1>2 DEF Engine, ToolText, ToolFinishes, BatchAppended, chat
<1>3. CASE Recovery
    BY <1>3 DEF Recovery, RecoveryScans, RecoveryRemoves, RecoveryReads, chat
<1>4. CASE Start
    BY <1>4 DEF Start, StartFresh, StartContinue, StartResume, Opens
<1>5. CASE Crash \/ FlushWAL
    BY <1>5 DEF Crash, FlushWAL, chat
<1>6. CASE \E i \in Saves : SaveStep(i)
    BY <1>6 DEF SaveStep, SaveOpens, SaveWrites, SaveRenames, SaveFails, unsaving, chat
<1>7. CASE \E i \in BgSaves : SavePosts(i)
    BY <1>7 DEF SavePosts, chat
<1> QED
    BY <1>1, <1>2, <1>3, <1>4, <1>5, <1>6, <1>7 DEF Next

LEMMA DownNext ==
    ASSUME TypeInv, [Next]_vars
    PROVE  DownIsIdle'
<1>1. CASE ProcessEnds
    BY <1>1 DEF ProcessEnds, DownIsIdle
<1>2. CASE Next /\ ~up /\ ~ProcessEnds
  <2>1. Start
      BY <1>2, UpOrStart
  <2>2. up' = TRUE
      BY <2>1 DEF Start, StartFresh, StartContinue, StartResume, Opens
  <2> QED
      BY <2>2 DEF DownIsIdle
<1>3. CASE Next /\ up /\ ~ProcessEnds
    BY <1>3, UpOrEnds DEF DownIsIdle, TypeInv, ChatTyped
<1>4. CASE UNCHANGED vars
    BY <1>4 DEF TypeInv, DownIsIdle, vars, disk, chat, tools, handle, turn, rescue
<1> QED
    BY <1>1, <1>2, <1>3, <1>4

(***************************************************************************)
(* Creating messages.                                                      *)
(***************************************************************************)
Created(n) ==
    /\ created' \in Seq(Sessions) /\ Len(created') = Len(created) + n
    /\ \A k \in 1..Len(created) : created'[k] = created[k]
    /\ \A k \in (Len(created) + 1)..(Len(created) + n) : created'[k] = cur

LEMMA CreateTyped ==
    ASSUME CountsTyped, cur \in Sessions, NEW n \in 0..2, Create(n)
    PROVE  Created(n)
<1> DEFINE new == [k \in 1..n |-> cur]
<1>1. new \in Seq(Sessions) /\ Len(new) = n /\ \A k \in 1..n : new[k] = cur
    BY IsASeq
<1>2. created' = created \o new /\ created \in Seq(Sessions)
    BY DEF Create, CountsTyped
<1> HIDE DEF new
<1>3. /\ created' \in Seq(Sessions) /\ Len(created') = Len(created) + n
      /\ \A k \in 1..(Len(created) + n) :
            created'[k] = IF k <= Len(created) THEN created[k] ELSE new[k - Len(created)]
    BY <1>1, <1>2, ConcatProperties
<1>4. Len(created) \in Nat /\ n \in Nat
    BY <1>2
<1>5. ASSUME NEW k \in (Len(created) + 1)..(Len(created) + n) PROVE created'[k] = cur
  <2>1. k \in 1..(Len(created) + n) /\ ~(k <= Len(created)) /\ k - Len(created) \in 1..n
      BY <1>4
  <2> QED
      BY <1>1, <1>3, <2>1
<1>6. \A k \in 1..Len(created) : created'[k] = created[k]
    BY <1>3, <1>4
<1> QED
    BY <1>3, <1>5, <1>6 DEF Created

LEMMA CountsNext ==
    ASSUME TypeInv, [Next]_vars
    PROVE  CountsTyped'
<1> USE DEF TypeInv
<1>1. Len(created) \in Nat /\ Len(unlogged) \in Nat /\ MaxMsgs \in Nat
    BY Bounds, LenProperties DEF CountsTyped
<1>2. up => cur \in Sessions
    BY DEF ChatTyped
<1>3. CASE UNCHANGED <<created, unlogged, walSeq, logged>>
    BY <1>3 DEF CountsTyped
<1>4. CASE Submit
  <2>1. Create(1) /\ Logged(Fresh) /\ unlogged' = unlogged /\ cur \in Sessions /\ Len(created) + 1 <= MaxMsgs
      BY <1>2, <1>4 DEF Submit, UIReady, tools, Fresh
  <2>2. Created(1) /\ Fresh \in 1..MaxMsgs
      BY <1>1, <2>1, CreateTyped DEF Fresh
  <2>3. walSeq' = walSeq + 1 /\ logged' = logged \cup {Fresh}
      BY <2>1 DEF Logged
  <2>4. logged' \subseteq 1..MaxMsgs
      BY <2>2, <2>3 DEF CountsTyped
  <2> QED
      BY <1>1, <2>1, <2>2, <2>3, <2>4 DEF CountsTyped, Created
<1>5. CASE ToolResult
  <2>1. Logged(Head(unlogged)) /\ unlogged' = Tail(unlogged) /\ unlogged # <<>> /\ created' = created
      BY <1>5 DEF ToolResult
  <2>2. /\ Head(unlogged) \in 1..MaxMsgs /\ Tail(unlogged) \in Seq(1..MaxMsgs)
        /\ Len(Tail(unlogged)) = Len(unlogged) - 1
      BY <2>1, ToSetTail DEF CountsTyped
  <2>3. walSeq' = walSeq + 1 /\ logged' = logged \cup {Head(unlogged)}
      BY <2>1 DEF Logged
  <2>4. logged' \subseteq 1..MaxMsgs
      BY <2>2, <2>3 DEF CountsTyped
  <2>5. Len(unlogged') = Len(unlogged) - 1 /\ unlogged' \in Seq(1..MaxMsgs)
      BY <2>1, <2>2
  <2> QED
      BY <1>1, <2>1, <2>3, <2>4, <2>5 DEF CountsTyped
<1>6. CASE TurnEnds
  <2>1. PICK text \in BOOLEAN : /\ Len(created) + (IF text THEN 1 ELSE 0) <= MaxMsgs
                                /\ Answered(text) /\ Create(IF text THEN 1 ELSE 0)
                                /\ unlogged' = unlogged
      BY <1>6 DEF TurnEnds, tools
  <2>2. cur \in Sessions
      BY <1>2, <2>1 DEF Answered, UIReady
  <2>3. CASE text
    <3>1. Created(1) /\ Fresh \in 1..MaxMsgs
        BY <1>1, <2>1, <2>2, <2>3, CreateTyped DEF Fresh
    <3>2. walSeq' = walSeq + 1 /\ logged' = logged \cup {Fresh}
        BY <2>1, <2>3 DEF Answered, Logged
    <3> QED
        BY <1>1, <2>1, <2>3, <3>1, <3>2 DEF CountsTyped, Created
  <2>4. CASE ~text
    <3>1. Created(0)
        BY <2>1, <2>2, <2>4, CreateTyped
    <3>2. walSeq' = walSeq /\ logged' = logged
        BY <2>1, <2>4 DEF Answered, handle
    <3> QED
        BY <1>1, <2>1, <3>1, <3>2 DEF CountsTyped, Created
  <2> QED
      BY <2>3, <2>4
<1>7. CASE TurnEndsIntoQueued
  <2>1. /\ Create(2) /\ Logged(Fresh) /\ unlogged' = unlogged /\ cur \in Sessions
        /\ Len(created) + 2 <= MaxMsgs
      BY <1>1, <1>2, <1>7 DEF TurnEndsIntoQueued, Answered, UIReady, tools, Fresh
  <2>2. Created(2) /\ Fresh \in 1..MaxMsgs
      BY <1>1, <2>1, CreateTyped DEF Fresh
  <2>3. walSeq' = walSeq + 1 /\ logged' = logged \cup {Fresh}
      BY <2>1 DEF Logged
  <2> QED
      BY <1>1, <2>1, <2>2, <2>3 DEF CountsTyped, Created
<1>8. CASE ToolText
  <2>1. Create(1) /\ UNCHANGED <<unlogged, walSeq, logged>> /\ cur \in Sessions /\ Len(created) + 1 <= MaxMsgs
      BY <1>2, <1>8 DEF ToolText, Fresh, idle, handle
  <2>2. Created(1)
      BY <2>1, CreateTyped
  <2> QED
      BY <1>1, <2>1, <2>2 DEF CountsTyped, Created
<1>9. CASE ToolFinishes
  <2>1. /\ Create(1) /\ UNCHANGED <<walSeq, logged>> /\ unlogged' = Append(unlogged, Fresh)
        /\ cur \in Sessions /\ Len(created) + 1 <= MaxMsgs
      BY <1>2, <1>9 DEF ToolFinishes, Fresh, idle, handle
  <2>2. Created(1) /\ Fresh \in 1..MaxMsgs
      BY <1>1, <2>1, CreateTyped DEF Fresh
  <2>3. unlogged' \in Seq(1..MaxMsgs) /\ Len(unlogged') = Len(unlogged) + 1
      BY <2>1, <2>2, AppendProperties DEF CountsTyped
  <2> QED
      BY <1>1, <2>1, <2>2, <2>3 DEF CountsTyped, Created
<1>10. CASE ProcessEnds
  <2>1. unlogged' = <<>> /\ walSeq' = 0 /\ created' = created /\ logged' \subseteq logged
      BY <1>10 DEF ProcessEnds
  <2>2. walSeq' + Len(unlogged') <= Len(created')
      BY <1>1, <2>1, NothingTyped
  <2>3. logged' \subseteq 1..MaxMsgs /\ unlogged' \in Seq(1..MaxMsgs)
      BY <2>1, NothingTyped DEF CountsTyped
  <2> QED
      BY <2>1, <2>2, <2>3 DEF CountsTyped
<1>11. CASE QueuePrompt \/ SaveResult \/ NewBegins \/ NewEnds \/ QuitBegins \/ QuitSaved \/ ExitSaveBegins
  <2>1. UNCHANGED <<created, unlogged, walSeq, logged>>
      BY <1>11 DEF QueuePrompt, SaveResult, HandleResult, RemoveWAL, NewBegins, NewEnds, NewSession,
             QuitBegins, QuitSaved, ExitSaveBegins, SaveBegins, SaveEnds, tools, handle, past
  <2> QED
      BY <1>3, <2>1
<1>12. CASE \E s \in Sessions : ResumeCommand(s) \/ \E saved \in BOOLEAN : RecoverCommand(s, saved)
  <2>1. UNCHANGED <<created, unlogged, walSeq, logged>>
      BY <1>12 DEF ResumeCommand, RecoverCommand, Switch, UnlinkWAL, tools, handle, past
  <2> QED
      BY <1>3, <2>1
<1>13. CASE BatchAppended \/ Recovery \/ FlushWAL
  <2>1. UNCHANGED <<created, unlogged, walSeq, logged>>
      BY <1>13 DEF BatchAppended, Recovery, RecoveryScans, RecoveryReads, RecoveryRemoves, UnlinkWAL,
             FlushWAL, idle, tools, handle, past
  <2> QED
      BY <1>3, <2>1
<1>14. CASE Start
  <2>1. UNCHANGED <<created, unlogged, walSeq, logged>>
      BY <1>14 DEF Start, StartFresh, StartContinue, StartResume, Opens, tools, past
  <2> QED
      BY <1>3, <2>1
<1>15. CASE (\E i \in Saves : SaveStep(i)) \/ (\E i \in BgSaves : SavePosts(i))
  <2>1. UNCHANGED <<created, unlogged, walSeq, logged>>
      BY <1>15 DEF SaveStep, SaveOpens, SaveWrites, SaveRenames, SaveFails, SavePosts, unsaving,
             tools, handle, past
  <2> QED
      BY <1>3, <2>1
<1>16. CASE UNCHANGED vars
  <2>1. UNCHANGED <<created, unlogged, walSeq, logged>>
      BY <1>16 DEF vars, tools, handle, past
  <2> QED
      BY <1>3, <2>1
<1> QED
    BY <1>4, <1>5, <1>6, <1>7, <1>8, <1>9, <1>10, <1>11, <1>12, <1>13, <1>14, <1>15, <1>16
       DEF Next, UI, Engine, Exit, Crash

LEMMA ChatNext ==
    ASSUME TypeInv, [Next]_vars
    PROVE  ChatTyped'
<1> USE DEF TypeInv
<1>1. Len(created) \in Nat /\ MaxMsgs \in Nat /\ MaxQueue \in Nat
    BY Bounds, LenProperties DEF CountsTyped
<1>2. ASSUME UNCHANGED <<up, waiting, sid, cur, msgs, toolMsgs, unlogged, queued, uiOp, toRecover>>
      PROVE  ChatTyped'
    BY <1>2 DEF ChatTyped
<1>3. CASE Submit
  <2>1. /\ UNCHANGED <<up, sid, cur, toolMsgs, unlogged, queued, uiOp, toRecover>>
        /\ waiting' = TRUE /\ msgs' = Append(msgs, Fresh) /\ Fresh <= MaxMsgs
      BY <1>3 DEF Submit, tools, rescue
  <2>2. Fresh \in 1..MaxMsgs
      BY <1>1, <2>1 DEF Fresh
  <2>3. msgs' \in Seq(1..MaxMsgs)
      BY <2>1, <2>2, ToSetAppend DEF ChatTyped
  <2> QED
      BY <2>1, <2>3 DEF ChatTyped
<1>4. CASE ToolResult
  <2>1. /\ UNCHANGED <<up, waiting, sid, cur, msgs, toolMsgs, queued, uiOp, toRecover>>
        /\ unlogged # <<>>
      BY <1>4 DEF ToolResult, chat, turn, rescue
  <2> QED
      BY <2>1 DEF ChatTyped
<1>5. CASE QueuePrompt
  <2>1. /\ UNCHANGED <<up, waiting, sid, cur, msgs, toolMsgs, unlogged, uiOp, toRecover>>
        /\ queued' = queued + 1 /\ queued < MaxQueue
      BY <1>5 DEF QueuePrompt, chat, tools, rescue
  <2> QED
      BY <1>1, <2>1 DEF ChatTyped
<1>6. CASE TurnEnds
  <2>1. PICK text \in BOOLEAN :
            /\ Len(created) + (IF text THEN 1 ELSE 0) <= MaxMsgs /\ toolMsgs = <<>> /\ unlogged = <<>>
            /\ msgs' = (IF text THEN Append(msgs, Fresh) ELSE msgs) /\ waiting' = FALSE
            /\ UNCHANGED <<up, sid, cur, toolMsgs, unlogged, queued, uiOp, toRecover>>
      BY <1>6 DEF TurnEnds, Answered, tools, rescue
  <2>2. text => Fresh \in 1..MaxMsgs
      BY <1>1, <2>1 DEF Fresh
  <2>3. msgs' \in Seq(1..MaxMsgs)
      BY <2>1, <2>2, ToSetAppend DEF ChatTyped
  <2> QED
      BY <2>1, <2>3 DEF ChatTyped
<1>7. CASE TurnEndsIntoQueued
  <2>1. /\ queued > 0 /\ Fresh + 1 <= MaxMsgs /\ queued' = queued - 1
        /\ msgs' = msgs \o <<Fresh, Fresh + 1>>
        /\ UNCHANGED <<up, sid, cur, toolMsgs, unlogged, waiting, uiOp, toRecover>>
      BY <1>7 DEF TurnEndsIntoQueued, tools, rescue
  <2>2. Fresh \in 1..MaxMsgs /\ Fresh + 1 \in 1..MaxMsgs
      BY <1>1, <2>1 DEF Fresh
  <2>3. <<Fresh, Fresh + 1>> \in Seq(1..MaxMsgs)
      BY <2>2
  <2>4. msgs' \in Seq(1..MaxMsgs)
      BY <2>1, <2>3, ConcatProperties DEF ChatTyped
  <2>5. queued' \in 0..MaxQueue
      BY <1>1, <2>1 DEF ChatTyped
  <2> QED
      BY <2>1, <2>4, <2>5 DEF ChatTyped
<1>8. CASE SaveResult
  <2>1. UNCHANGED <<up, waiting, sid, cur, msgs, toolMsgs, unlogged, queued, uiOp, toRecover>>
      BY <1>8 DEF SaveResult, HandleResult, chat, tools, turn, rescue
  <2> QED
      BY <1>2, <2>1
<1>9. CASE NewBegins \/ QuitBegins \/ ExitSaveBegins
  <2>1. /\ UNCHANGED <<up, waiting, sid, cur, msgs, toolMsgs, unlogged, queued, toRecover>>
        /\ uiOp' \in {"new", "quit", "exit"}
      BY <1>9 DEF NewBegins, QuitBegins, ExitSaveBegins, SaveBegins, chat, tools, rescue
  <2> QED
      BY <2>1 DEF ChatTyped
<1>10. CASE NewEnds
  <2>1. /\ UNCHANGED <<up, waiting, sid, toolMsgs, unlogged, queued, toRecover>>
        /\ uiOp' = "none" /\ msgs' = <<>> /\ cur' \in Unused
      BY <1>10 DEF NewEnds, NewSession, tools, rescue
  <2>2. cur' \in Sessions
      BY <2>1 DEF Unused
  <2> QED
      BY <2>1, <2>2, NothingTyped DEF ChatTyped
<1>11. CASE QuitSaved
  <2>1. /\ UNCHANGED <<up, waiting, sid, cur, msgs, toolMsgs, unlogged, queued, toRecover>>
        /\ uiOp' = "exit"
      BY <1>11 DEF QuitSaved, chat, tools, rescue
  <2> QED
      BY <2>1 DEF ChatTyped
<1>12. ASSUME NEW s \in Sessions, ResumeCommand(s) \/ \E saved \in BOOLEAN : RecoverCommand(s, saved)
       PROVE  ChatTyped'
  <2>1. /\ UNCHANGED <<up, waiting, sid, toolMsgs, unlogged, queued, uiOp, toRecover>>
        /\ cur' = s /\ (msgs' = Parsed(jsonl[s]) \/ msgs' = Parsed(wal[s]))
      BY <1>12 DEF ResumeCommand, RecoverCommand, Switch, Resumed, tools, turn, rescue
  <2>2. jsonl[s] \in Files /\ wal[s] \in Files
      BY DEF HandleTyped, SavesTyped
  <2>3. msgs' \in Seq(1..MaxMsgs)
      BY <2>1, <2>2, ParsedKeeps
  <2> QED
      BY <2>1, <2>3 DEF ChatTyped
<1>13. CASE ToolText
  <2>1. /\ UNCHANGED <<up, waiting, sid, cur, msgs, unlogged, queued, uiOp, toRecover>>
        /\ waiting /\ toolMsgs' = <<Fresh>> /\ Fresh <= MaxMsgs
      BY <1>13 DEF ToolText, idle, chat, turn, rescue
  <2>2. Fresh \in 1..MaxMsgs
      BY <1>1, <2>1 DEF Fresh
  <2>3. toolMsgs' \in Seq(1..MaxMsgs)
      BY <2>1, <2>2
  <2> QED
      BY <2>1, <2>3 DEF ChatTyped
<1>14. CASE ToolFinishes
  <2>1. /\ UNCHANGED <<up, waiting, sid, cur, msgs, queued, uiOp, toRecover>>
        /\ waiting /\ toolMsgs' = Append(toolMsgs, Fresh) /\ Fresh <= MaxMsgs
      BY <1>14 DEF ToolFinishes, idle, chat, turn, rescue
  <2>2. Fresh \in 1..MaxMsgs
      BY <1>1, <2>1 DEF Fresh
  <2>3. toolMsgs' \in Seq(1..MaxMsgs)
      BY <2>1, <2>2, ToSetAppend DEF ChatTyped
  <2> QED
      BY <2>1, <2>3 DEF ChatTyped
<1>15. CASE BatchAppended
  <2>1. /\ UNCHANGED <<up, waiting, sid, cur, unlogged, queued, uiOp, toRecover>>
        /\ toolMsgs' = <<>> /\ msgs' = msgs \o toolMsgs
      BY <1>15 DEF BatchAppended, idle, turn, rescue
  <2>2. msgs' \in Seq(1..MaxMsgs)
      BY <2>1, ConcatProperties DEF ChatTyped
  <2> QED
      BY <2>1, <2>2, NothingTyped DEF ChatTyped
<1>16. CASE Recovery
  <2>1. /\ UNCHANGED <<up, waiting, cur, msgs, toolMsgs, unlogged, queued, uiOp>>
        /\ sid' \in {sid, NoSession}
        /\ toRecover' \subseteq toRecover \/ toRecover' \subseteq Sessions
      BY <1>16 DEF Recovery, RecoveryScans, RecoveryReads, RecoveryRemoves, chat, tools, turn
  <2> QED
      BY <2>1 DEF ChatTyped
<1>17. ASSUME NEW s \in Sessions,
              \/ StartFresh(s) \/ StartContinue(s)
              \/ \E saved \in BOOLEAN : StartResume(s, saved)
       PROVE  ChatTyped'
  <2>1. /\ UNCHANGED <<waiting, toolMsgs, unlogged, queued, uiOp, toRecover>>
        /\ up' = TRUE /\ cur' = s /\ sid' = s
        /\ msgs' = msgs \/ msgs' = Parsed(jsonl[s]) \/ msgs' = Parsed(wal[s])
      BY <1>17 DEF StartFresh, StartContinue, StartResume, Opens, Resumed, tools, turn, rescue
  <2>2. jsonl[s] \in Files /\ wal[s] \in Files
      BY DEF HandleTyped, SavesTyped
  <2>3. msgs' \in Seq(1..MaxMsgs)
      BY <2>1, <2>2, ParsedKeeps DEF ChatTyped
  <2> QED
      BY <2>1, <2>3 DEF ChatTyped
<1>18. CASE ProcessEnds
    BY <1>18, NothingTyped DEF ProcessEnds, ChatTyped
<1>19. CASE FlushWAL
  <2>1. UNCHANGED <<up, waiting, sid, cur, msgs, toolMsgs, unlogged, queued, uiOp, toRecover>>
      BY <1>19 DEF FlushWAL, chat, tools, turn, rescue
  <2> QED
      BY <1>2, <2>1
<1>20. CASE (\E i \in Saves : SaveStep(i)) \/ (\E i \in BgSaves : SavePosts(i))
  <2>1. UNCHANGED <<up, waiting, sid, cur, msgs, toolMsgs, unlogged, queued, uiOp, toRecover>>
      BY <1>20 DEF SaveStep, SaveOpens, SaveWrites, SaveRenames, SaveFails, SavePosts, unsaving,
             chat, tools, turn, rescue
  <2> QED
      BY <1>2, <2>1
<1>21. CASE UNCHANGED vars
  <2>1. UNCHANGED <<up, waiting, sid, cur, msgs, toolMsgs, unlogged, queued, uiOp, toRecover>>
      BY <1>21 DEF vars, chat, tools, turn, rescue
  <2> QED
      BY <1>2, <2>1
<1> QED
    BY <1>3, <1>4, <1>5, <1>6, <1>7, <1>8, <1>9, <1>10, <1>11, <1>12, <1>13, <1>14, <1>15, <1>16,
       <1>17, <1>18, <1>19, <1>20, <1>21 DEF Next, UI, Engine, Start, Exit, Crash

LEMMA HandleNext ==
    ASSUME TypeInv, [Next]_vars
    PROVE  HandleTyped'
<1> USE DEF TypeInv
<1>1. Len(created) \in Nat /\ MaxMsgs \in Nat /\ (up => cur \in Sessions)
    BY Bounds, LenProperties DEF CountsTyped, ChatTyped
<1>2. ASSUME UNCHANGED <<wal, walFor, walAt, batched, buf>>
      PROVE  HandleTyped'
    BY <1>2 DEF HandleTyped
<1>3. CASE Submit \/ TurnEndsIntoQueued
  <2>1. Logged(Fresh) /\ cur \in Sessions /\ Fresh <= MaxMsgs
      BY <1>1, <1>3 DEF Submit, TurnEndsIntoQueued, Answered, UIReady, Fresh
  <2>2. Fresh \in 1..MaxMsgs
      BY <1>1, <2>1 DEF Fresh
  <2> QED
      BY <2>1, <2>2, LoggedTyped
<1>4. CASE ToolResult
  <2>1. Logged(Head(unlogged)) /\ cur \in Sessions /\ Head(unlogged) \in 1..MaxMsgs
      BY <1>1, <1>4, ToSetTail DEF ToolResult, UIReady, CountsTyped
  <2> QED
      BY <2>1, LoggedTyped
<1>5. CASE TurnEnds
  <2>1. PICK text \in BOOLEAN : Answered(text) /\ Len(created) + (IF text THEN 1 ELSE 0) <= MaxMsgs
      BY <1>5 DEF TurnEnds
  <2>2. CASE text
    <3>1. Logged(Fresh) /\ cur \in Sessions /\ Fresh \in 1..MaxMsgs
        BY <1>1, <2>1, <2>2 DEF Answered, UIReady, Fresh
    <3> QED
        BY <3>1, LoggedTyped
  <2>3. CASE ~text
    <3>1. UNCHANGED <<wal, walFor, walAt, batched, buf>>
        BY <2>1, <2>3 DEF Answered, handle
    <3> QED
        BY <1>2, <3>1
  <2> QED
      BY <2>2, <2>3
<1>6. CASE SaveResult \/ QuitSaved
  <2>1. (walFor # NoSession /\ RemoveWAL) \/ UNCHANGED <<wal, walFor, walAt, batched, buf>>
      BY <1>6 DEF SaveResult, HandleResult, QuitSaved, SaveEnds, handle
  <2> QED
      BY <1>2, <2>1, RemoveTyped
<1>7. CASE NewEnds
  <2>1. PICK s \in Unused :
            /\ walFor' = s /\ buf' = <<>> /\ batched' = FALSE /\ walAt' = "linked"
            /\ \/ wal' = [[wal EXCEPT ![walFor] = Absent] EXCEPT ![s] = <<>>]
               \/ wal' = [FlushedFile EXCEPT ![s] = <<>>]
      BY <1>7 DEF NewEnds, NewSession
  <2>2. s \in Sessions
      BY DEF Unused
  <2>3. wal' \in [Sessions -> Files]
      BY <2>1, FlushedTyped, EmptyFiles DEF HandleTyped
  <2> QED
      BY <2>1, <2>2, <2>3, NothingTyped, IdsDistinct DEF HandleTyped
<1>8. CASE QueuePrompt \/ NewBegins \/ QuitBegins \/ ExitSaveBegins \/ Engine
  <2>1. UNCHANGED <<wal, walFor, walAt, batched, buf>>
      BY <1>8 DEF QueuePrompt, NewBegins, QuitBegins, ExitSaveBegins, SaveBegins, Engine, ToolText,
             ToolFinishes, BatchAppended, idle, disk, handle
  <2> QED
      BY <1>2, <2>1
<1>9. ASSUME NEW s \in Sessions, ResumeCommand(s) \/ \E saved \in BOOLEAN : RecoverCommand(s, saved)
      PROVE  HandleTyped'
  <2>1. UnlinkWAL(s) \/ UNCHANGED <<wal, walFor, walAt, batched, buf>>
      BY <1>9 DEF ResumeCommand, RecoverCommand, handle
  <2> QED
      BY <1>2, <2>1, UnlinkTyped
<1>10. CASE Recovery
  <2>1. \/ UNCHANGED <<wal, walFor, walAt, batched, buf>>
        \/ UnlinkWAL(saves[Rec].sess) /\ saves[Rec].stage # "none"
      BY <1>10 DEF Recovery, RecoveryScans, RecoveryReads, RecoveryRemoves, Finished, disk, handle
  <2>2. saves[Rec].stage # "none" => saves[Rec].sess \in Sessions
      BY DEF SavesTyped, Saves
  <2> QED
      BY <1>2, <2>1, <2>2, UnlinkTyped
<1>11. ASSUME NEW s \in Sessions,
              \/ StartFresh(s) \/ StartContinue(s)
              \/ \E saved \in BOOLEAN : StartResume(s, saved)
       PROVE  HandleTyped'
  <2>1. Opens(s, wal) \/ Opens(s, [wal EXCEPT ![s] = Absent])
      BY <1>11 DEF StartFresh, StartContinue, StartResume
  <2>2. wal \in [Sessions -> Files] /\ [wal EXCEPT ![s] = Absent] \in [Sessions -> Files]
      BY EmptyFiles DEF HandleTyped
  <2> QED
      BY <2>1, <2>2, OpensTyped
<1>12. CASE Exit \/ Crash
  <2>1. wal' = wal \/ wal' = [wal EXCEPT ![walFor] = Absent]
      BY <1>12 DEF Exit, Crash
  <2>2. wal' \in [Sessions -> Files]
      BY <2>1, EmptyFiles DEF HandleTyped
  <2>3. ProcessEnds
      BY <1>12 DEF Exit, Crash
  <2> QED
      BY <2>2, <2>3, NothingTyped DEF ProcessEnds, HandleTyped
<1>13. CASE FlushWAL
  <2>1. wal' = FlushedFile /\ buf' = FlushedBuf /\ UNCHANGED <<walFor, walAt, batched>> /\ buf # <<>>
      BY <1>13 DEF FlushWAL
  <2> QED
      BY <2>1, FlushedTyped DEF HandleTyped
<1>14. CASE (\E i \in Saves : SaveStep(i)) \/ (\E i \in BgSaves : SavePosts(i))
  <2>1. UNCHANGED <<wal, walFor, walAt, batched, buf>>
      BY <1>14 DEF SaveStep, SaveOpens, SaveWrites, SaveRenames, SaveFails, SavePosts, unsaving,
             disk, handle
  <2> QED
      BY <1>2, <2>1
<1>15. CASE UNCHANGED vars
  <2>1. UNCHANGED <<wal, walFor, walAt, batched, buf>>
      BY <1>15 DEF vars, disk, handle
  <2> QED
      BY <1>2, <2>1
<1> QED
    BY <1>3, <1>4, <1>5, <1>6, <1>7, <1>8, <1>9, <1>10, <1>11, <1>12, <1>13, <1>14, <1>15
       DEF Next, UI, Start

(***************************************************************************)
(* What a step does to the session files and the saves: nothing, begin a   *)
(* save, take the result of one, a step of a save, rebuild a session file  *)
(* from a log, or end the process.                                         *)
(***************************************************************************)
Quiet == UNCHANGED <<jsonl, tmp, saves>> /\ results' \subseteq results

Begun(i, s, m, q) ==
    /\ Free(i) /\ clashed' = Clashed(s)
    /\ (s = cur /\ cur' = cur /\ m \in {msgs, msgs'}) \/ m = Parsed(wal[s])
    /\ saves' = [saves EXCEPT ![i] = NewSave(s, m, q)]
    /\ UNCHANGED <<jsonl, tmp, results>>

Taken(i) ==
    /\ saves' = [saves EXCEPT ![i] = NoSave] /\ UNCHANGED <<jsonl, tmp>>
    /\ results' \subseteq results \/ SavePosts(i)

Rebuilt(s) ==
    /\ UNCHANGED <<tmp, saves, results>>
    /\ \/ jsonl' = jsonl
       \/ jsonl' = [jsonl EXCEPT ![s] = <<Meta>> \o msgs'] /\ cur' = s /\ clashed' = Clashed(s)

Ended == ProcessEnds /\ UNCHANGED jsonl

SaveChange ==
    \/ Quiet
    \/ \E i \in Saves, s \in Sessions, m \in Seq(1..MaxMsgs), q \in 0..MaxMsgs : Begun(i, s, m, q)
    \/ \E i \in Saves : SaveStep(i) \/ Taken(i)
    \/ \E s \in Sessions : Rebuilt(s)
    \/ Ended

LEMMA SaveIds == BgSaves \subseteq Saves /\ Sync \in Saves /\ Rec \in Saves /\ Sync # Rec
                 /\ Sync \notin BgSaves /\ Rec \notin BgSaves
    BY IdsDistinct DEF Saves

\* A session that was misused, or whose saves clashed, stays so.
LEMMA FlawsNext ==
    ASSUME TypeInv, [Next]_vars
    PROVE  FlawsTyped' /\ clashed \subseteq clashed' /\ misused \subseteq misused'
<1>1. up => cur \in Sessions
    BY DEF TypeInv, ChatTyped
<1>4. SUFFICES /\ \E c \in SUBSET Sessions : clashed' = clashed \/ (clashed' = clashed \cup c)
               /\ \E c \in SUBSET Sessions : misused' = misused \/ (misused' = misused \cup c)
    BY DEF TypeInv, FlawsTyped
<1>5. ASSUME NEW s \in Sessions PROVE \E c \in SUBSET Sessions : Clashed(s) = clashed \cup c
  <2>1. Clashed(s) = clashed \cup {s} \/ Clashed(s) = clashed \cup {}
      BY DEF Clashed
  <2> QED
      BY <2>1
<1>6. ASSUME NEW s \in Sessions, NEW m PROVE \E c \in SUBSET Sessions : Misused(s, m) = misused \cup c
  <2>1. Misused(s, m) = misused \cup {s} \/ Misused(s, m) = misused \cup {}
      BY DEF Misused
  <2> QED
      BY <2>1
<1>7. CASE Submit \/ ToolResult \/ QueuePrompt \/ TurnEndsIntoQueued \/ SaveResult \/ NewEnds \/ QuitSaved
    BY <1>7 DEF Submit, ToolResult, QueuePrompt, TurnEndsIntoQueued, SaveResult, HandleResult, NewEnds,
                NewSession, QuitSaved, flaws
<1>8. CASE TurnEnds
  <2>1. clashed' = Clashed(cur) /\ misused' = misused /\ cur \in Sessions
      BY <1>1, <1>8 DEF TurnEnds, Answered, UIReady
  <2> QED
      BY <1>5, <2>1
<1>9. CASE NewBegins \/ QuitBegins \/ ExitSaveBegins
  <2>1. up
      BY <1>9 DEF NewBegins, QuitBegins, ExitSaveBegins, UIReady, TypeInv, DownIsIdle
  <2>2. cur \in Sessions /\ (clashed' = clashed \/ clashed' = Clashed(cur))
        /\ (misused' = misused \/ misused' = misused \cup {cur})
      BY <1>1, <1>9, <2>1 DEF NewBegins, QuitBegins, ExitSaveBegins, SaveBegins
  <2> QED
      BY <1>5, <2>2
<1>10. CASE Exit \/ Crash
    BY <1>10 DEF Exit, Crash, ProcessEnds, flaws
<1>11. ASSUME NEW s \in Sessions, ResumeCommand(s) \/ \E saved \in BOOLEAN : RecoverCommand(s, saved)
       PROVE  /\ \E c \in SUBSET Sessions : clashed' = clashed \/ (clashed' = clashed \cup c)
              /\ \E c \in SUBSET Sessions : misused' = misused \/ (misused' = misused \cup c)
  <2> DEFINE more == (IF walFor = NoSession THEN {} ELSE {s, walFor}) \cup (toRecover \cap {s})
  <2>1. /\ misused' = Misused(s, msgs') \cup more
        /\ clashed' = clashed \/ clashed' = Clashed(s)
      BY <1>11 DEF ResumeCommand, RecoverCommand, Resumed, Switch
  <2>2. more \subseteq Sessions
      BY DEF TypeInv, HandleTyped
  <2> HIDE DEF more
  <2>3. PICK c \in SUBSET Sessions : Misused(s, msgs') = misused \cup c
      BY <1>6
  <2>4. misused' = misused \cup (c \cup more) /\ c \cup more \in SUBSET Sessions
      BY <2>1, <2>2, <2>3
  <2> QED
      BY <1>5, <2>1, <2>4
<1>12. CASE Engine
    BY <1>12 DEF Engine, ToolText, ToolFinishes, BatchAppended, idle, flaws
<1>13. CASE RecoveryScans \/ FlushWAL
    BY <1>13 DEF RecoveryScans, FlushWAL, flaws
<1>14. CASE RecoveryRemoves
  <2>1. saves[Rec].sess \in Sessions
      BY <1>14, SaveIds, NoSaveTyped DEF RecoveryRemoves, Finished, TypeInv, SavesTyped
  <2> QED
      BY <1>14, <2>1 DEF RecoveryRemoves
<1>15. ASSUME NEW s \in Sessions, RecoveryReads(s)
       PROVE  /\ \E c \in SUBSET Sessions : clashed' = clashed \/ (clashed' = clashed \cup c)
              /\ \E c \in SUBSET Sessions : misused' = misused \/ (misused' = misused \cup c)
  <2> DEFINE more == {s} \cap {cur, walFor}
  <2>1. \/ clashed' = clashed /\ misused' = misused
        \/ clashed' = Clashed(s) /\ misused' = Misused(s, Parsed(wal[s])) \cup more
      BY <1>15 DEF RecoveryReads, flaws
  <2>2. more \subseteq Sessions
      OBVIOUS
  <2> HIDE DEF more
  <2>3. PICK c \in SUBSET Sessions : Misused(s, Parsed(wal[s])) = misused \cup c
      BY <1>6
  <2>4. c \cup more \in SUBSET Sessions
      BY <2>2
  <2>5. \/ misused' = misused
        \/ misused' = misused \cup (c \cup more)
      BY <2>1, <2>3
  <2> QED
      BY <1>5, <2>1, <2>4, <2>5
<1>16. ASSUME NEW s \in Sessions,
              \/ StartFresh(s) \/ StartContinue(s)
              \/ \E saved \in BOOLEAN : StartResume(s, saved)
       PROVE  /\ \E c \in SUBSET Sessions : clashed' = clashed \/ (clashed' = clashed \cup c)
              /\ \E c \in SUBSET Sessions : misused' = misused \/ (misused' = misused \cup c)
  <2>1. /\ clashed' = clashed \/ clashed' = Clashed(s)
        /\ misused' = misused \/ misused' = Misused(s, msgs')
      BY <1>16 DEF StartFresh, StartContinue, StartResume, Resumed, flaws
  <2> QED
      BY <1>5, <1>6, <2>1
<1>17. ASSUME NEW i \in Saves, SaveStep(i) PROVE UNCHANGED flaws
    BY <1>17 DEF SaveStep, SaveOpens, SaveWrites, SaveRenames, SaveFails, unsaving
<1>18. ASSUME NEW i \in BgSaves, SavePosts(i) PROVE UNCHANGED flaws
    BY <1>18 DEF SavePosts
<1>19. CASE UNCHANGED vars
    BY <1>19 DEF vars, flaws
<1> QED
    BY <1>7, <1>8, <1>9, <1>10, <1>11, <1>12, <1>13, <1>14, <1>15, <1>16, <1>17, <1>18, <1>19
       DEF Next, UI, Recovery, Start, flaws

LEMMA SaveChanges ==
    ASSUME TypeInv, [Next]_vars
    PROVE  SaveChange
<1>1. CountsTyped' /\ ChatTyped'
    BY CountsNext, ChatNext
<1>2. /\ walSeq \in 0..MaxMsgs /\ walSeq' \in 0..MaxMsgs
      /\ msgs \in Seq(1..MaxMsgs) /\ msgs' \in Seq(1..MaxMsgs)
      /\ up => cur \in Sessions
  <2>1. ASSUME CountsTyped PROVE walSeq \in 0..MaxMsgs
      BY <2>1, Bounds, LenProperties DEF CountsTyped
  <2>2. ASSUME CountsTyped' PROVE walSeq' \in 0..MaxMsgs
      BY <2>2, Bounds, LenProperties DEF CountsTyped
  <2> QED
      BY <1>1, <2>1, <2>2 DEF TypeInv, ChatTyped
<1>3. CASE Submit \/ ToolResult \/ QueuePrompt \/ TurnEndsIntoQueued
    BY <1>3 DEF Submit, ToolResult, QueuePrompt, TurnEndsIntoQueued, disk, SaveChange, Quiet
<1>4. CASE TurnEnds
  <2>1. PICK i \in BgSaves : /\ UIReady /\ Free(i) /\ clashed' = Clashed(cur) /\ cur' = cur
                             /\ saves' = [saves EXCEPT ![i] = NewSave(cur, msgs', walSeq')]
                             /\ UNCHANGED <<jsonl, tmp, results>>
      BY <1>4 DEF TurnEnds, Answered
  <2> QED
      BY <1>2, <2>1, SaveIds DEF SaveChange, Begun, UIReady
<1>5. CASE SaveResult
  <2>1. UNCHANGED <<jsonl, tmp, saves>> /\ results' \subseteq results
      BY <1>5 DEF SaveResult, HandleResult
  <2> QED
      BY <2>1 DEF SaveChange, Quiet
<1>6. CASE NewBegins \/ QuitBegins \/ ExitSaveBegins
  <2>1. up
      BY <1>6 DEF NewBegins, QuitBegins, ExitSaveBegins, UIReady, TypeInv, DownIsIdle
  <2>2. PICK op : SaveBegins(op)
      BY <1>6 DEF NewBegins, QuitBegins, ExitSaveBegins
  <2>3. CASE msgs = <<>>
      BY <2>2, <2>3 DEF SaveBegins, disk, SaveChange, Quiet
  <2>4. CASE msgs # <<>>
    <3>1. Begun(Sync, cur, msgs, walSeq)
        BY <2>2, <2>4 DEF SaveBegins, disk, chat, Begun
    <3> QED
        BY <1>2, <2>1, <3>1, SaveIds DEF SaveChange
  <2> QED
      BY <2>3, <2>4
<1>7. CASE NewEnds \/ QuitSaved
  <2>1. Taken(Sync)
      BY <1>7 DEF NewEnds, NewSession, QuitSaved, SaveEnds, Taken
  <2> QED
      BY <2>1, SaveIds DEF SaveChange
<1>8. ASSUME NEW s \in Sessions, ResumeCommand(s) \/ \E saved \in BOOLEAN : RecoverCommand(s, saved)
      PROVE  SaveChange
  <2>1. Rebuilt(s)
      BY <1>8 DEF ResumeCommand, RecoverCommand, Resumed, Switch, Rebuilt
  <2> QED
      BY <2>1 DEF SaveChange
<1>9. CASE Engine
    BY <1>9 DEF Engine, ToolText, ToolFinishes, BatchAppended, idle, disk, SaveChange, Quiet
<1>10. CASE RecoveryScans \/ FlushWAL
    BY <1>10 DEF RecoveryScans, FlushWAL, disk, SaveChange, Quiet
<1>11. CASE RecoveryRemoves
  <2>1. Taken(Rec)
      BY <1>11 DEF RecoveryRemoves, Taken
  <2> QED
      BY <2>1, SaveIds DEF SaveChange
<1>12. ASSUME NEW s \in Sessions, RecoveryReads(s)
       PROVE  SaveChange
  <2>1. wal[s] \in Files
      BY DEF TypeInv, HandleTyped
  <2>2. Parsed(wal[s]) \in Seq(1..MaxMsgs) /\ 0 \in 0..MaxMsgs
      BY <2>1, ParsedKeeps, NothingTyped
  <2>3. CASE Parsed(wal[s]) = <<>>
      BY <1>12, <2>3 DEF RecoveryReads, disk, SaveChange, Quiet
  <2>4. CASE Parsed(wal[s]) # <<>>
    <3>1. Begun(Rec, s, Parsed(wal[s]), 0)
        BY <1>12, <2>4 DEF RecoveryReads, disk, Begun
    <3> QED
        BY <2>2, <3>1, SaveIds DEF SaveChange
  <2> QED
      BY <2>3, <2>4
<1>13. ASSUME NEW s \in Sessions,
              \/ StartFresh(s) \/ StartContinue(s)
              \/ \E saved \in BOOLEAN : StartResume(s, saved)
       PROVE  SaveChange
  <2>1. Rebuilt(s)
      BY <1>13 DEF StartFresh, StartContinue, StartResume, Resumed, Opens, Rebuilt
  <2> QED
      BY <2>1 DEF SaveChange
<1>14. CASE Exit \/ Crash
    BY <1>14 DEF Exit, Crash, SaveChange, Ended
<1>15. CASE \E i \in Saves : SaveStep(i)
    BY <1>15 DEF SaveChange
<1>16. ASSUME NEW i \in BgSaves, SavePosts(i)
       PROVE  SaveChange
  <2>1. Taken(i)
      BY <1>16 DEF SavePosts, disk, Taken
  <2> QED
      BY <2>1, SaveIds DEF SaveChange
<1>17. CASE UNCHANGED vars
    BY <1>17 DEF vars, disk, SaveChange, Quiet
<1> QED
    BY <1>3, <1>4, <1>5, <1>6, <1>7, <1>8, <1>9, <1>10, <1>11, <1>12, <1>13, <1>14, <1>15, <1>16,
       <1>17 DEF Next, UI, Recovery, Start

(***************************************************************************)
(* Steps of a save keep the types.                                         *)
(***************************************************************************)
SaveTyped(v, t, j) ==
    /\ v \in SaveRecord
    /\ v.stage = "none" <=> v = NoSave
    /\ v.sess \in Sessions \/ v = NoSave
    /\ v.at = "tmp" => t[v.sess] # Absent
    /\ v.at = "jsonl" => j[v.sess] # Absent

LEMMA SavesTypedIs ==
    SavesTyped <=> /\ jsonl \in [Sessions -> Files] /\ tmp \in [Sessions -> Files]
                   /\ saves \in [Saves -> SaveRecord] /\ results \subseteq ResultRecord
                   /\ \A i \in Saves : SaveTyped(saves[i], tmp, jsonl)
    BY DEF SavesTyped, SaveTyped

LEMMA OverlayTyped ==
    ASSUME NEW old \in Files, old # Absent, NEW m \in Seq(1..MaxMsgs)
    PROVE  /\ Overlay(old, <<Meta>> \o m) \in Files /\ Overlay(old, <<Meta>> \o m) # Absent
           /\ old = <<>> => Overlay(old, <<Meta>> \o m) = <<Meta>> \o m
<1> DEFINE new == <<Meta>> \o m
<1>1. /\ new \in Seq(0..MaxMsgs) /\ Len(new) \in Nat /\ old \in Seq(0..MaxMsgs) /\ Len(old) \in Nat
      /\ new \in Files /\ new # Absent
    BY SavedLines, LenProperties DEF Files
<1> HIDE DEF new
<1>2. CASE Len(new) >= Len(old)
  <2>1. Overlay(old, new) = new
      BY <1>2 DEF Overlay
  <2> QED
      BY <1>1, <2>1 DEF new
<1>3. CASE Len(new) < Len(old)
  <2> DEFINE rest == SubSeq(old, Len(new) + 1, Len(old))
  <2>1. \A k \in (Len(new) + 1)..Len(old) : old[k] \in 0..MaxMsgs
    <3>1. \A k \in (Len(new) + 1)..Len(old) : k \in 1..Len(old)
        BY <1>1
    <3> QED
        BY <1>1, <3>1, ElementOfSeq
  <2>2. rest \in Seq(0..MaxMsgs)
      BY <1>1, <2>1, SubSeqProperties
  <2> HIDE DEF rest
  <2>3. new \o rest \in Seq(0..MaxMsgs)
      BY <1>1, <2>2, ConcatProperties
  <2>4. Overlay(old, new) = new \o rest
      BY <1>1, <1>3 DEF Overlay, rest
  <2>5. Overlay(old, new) \in Files /\ Overlay(old, new) # Absent
      BY <2>3, <2>4, FileIsLines
  <2>6. old # <<>>
      BY <1>1, <1>3, NothingTyped
  <2> QED
      BY <2>5, <2>6 DEF new
<1>4. Len(new) >= Len(old) \/ Len(new) < Len(old)
    BY <1>1
<1> QED
    BY <1>2, <1>3, <1>4

LEMMA StepTyped ==
    ASSUME SavesTyped, NEW i \in Saves, SaveStep(i)
    PROVE  SavesTyped'
<1> DEFINE s == saves[i].sess
<1>1. /\ jsonl \in [Sessions -> Files] /\ tmp \in [Sessions -> Files]
      /\ saves \in [Saves -> SaveRecord] /\ results \subseteq ResultRecord
      /\ \A j \in Saves : SaveTyped(saves[j], tmp, jsonl)
    BY SavesTypedIs
<1>2. s \in Sessions /\ saves[i].msgs \in Seq(1..MaxMsgs) /\ results' = results
  <2>1. saves[i].stage # "none" /\ results' = results
      BY DEF SaveStep, SaveOpens, SaveWrites, SaveRenames, SaveFails
  <2> QED
      BY <1>1, <2>1 DEF SaveTyped, SaveRecord
<1>3. \A j \in Saves : saves[j] \in SaveRecord
    BY <1>1
<1> HIDE DEF s
<1>4. SUFFICES /\ jsonl' \in [Sessions -> Files] /\ tmp' \in [Sessions -> Files]
               /\ saves' \in [Saves -> SaveRecord]
               /\ \A j \in Saves : SaveTyped(saves'[j], tmp', jsonl')
    BY <1>1, <1>2 DEF SavesTyped, SaveTyped
<1>5. CASE SaveOpens(i)
  <2>1. /\ saves[i].stage = "ready" /\ tmp' = [tmp EXCEPT ![s] = <<>>] /\ jsonl' = jsonl
        /\ saves' = [saves EXCEPT ![i].stage = "opened", ![i].at = "tmp"]
      BY <1>5 DEF SaveOpens, s
  <2>2. tmp' \in [Sessions -> Files] /\ \A t \in Sessions : tmp[t] # Absent => tmp'[t] # Absent
      BY <1>1, <2>1, EmptyFiles
  <2>3. ASSUME NEW j \in Saves, j # i PROVE saves'[j] = saves[j]
      BY <1>1, <2>1, <2>3
  <2>4. /\ saves'[i] \in SaveRecord /\ saves'[i].stage = "opened" /\ saves'[i].sess = s
        /\ saves'[i].at = "tmp" /\ tmp'[s] # Absent
      BY <1>1, <1>2, <1>3, <2>1, EmptyFiles DEF SaveRecord, s
  <2>5. saves' \in [Saves -> SaveRecord]
      BY <1>1, <2>1, <2>3, <2>4
  <2>6. ASSUME NEW j \in Saves PROVE SaveTyped(saves'[j], tmp', jsonl')
    <3>1. CASE j = i
        BY <1>2, <2>4, <3>1, NoSaveTyped DEF SaveTyped
    <3>2. CASE j # i
      <4>1. SaveTyped(saves[j], tmp, jsonl) /\ saves'[j] = saves[j]
          BY <1>1, <2>3, <3>2
      <4> QED
          BY <2>1, <2>2, <4>1, NoSaveTyped DEF SaveTyped
    <3> QED
        BY <3>1, <3>2
  <2> QED
      BY <1>1, <2>1, <2>2, <2>5, <2>6
<1>6. CASE SaveWrites(i)
  <2> DEFINE new == <<Meta>> \o saves[i].msgs
  <2>1. /\ saves[i].stage = "opened"
        /\ saves' = [saves EXCEPT ![i].stage = "written"]
        /\ tmp' = IF saves[i].at = "tmp" THEN [tmp EXCEPT ![s] = Overlay(tmp[s], new)] ELSE tmp
        /\ jsonl' = IF saves[i].at = "jsonl" THEN [jsonl EXCEPT ![s] = Overlay(jsonl[s], new)] ELSE jsonl
      BY <1>6 DEF SaveWrites, s
  <2>2. /\ saves[i].at = "tmp" => Overlay(tmp[s], new) \in Files /\ Overlay(tmp[s], new) # Absent
        /\ saves[i].at = "jsonl" => Overlay(jsonl[s], new) \in Files /\ Overlay(jsonl[s], new) # Absent
    <3>1. /\ tmp[s] \in Files /\ jsonl[s] \in Files
          /\ saves[i].at = "tmp" => tmp[s] # Absent
          /\ saves[i].at = "jsonl" => jsonl[s] # Absent
        BY <1>1, <1>2 DEF SaveTyped, s
    <3> QED
        BY <1>2, <3>1, OverlayTyped
  <2> HIDE DEF new
  <2>3. /\ tmp' \in [Sessions -> Files] /\ jsonl' \in [Sessions -> Files]
        /\ \A t \in Sessions : /\ tmp[t] # Absent => tmp'[t] # Absent
                               /\ jsonl[t] # Absent => jsonl'[t] # Absent
      BY <1>1, <2>1, <2>2
  <2>4. ASSUME NEW j \in Saves, j # i PROVE saves'[j] = saves[j]
      BY <1>1, <2>1, <2>4
  <2>5. /\ saves'[i] \in SaveRecord /\ saves'[i].stage = "written" /\ saves'[i].sess = s
        /\ saves'[i].at = saves[i].at
      BY <1>1, <1>2, <1>3, <2>1 DEF SaveRecord, s
  <2>6. saves' \in [Saves -> SaveRecord]
      BY <1>1, <2>1, <2>4, <2>5
  <2>7. ASSUME NEW j \in Saves PROVE SaveTyped(saves'[j], tmp', jsonl')
    <3>1. SaveTyped(saves[j], tmp, jsonl)
        BY <1>1
    <3>2. CASE j = i
        BY <1>2, <2>3, <2>5, <3>1, <3>2, NoSaveTyped DEF SaveTyped, s
    <3>3. CASE j # i
        BY <2>3, <2>4, <3>1, <3>3, NoSaveTyped DEF SaveTyped
    <3> QED
        BY <3>2, <3>3
  <2> QED
      BY <2>3, <2>6, <2>7
<1>7. ASSUME SaveRenames(i), tmp[s] # Absent
      PROVE  SavesTyped'
  <2>1. /\ jsonl' = [jsonl EXCEPT ![s] = tmp[s]] /\ tmp' = [tmp EXCEPT ![s] = Absent]
        /\ saves' = [MovedOnto(s) EXCEPT ![i].stage = "ok"]
      BY <1>7 DEF SaveRenames, s
  <2>2. /\ tmp' \in [Sessions -> Files] /\ jsonl' \in [Sessions -> Files]
        /\ jsonl'[s] # Absent
        /\ \A t \in Sessions : t # s => tmp'[t] = tmp[t] /\ jsonl'[t] = jsonl[t]
      BY <1>1, <1>2, <1>7, <2>1, EmptyFiles
  <2>3. ASSUME NEW j \in Saves, saves[j].sess # s \/ saves[j].at = "gone", j # i
        PROVE  saves'[j] = saves[j]
      BY <2>1, <2>3 DEF MovedOnto
  <2>4. ASSUME NEW j \in Saves, saves[j].sess = s, saves[j].at # "gone", j # i
        PROVE  saves'[j] = [saves[j] EXCEPT !.at = IF saves[j].at = "tmp" THEN "jsonl" ELSE "gone"]
      BY <2>1, <2>4 DEF MovedOnto
  <2>5. /\ saves'[i] \in SaveRecord /\ saves'[i].stage = "ok" /\ saves'[i].sess = s
        /\ saves'[i].at \in {"jsonl", "gone"}
    <3>1. MovedOnto(s)[i] \in SaveRecord /\ MovedOnto(s)[i].sess = s /\ MovedOnto(s)[i].at \in {"jsonl", "gone"}
        BY <1>3 DEF MovedOnto, SaveRecord, s
    <3>2. saves'[i] = [MovedOnto(s)[i] EXCEPT !.stage = "ok"]
        BY <2>1 DEF MovedOnto
    <3> QED
        BY <3>1, <3>2 DEF SaveRecord
  <2>6. ASSUME NEW j \in Saves
        PROVE  saves'[j] \in SaveRecord /\ SaveTyped(saves'[j], tmp', jsonl')
    <3>1. SaveTyped(saves[j], tmp, jsonl)
        BY <1>1
    <3>2. CASE j = i
        BY <1>2, <2>2, <2>5, <3>2, NoSaveTyped DEF SaveTyped
    <3>3. CASE j # i /\ (saves[j].sess # s \/ saves[j].at = "gone")
      <4>1. saves'[j] = saves[j]
          BY <2>3, <3>3
      <4>2. saves[j].sess # s => saves[j] = NoSave \/ (/\ tmp'[saves[j].sess] = tmp[saves[j].sess]
                                                       /\ jsonl'[saves[j].sess] = jsonl[saves[j].sess])
          BY <2>2, <3>1 DEF SaveTyped
      <4> QED
          BY <3>1, <3>3, <4>1, <4>2, NoSaveTyped DEF SaveTyped
    <3>4. CASE j # i /\ saves[j].sess = s /\ saves[j].at # "gone"
      <4>1. saves[j] \in SaveRecord /\ saves[j].stage # "none"
          BY <3>1, <3>4, NoSaveTyped DEF SaveTyped
      <4>2. saves'[j] = [saves[j] EXCEPT !.at = IF saves[j].at = "tmp" THEN "jsonl" ELSE "gone"]
          BY <2>4, <3>4
      <4>3. /\ saves'[j] \in SaveRecord /\ saves'[j].stage # "none" /\ saves'[j].sess = s
            /\ saves'[j].at \in {"jsonl", "gone"}
          BY <3>4, <4>1, <4>2 DEF SaveRecord
      <4> QED
          BY <1>2, <2>2, <4>3, NoSaveTyped DEF SaveTyped
    <3> QED
        BY <3>2, <3>3, <3>4
  <2>7. saves' \in [Saves -> SaveRecord]
    <3>1. saves' = [j \in Saves |-> saves'[j]]
        BY <2>1 DEF MovedOnto
    <3> QED
        BY <2>6, <3>1
  <2> QED
      BY <1>1, <1>2, <2>2, <2>6, <2>7 DEF SavesTyped, SaveTyped
<1>8. CASE SaveRenames(i) /\ tmp[s] = Absent
  <2>1. UNCHANGED <<jsonl, tmp>> /\ saves' = [saves EXCEPT ![i].stage = "err"]
      BY <1>8 DEF SaveRenames, s
  <2>2. saves[i].stage = "written"
      BY <1>8 DEF SaveRenames
  <2>3. ASSUME NEW j \in Saves, j # i PROVE saves'[j] = saves[j]
      BY <1>1, <2>1, <2>3
  <2>4. /\ saves'[i] \in SaveRecord /\ saves'[i].stage = "err" /\ saves'[i].sess = s
        /\ saves'[i].at = saves[i].at
      BY <1>1, <1>3, <2>1 DEF SaveRecord, s
  <2>5. saves' \in [Saves -> SaveRecord]
      BY <1>1, <2>1, <2>3, <2>4
  <2>6. ASSUME NEW j \in Saves PROVE SaveTyped(saves'[j], tmp', jsonl')
    <3>1. SaveTyped(saves[j], tmp, jsonl)
        BY <1>1
    <3>2. CASE j = i
        BY <1>2, <2>1, <2>4, <3>1, <3>2, NoSaveTyped DEF SaveTyped, s
    <3>3. CASE j # i
        BY <2>1, <2>3, <3>1, <3>3 DEF SaveTyped
    <3> QED
        BY <3>2, <3>3
  <2> QED
      BY <1>1, <2>1, <2>5, <2>6
<1>9. CASE SaveFails(i)
  <2>1. /\ jsonl' = jsonl /\ tmp' = [tmp EXCEPT ![s] = Absent]
        /\ saves' = [Retarget(s, "tmp", "gone") EXCEPT ![i].stage = "err"]
      BY <1>9 DEF SaveFails, s
  <2>2. /\ tmp' \in [Sessions -> Files] /\ \A t \in Sessions : t # s => tmp'[t] = tmp[t]
      BY <1>1, <2>1, EmptyFiles
  <2>3. ASSUME NEW j \in Saves, j # i, saves[j].sess # s \/ saves[j].at # "tmp"
        PROVE  saves'[j] = saves[j]
      BY <2>1, <2>3 DEF Retarget
  <2>4. ASSUME NEW j \in Saves, j # i, saves[j].sess = s, saves[j].at = "tmp"
        PROVE  saves'[j] = [saves[j] EXCEPT !.at = "gone"]
      BY <2>1, <2>4 DEF Retarget
  <2>5. /\ saves'[i] \in SaveRecord /\ saves'[i].stage = "err" /\ saves'[i].sess = s
        /\ saves'[i].at \in {saves[i].at, "gone"} \ {"tmp"}
    <3>1. /\ Retarget(s, "tmp", "gone")[i] \in SaveRecord /\ Retarget(s, "tmp", "gone")[i].sess = s
          /\ Retarget(s, "tmp", "gone")[i].at \in {saves[i].at, "gone"} \ {"tmp"}
        BY <1>3 DEF Retarget, SaveRecord, s
    <3>2. saves'[i] = [Retarget(s, "tmp", "gone")[i] EXCEPT !.stage = "err"]
        BY <2>1 DEF Retarget
    <3> QED
        BY <3>1, <3>2 DEF SaveRecord
  <2>6. ASSUME NEW j \in Saves
        PROVE  saves'[j] \in SaveRecord /\ SaveTyped(saves'[j], tmp', jsonl')
    <3>1. SaveTyped(saves[j], tmp, jsonl)
        BY <1>1
    <3>2. CASE j = i
        BY <1>2, <2>1, <2>5, <3>1, <3>2, NoSaveTyped DEF SaveTyped, s
    <3>3. CASE j # i /\ (saves[j].sess # s \/ saves[j].at # "tmp")
      <4>1. saves'[j] = saves[j]
          BY <2>3, <3>3
      <4>2. saves[j].sess # s => saves[j] = NoSave \/ tmp'[saves[j].sess] = tmp[saves[j].sess]
          BY <2>2, <3>1 DEF SaveTyped
      <4> QED
          BY <2>1, <3>1, <3>3, <4>1, <4>2, NoSaveTyped DEF SaveTyped
    <3>4. CASE j # i /\ saves[j].sess = s /\ saves[j].at = "tmp"
      <4>1. saves[j] \in SaveRecord /\ saves[j].stage # "none"
          BY <3>1, <3>4, NoSaveTyped DEF SaveTyped
      <4>2. saves'[j] = [saves[j] EXCEPT !.at = "gone"]
          BY <2>4, <3>4
      <4>3. /\ saves'[j] \in SaveRecord /\ saves'[j].stage # "none" /\ saves'[j].sess = s
            /\ saves'[j].at = "gone"
          BY <3>4, <4>1, <4>2 DEF SaveRecord
      <4> QED
          BY <1>2, <4>3, NoSaveTyped DEF SaveTyped
    <3> QED
        BY <3>2, <3>3, <3>4
  <2>7. saves' \in [Saves -> SaveRecord]
    <3>1. saves' = [j \in Saves |-> saves'[j]]
        BY <2>1 DEF Retarget
    <3> QED
        BY <2>6, <3>1
  <2> QED
      BY <1>1, <2>1, <2>2, <2>6, <2>7
<1> QED
    BY <1>1, <1>2, <1>5, <1>6, <1>7, <1>8, <1>9 DEF SaveStep, SavesTyped, SaveTyped

LEMMA SavesNext ==
    ASSUME TypeInv, [Next]_vars
    PROVE  SavesTyped'
<1>1. /\ jsonl \in [Sessions -> Files] /\ tmp \in [Sessions -> Files]
      /\ saves \in [Saves -> SaveRecord] /\ results \subseteq ResultRecord
      /\ \A j \in Saves : SaveTyped(saves[j], tmp, jsonl)
    BY SavesTypedIs DEF TypeInv
<1>2. CASE Quiet
    BY <1>1, <1>2 DEF Quiet, SavesTyped, SaveTyped
<1>3. ASSUME NEW i \in Saves, NEW s \in Sessions, NEW m \in Seq(1..MaxMsgs), NEW q \in 0..MaxMsgs,
             Begun(i, s, m, q)
      PROVE  SavesTyped'
  <2>1. /\ saves' = [saves EXCEPT ![i] = NewSave(s, m, q)] /\ UNCHANGED <<jsonl, tmp, results>>
      BY <1>3 DEF Begun
  <2>2. SaveTyped(NewSave(s, m, q), tmp, jsonl)
      BY NoSaveTyped DEF NewSave, SaveTyped, SaveRecord
  <2>3. saves' \in [Saves -> SaveRecord] /\ \A j \in Saves : SaveTyped(saves'[j], tmp, jsonl)
      BY <1>1, <2>1, <2>2 DEF SaveTyped
  <2> QED
      BY <1>1, <2>1, <2>3 DEF SavesTyped, SaveTyped
<1>4. ASSUME NEW i \in Saves, Taken(i)
      PROVE  SavesTyped'
  <2>1. saves' = [saves EXCEPT ![i] = NoSave] /\ UNCHANGED <<jsonl, tmp>>
      BY <1>4 DEF Taken
  <2>2. SaveTyped(NoSave, tmp, jsonl)
      BY NoSaveTyped DEF SaveTyped
  <2>3. saves' \in [Saves -> SaveRecord] /\ \A j \in Saves : SaveTyped(saves'[j], tmp, jsonl)
      BY <1>1, <2>1, <2>2 DEF SaveTyped
  <2>4. results' \subseteq ResultRecord
    <3>1. CASE results' \subseteq results
        BY <1>1, <3>1
    <3>2. CASE SavePosts(i)
      <4>1. saves[i].sess \in Sessions /\ saves[i].seq \in 0..MaxMsgs
          BY <1>1, <3>2, NoSaveTyped DEF SavePosts, Finished, SaveTyped, SaveRecord
      <4> DEFINE ok == saves[i].stage = "ok"
      <4>2. ok \in BOOLEAN
          OBVIOUS
      <4>3. results' = results \cup {[sess |-> saves[i].sess, seq |-> saves[i].seq, ok |-> ok]}
          BY <3>2 DEF SavePosts
      <4> HIDE DEF ok
      <4> QED
          BY <1>1, <4>1, <4>2, <4>3 DEF ResultRecord
    <3> QED
        BY <1>4, <3>1, <3>2 DEF Taken
  <2> QED
      BY <1>1, <2>1, <2>3, <2>4 DEF SavesTyped, SaveTyped
<1>5. ASSUME NEW s \in Sessions, Rebuilt(s)
      PROVE  SavesTyped'
  <2>1. UNCHANGED <<tmp, saves, results>>
      BY <1>5 DEF Rebuilt
  <2>2. /\ jsonl' \in [Sessions -> Files]
        /\ \A t \in Sessions : jsonl[t] # Absent => jsonl'[t] # Absent
    <3>1. msgs' \in Seq(1..MaxMsgs)
        BY ChatNext DEF ChatTyped
    <3>2. <<Meta>> \o msgs' \in Files /\ <<Meta>> \o msgs' # Absent
        BY <3>1, SavedLines
    <3> QED
        BY <1>1, <1>5, <3>2 DEF Rebuilt
  <2>3. \A j \in Saves : SaveTyped(saves[j], tmp, jsonl')
      BY <1>1, <2>2, NoSaveTyped DEF SaveTyped
  <2> QED
      BY <1>1, <2>1, <2>2, <2>3 DEF SavesTyped, SaveTyped
<1>6. CASE Ended
  <2>1. /\ jsonl' = jsonl /\ tmp' = [s \in Sessions |-> Absent]
        /\ saves' = [i \in Saves |-> NoSave] /\ results' = {}
      BY <1>6 DEF Ended, ProcessEnds
  <2>2. \A i \in Saves : saves'[i] = NoSave
      BY <2>1
  <2>3. tmp' \in [Sessions -> Files] /\ saves' \in [Saves -> SaveRecord]
      BY <2>1, EmptyFiles, NoSaveTyped
  <2> QED
      BY <1>1, <2>1, <2>2, <2>3, NoSaveTyped DEF SavesTyped, SaveTyped
<1>7. ASSUME NEW i \in Saves, SaveStep(i)
      PROVE  SavesTyped'
    BY <1>7, StepTyped DEF TypeInv
<1> QED
    BY <1>2, <1>3, <1>4, <1>5, <1>6, <1>7, SaveChanges DEF SaveChange

LEMMA TypeNext == TypeInv /\ [Next]_vars => TypeInv'
    BY HandleNext, CountsNext, ChatNext, DownNext, SavesNext, FlawsNext DEF TypeInv

(***************************************************************************)
(* Whatever users do and the disk refuses, in every history: the files     *)
(* hold lines, the saves in flight belong to sessions, and the number that *)
(* tells a stale save result from a fresh one counts logged messages.      *)
(***************************************************************************)
THEOREM TypeCorrect == Spec => []TypeOK
<1>1. Init => TypeInv
    BY TypeInit
<1>2. TypeInv /\ [Next]_vars => TypeInv'
    BY TypeNext
<1>3. TypeInv => TypeOK
    BY TypeIsEnough
<1> QED
    BY <1>1, <1>2, <1>3, PTL DEF Spec

-----------------------------------------------------------------------------
(***************************************************************************)
(* Saves that do not clash.  While at most one save of a session is in     *)
(* flight, the temporary file holds what that save has written, and the    *)
(* rename replaces the session file by the whole of it.                    *)
(***************************************************************************)
InFlight(v) == v.stage \in {"ready", "opened", "written"}

SavesApart ==
    \A i, j \in Saves :
        InFlight(saves[i]) /\ InFlight(saves[j]) /\ saves[i].sess = saves[j].sess
            => i = j \/ saves[i].sess \in clashed

SaveHolds(v, t) ==
    /\ v.stage = "ready" => v.at = "gone"
    /\ v.stage = "opened" => v.at = "tmp" /\ t[v.sess] = <<>>
    /\ v.stage = "written" => v.at = "tmp" /\ t[v.sess] = <<Meta>> \o v.msgs

SavesHold == \A i \in Saves : saves[i].sess \notin clashed => SaveHolds(saves[i], tmp)

Whole(f) == f # Absent => Lines(f) # <<>> /\ Head(f) = Meta

SaveInv ==
    /\ SavesApart
    /\ SavesHold
    /\ \A s \in Sessions \ clashed : Whole(jsonl[s])

\* A step of the save i is about its session only, and changes no snapshot.
Steps(i) ==
    /\ saves[i].sess \in Sessions /\ saves[i].msgs \in Seq(1..MaxMsgs)
    /\ InFlight(saves[i]) /\ saves'[i].stage # "none"
    /\ \A j \in Saves : /\ saves'[j].sess = saves[j].sess /\ saves'[j].msgs = saves[j].msgs
                        /\ saves'[j].seq = saves[j].seq
                        /\ j # i => saves'[j].stage = saves[j].stage
                        /\ saves[j].sess # saves[i].sess => saves'[j] = saves[j]
    /\ \A s \in Sessions : s # saves[i].sess => tmp'[s] = tmp[s] /\ jsonl'[s] = jsonl[s]
    /\ UNCHANGED <<unsaving, results>>

\* ... and is as meant unless another save of the session runs.
Moves(i) ==
    /\ SaveHolds(saves'[i], tmp')
    /\ \/ jsonl' = jsonl /\ saves'[i].stage # "ok"
       \/ jsonl' = [jsonl EXCEPT ![saves[i].sess] = <<Meta>> \o saves[i].msgs]

LEMMA StepSteps ==
    ASSUME SavesTyped, NEW i \in Saves, SaveStep(i)
    PROVE  Steps(i)
<1> DEFINE s == saves[i].sess
<1>1. /\ jsonl \in [Sessions -> Files] /\ tmp \in [Sessions -> Files]
      /\ saves \in [Saves -> SaveRecord]
      /\ \A j \in Saves : saves[j] \in SaveRecord /\ SaveTyped(saves[j], tmp, jsonl)
    BY SavesTypedIs
<1>2. InFlight(saves[i]) /\ saves[i] \in SaveRecord
    BY <1>1 DEF SaveStep, SaveOpens, SaveWrites, SaveRenames, SaveFails, InFlight
<1>3. s \in Sessions /\ saves[i].msgs \in Seq(1..MaxMsgs)
    BY <1>1, <1>2, NoSaveTyped DEF SaveTyped, SaveRecord, InFlight
<1>4. UNCHANGED <<unsaving, results>>
    BY DEF SaveStep, SaveOpens, SaveWrites, SaveRenames, SaveFails, counts
<1>5. \A t \in Sessions : t # s => tmp'[t] = tmp[t] /\ jsonl'[t] = jsonl[t]
    BY <1>1 DEF SaveStep, SaveOpens, SaveWrites, SaveRenames, SaveFails
<1>6. ASSUME NEW j \in Saves
      PROVE  /\ saves'[j].sess = saves[j].sess /\ saves'[j].msgs = saves[j].msgs
             /\ saves'[j].seq = saves[j].seq
             /\ j # i => saves'[j].stage = saves[j].stage
             /\ saves[j].sess # saves[i].sess => saves'[j] = saves[j]
             /\ saves'[i].stage # "none"
  <2> DEFINE v == saves[j]
  <2>1. v \in SaveRecord
      BY <1>1
  <2>2. CASE SaveOpens(i) \/ SaveWrites(i) \/ (SaveRenames(i) /\ tmp[s] = Absent)
    <3>1. /\ \A k \in Saves : k # i => saves'[k] = saves[k]
          /\ \/ saves'[i] = [saves[i] EXCEPT !.stage = "opened", !.at = "tmp"]
             \/ saves'[i] = [saves[i] EXCEPT !.stage = "written"]
             \/ saves'[i] = [saves[i] EXCEPT !.stage = "err"]
        BY <1>1, <2>2 DEF SaveOpens, SaveWrites, SaveRenames
    <3>2. /\ saves'[i].sess = saves[i].sess /\ saves'[i].msgs = saves[i].msgs
          /\ saves'[i].seq = saves[i].seq /\ saves'[i].stage # "none"
        BY <1>2, <3>1 DEF SaveRecord
    <3> QED
        BY <3>1, <3>2
  <2>3. CASE SaveRenames(i) /\ tmp[s] # Absent
    <3>1. saves' = [MovedOnto(s) EXCEPT ![i].stage = "ok"]
        BY <2>3 DEF SaveRenames
    <3>2. /\ MovedOnto(s) \in [Saves -> SaveRecord]
          /\ MovedOnto(s)[j].sess = v.sess /\ MovedOnto(s)[j].msgs = v.msgs
          /\ MovedOnto(s)[j].seq = v.seq /\ MovedOnto(s)[j].stage = v.stage
          /\ v.sess # s => MovedOnto(s)[j] = v
        BY <1>1, <2>1 DEF MovedOnto, SaveRecord
    <3> HIDE DEF s
    <3>3. j # i => saves'[j] = MovedOnto(s)[j]
        BY <3>1, <3>2
    <3>4. saves'[i] = [MovedOnto(s)[i] EXCEPT !.stage = "ok"] /\ MovedOnto(s)[i] \in SaveRecord
        BY <3>1, <3>2
    <3> QED
        BY <2>1, <3>2, <3>3, <3>4 DEF s, SaveRecord
  <2>4. CASE SaveFails(i)
    <3>1. saves' = [Retarget(s, "tmp", "gone") EXCEPT ![i].stage = "err"]
        BY <2>4 DEF SaveFails
    <3> DEFINE g == Retarget(s, "tmp", "gone")
    <3>2. /\ g \in [Saves -> SaveRecord]
          /\ g[j].sess = v.sess /\ g[j].msgs = v.msgs /\ g[j].seq = v.seq /\ g[j].stage = v.stage
          /\ v.sess # s => g[j] = v
        BY <1>1, <2>1 DEF Retarget, SaveRecord
    <3> HIDE DEF s, g
    <3>3. j # i => saves'[j] = g[j]
        BY <3>1, <3>2 DEF g
    <3>4. saves'[i] = [g[i] EXCEPT !.stage = "err"] /\ g[i] \in SaveRecord
        BY <3>1, <3>2 DEF g
    <3> QED
        BY <2>1, <3>2, <3>3, <3>4 DEF s, SaveRecord
  <2> QED
      BY <2>2, <2>3, <2>4 DEF SaveStep
<1> QED
    BY <1>2, <1>3, <1>4, <1>5, <1>6 DEF Steps

LEMMA StepMoves ==
    ASSUME SavesTyped, SavesHold, NEW i \in Saves, SaveStep(i), saves[i].sess \notin clashed
    PROVE  Moves(i)
<1> DEFINE s == saves[i].sess
           m == saves[i].msgs
<1>1. /\ jsonl \in [Sessions -> Files] /\ tmp \in [Sessions -> Files]
      /\ saves \in [Saves -> SaveRecord] /\ saves[i] \in SaveRecord
    BY SavesTypedIs
<1>2. Steps(i)
    BY StepSteps
<1>3. s \in Sessions /\ m \in Seq(1..MaxMsgs) /\ saves'[i].sess = s /\ saves'[i].msgs = m
    BY <1>2 DEF Steps
<1>4. SaveHolds(saves[i], tmp)
    BY DEF SavesHold
<1>5. CASE SaveOpens(i)
  <2>1. /\ saves'[i] = [saves[i] EXCEPT !.stage = "opened", !.at = "tmp"]
        /\ jsonl' = jsonl /\ tmp'[s] = <<>>
      BY <1>1, <1>3, <1>5 DEF SaveOpens
  <2>2. saves'[i].stage = "opened" /\ saves'[i].at = "tmp"
      BY <1>1, <2>1 DEF SaveRecord
  <2> QED
      BY <1>3, <2>1, <2>2 DEF Moves, SaveHolds
<1>6. CASE SaveWrites(i)
  <2>1. saves[i].at = "tmp" /\ tmp[s] = <<>> /\ tmp[s] \in Files
      BY <1>1, <1>3, <1>4, <1>6 DEF SaveWrites, SaveHolds
  <2>2. Overlay(tmp[s], <<Meta>> \o m) = <<Meta>> \o m
      BY <1>3, <2>1, OverlayTyped, EmptyFiles
  <2>3. /\ saves'[i] = [saves[i] EXCEPT !.stage = "written"]
        /\ jsonl' = jsonl /\ tmp'[s] = <<Meta>> \o m
      BY <1>1, <1>3, <1>6, <2>1, <2>2 DEF SaveWrites
  <2>4. saves'[i].stage = "written" /\ saves'[i].at = "tmp"
      BY <1>1, <2>1, <2>3 DEF SaveRecord
  <2> QED
      BY <1>3, <2>3, <2>4 DEF Moves, SaveHolds
<1>7. CASE SaveRenames(i)
  <2>1. tmp[s] = <<Meta>> \o m /\ tmp[s] # Absent
      BY <1>3, <1>4, <1>7, SavedLines DEF SaveRenames, SaveHolds
  <2>2. /\ jsonl' = [jsonl EXCEPT ![s] = <<Meta>> \o m]
        /\ saves' = [MovedOnto(s) EXCEPT ![i].stage = "ok"]
      BY <1>7, <2>1 DEF SaveRenames
  <2>3. saves'[i].stage = "ok"
    <3>1. MovedOnto(s)[i] \in SaveRecord /\ saves'[i] = [MovedOnto(s)[i] EXCEPT !.stage = "ok"]
        BY <1>1, <2>2 DEF MovedOnto, SaveRecord
    <3> QED
        BY <3>1 DEF SaveRecord
  <2> QED
      BY <2>2, <2>3 DEF Moves, SaveHolds
<1>8. CASE SaveFails(i)
  <2>1. jsonl' = jsonl /\ saves' = [Retarget(s, "tmp", "gone") EXCEPT ![i].stage = "err"]
      BY <1>8 DEF SaveFails
  <2>2. saves'[i].stage = "err"
    <3> DEFINE g == Retarget(s, "tmp", "gone")
    <3>1. g[i] \in SaveRecord /\ saves'[i] = [g[i] EXCEPT !.stage = "err"]
        BY <1>1, <2>1 DEF Retarget, SaveRecord
    <3> QED
        BY <3>1 DEF SaveRecord
  <2> QED
      BY <2>1, <2>2 DEF Moves, SaveHolds
<1> QED
    BY <1>5, <1>6, <1>7, <1>8 DEF SaveStep

LEMMA SaveInit == Init => SaveInv
<1> SUFFICES ASSUME Init PROVE SaveInv
    OBVIOUS
<1>1. \A i \in Saves : saves[i] = NoSave
    BY DEF Init
<1>2. \A s \in Sessions : jsonl[s] = Absent
    BY DEF Init
<1> QED
    BY <1>1, <1>2, NoSaveTyped DEF SaveInv, SavesApart, SavesHold, SaveHolds, InFlight, Whole

LEMMA SaveNext ==
    ASSUME TypeInv, SaveInv, [Next]_vars
    PROVE  SaveInv'
<1>1. /\ jsonl \in [Sessions -> Files] /\ saves \in [Saves -> SaveRecord]
      /\ clashed \subseteq clashed'
    BY FlawsNext DEF TypeInv, SavesTyped
<1>2. ASSUME UNCHANGED saves, UNCHANGED tmp,
             \A s \in Sessions \ clashed' : jsonl'[s] = jsonl[s] \/ Whole(jsonl'[s])
      PROVE  SaveInv'
    BY <1>1, <1>2 DEF SaveInv, SavesApart, SavesHold
<1>3. CASE Quiet
    BY <1>2, <1>3 DEF Quiet
<1>4. ASSUME NEW i \in Saves, NEW s \in Sessions, NEW m \in Seq(1..MaxMsgs), NEW q \in 0..MaxMsgs,
             Begun(i, s, m, q)
      PROVE  SaveInv'
  <2>1. /\ saves' = [saves EXCEPT ![i] = NewSave(s, m, q)] /\ UNCHANGED <<jsonl, tmp>>
        /\ clashed' = Clashed(s)
      BY <1>4 DEF Begun
  <2>2. /\ saves'[i] = NewSave(s, m, q) /\ \A j \in Saves : j # i => saves'[j] = saves[j]
      BY <1>1, <2>1
  <2>3. NewSave(s, m, q).sess = s /\ NewSave(s, m, q).stage = "ready" /\ NewSave(s, m, q).at = "gone"
      BY DEF NewSave
  <2>4. \A j \in Saves : InFlight(saves[j]) /\ saves[j].sess = s => s \in clashed'
      BY <2>1 DEF Clashed, Saving, InFlight
  <2>5. SavesApart'
      BY <1>1, <2>2, <2>3, <2>4 DEF SavesApart, SaveInv
  <2>6. SavesHold'
      BY <1>1, <2>1, <2>2, <2>3 DEF SavesHold, SaveHolds, SaveInv
  <2> QED
      BY <1>1, <2>1, <2>5, <2>6 DEF SaveInv
<1>5. ASSUME NEW i \in Saves, Taken(i)
      PROVE  SaveInv'
  <2>1. saves' = [saves EXCEPT ![i] = NoSave] /\ UNCHANGED <<jsonl, tmp>>
      BY <1>5 DEF Taken
  <2>2. saves'[i] = NoSave /\ \A j \in Saves : j # i => saves'[j] = saves[j]
      BY <1>1, <2>1
  <2>3. SavesApart'
      BY <1>1, <2>2, NoSaveTyped DEF SavesApart, SaveInv, InFlight
  <2>4. SavesHold'
      BY <1>1, <2>1, <2>2, NoSaveTyped DEF SavesHold, SaveHolds, SaveInv
  <2> QED
      BY <1>1, <2>1, <2>3, <2>4 DEF SaveInv
<1>6. ASSUME NEW s \in Sessions, Rebuilt(s)
      PROVE  SaveInv'
  <2>1. UNCHANGED <<tmp, saves>> /\ (jsonl' = jsonl \/ jsonl' = [jsonl EXCEPT ![s] = <<Meta>> \o msgs'])
      BY <1>6 DEF Rebuilt
  <2>2. msgs' \in Seq(1..MaxMsgs)
      BY ChatNext DEF ChatTyped
  <2>3. Whole(<<Meta>> \o msgs')
      BY <2>2, SavedLines DEF Whole
  <2> QED
      BY <1>1, <1>2, <2>1, <2>3
<1>7. CASE Ended
  <2>1. jsonl' = jsonl /\ saves' = [i \in Saves |-> NoSave]
      BY <1>7 DEF Ended, ProcessEnds
  <2>2. \A i \in Saves : saves'[i] = NoSave
      BY <2>1
  <2> QED
      BY <1>1, <2>1, <2>2, NoSaveTyped DEF SaveInv, SavesApart, SavesHold, SaveHolds, InFlight
<1>8. ASSUME NEW i \in Saves, SaveStep(i)
      PROVE  SaveInv'
  <2>1. Steps(i) /\ (saves[i].sess \notin clashed => Moves(i)) /\ clashed' = clashed
      BY <1>8, StepSteps, StepMoves DEF TypeInv, SaveInv, Steps, unsaving, flaws
  <2>2. \A j \in Saves : /\ saves'[j].sess = saves[j].sess
                         /\ InFlight(saves'[j]) => InFlight(saves[j])
      BY <2>1 DEF Steps, InFlight
  <2>3. SavesApart'
      BY <2>1, <2>2 DEF SavesApart, SaveInv
  <2>4. ASSUME NEW j \in Saves, saves[j].sess \notin clashed PROVE SaveHolds(saves'[j], tmp')
    <3>1. SaveHolds(saves[j], tmp)
        BY <2>4 DEF SavesHold, SaveInv
    <3>2. CASE j = i
        BY <2>1, <2>4, <3>2 DEF Moves
    <3>3. CASE j # i /\ saves[j].sess = saves[i].sess
      <4>1. ~InFlight(saves'[j])
          BY <2>1, <2>2, <2>4, <3>3 DEF Steps, SavesApart, SaveInv
      <4> QED
          BY <4>1 DEF SaveHolds, InFlight
    <3>4. CASE saves[j].sess # saves[i].sess
      <4>1. saves'[j] = saves[j]
          BY <2>1, <3>4 DEF Steps
      <4>2. InFlight(saves[j]) => saves[j].sess \in Sessions
          BY NoSaveTyped DEF InFlight, TypeInv, SavesTyped
      <4>3. InFlight(saves[j]) => tmp'[saves[j].sess] = tmp[saves[j].sess]
          BY <2>1, <3>4, <4>2 DEF Steps
      <4> QED
          BY <3>1, <4>1, <4>3 DEF SaveHolds, InFlight
    <3> QED
        BY <3>2, <3>3, <3>4
  <2>5. SavesHold'
      BY <2>1, <2>2, <2>4 DEF SavesHold
  <2>6. ASSUME NEW t \in Sessions, t \notin clashed PROVE Whole(jsonl'[t])
    <3>1. Whole(jsonl[t])
        BY <2>6 DEF SaveInv
    <3>2. CASE t # saves[i].sess
        BY <2>1, <3>1, <3>2 DEF Steps
    <3>3. CASE t = saves[i].sess
      <4>1. Whole(<<Meta>> \o saves[i].msgs)
          BY <2>1, SavedLines DEF Whole, Steps
      <4> QED
          BY <1>1, <2>1, <2>6, <3>1, <3>3, <4>1 DEF Moves
    <3> QED
        BY <3>2, <3>3
  <2> QED
      BY <2>1, <2>3, <2>5, <2>6 DEF SaveInv
<1> QED
    BY <1>3, <1>4, <1>5, <1>6, <1>7, <1>8, SaveChanges DEF SaveChange

-----------------------------------------------------------------------------
(***************************************************************************)
(* Order.  The transcript, the batch of tool results that is not in it     *)
(* yet, the results the interface has not handled, the log's buffer, every *)
(* log and every save hold messages in the order of their creation; what   *)
(* waits to be logged is younger than what is buffered, and that is        *)
(* younger than what the logs hold.                                        *)
(***************************************************************************)
LogOrdered(w, b, u, n) ==
    /\ \A s \in Sessions : /\ RisingLog(Lines(w[s])) /\ Recorded(w[s]) \subseteq 1..n
                           /\ Below(Recorded(w[s]), ToSet(b)) /\ Below(Recorded(w[s]), ToSet(u))
    /\ Increasing(b) /\ Increasing(u) /\ Below(ToSet(b), ToSet(u))
    /\ ToSet(b) \subseteq 1..n /\ ToSet(u) \subseteq 1..n

\* g has no more messages than f and has them in their order.
LogSame(f, g) ==
    /\ RisingLog(Lines(f)) => RisingLog(Lines(g))
    /\ Recorded(g) \subseteq Recorded(f)

LEMMA LogSameIs ==
    ASSUME NEW f \in Files
    PROVE  /\ LogSame(f, f) /\ LogSame(f, Absent) /\ LogSame(f, <<>>)
           /\ LogSame(f, Append(Lines(f), Meta)) /\ LogSame(f, Append(Lines(Absent), Meta))
<1>1. RisingLog(<<>>)
    BY DEF RisingLog
<1>2. LogSame(f, f) /\ LogSame(f, Absent) /\ LogSame(f, <<>>)
    BY <1>1, EmptyFiles DEF LogSame
<1>3. ASSUME NEW g \in Files
      PROVE  /\ Lines(Append(Lines(g), Meta)) = Append(Lines(g), Meta)
             /\ Recorded(Append(Lines(g), Meta)) = Recorded(g)
             /\ RisingLog(Lines(g)) => RisingLog(Append(Lines(g), Meta))
  <2>1. Lines(g) \in Seq(0..MaxMsgs) /\ Lines(g) \in Seq(Nat)
      BY LinesOfFile
  <2>2. /\ Append(Lines(g), Meta) \in Seq(0..MaxMsgs)
        /\ ToSet(Append(Lines(g), Meta)) = ToSet(Lines(g)) \cup {Meta}
      BY <2>1, MessagesAreNumbers, ToSetAppend
  <2>3. /\ Lines(Append(Lines(g), Meta)) = Append(Lines(g), Meta)
        /\ Recorded(Append(Lines(g), Meta)) = ToSet(Append(Lines(g), Meta)) \ {Meta}
      BY <2>2, FileIsLines
  <2>4. RisingLog(Lines(g)) => RisingLog(Append(Lines(g), Meta))
      BY <2>1, RisingMeta
  <2> QED
      BY <2>2, <2>3, <2>4 DEF Recorded
<1>4. LogSame(f, Append(Lines(f), Meta))
    BY <1>3 DEF LogSame
<1>5. LogSame(f, Append(Lines(Absent), Meta))
    BY <1>1, <1>3, EmptyFiles DEF LogSame
<1> QED
    BY <1>2, <1>4, <1>5

LEMMA LogShrinks ==
    ASSUME NEW w, NEW b, NEW u, NEW n \in Nat, LogOrdered(w, b, u, n),
           NEW w2, \A s \in Sessions : LogSame(w[s], w2[s]),
           NEW b2 \in {b, <<>>}, NEW u2 \in {u, <<>>}, NEW n2 \in Nat, n <= n2
    PROVE  LogOrdered(w2, b2, u2, n2)
<1>1. ToSet(b2) \subseteq ToSet(b) /\ ToSet(u2) \subseteq ToSet(u)
    BY ToSetShort
<1>2. Increasing(b2) /\ Increasing(u2)
    BY IncreasingShort DEF LogOrdered
<1>3. 1..n \subseteq 1..n2
    OBVIOUS
<1>4. \A s \in Sessions : RisingLog(Lines(w2[s])) /\ Recorded(w2[s]) \subseteq Recorded(w[s])
    BY DEF LogSame, LogOrdered
<1> QED
    BY <1>1, <1>2, <1>3, <1>4 DEF LogOrdered, Below

\* Lines appended to a log.
LEMMA LogExtended ==
    ASSUME NEW f \in Files, NEW b \in Seq(1..MaxMsgs)
    PROVE  /\ Recorded(Lines(f) \o b) = Recorded(f) \cup ToSet(b)
           /\ RisingLog(Lines(f)) /\ Increasing(b) /\ Below(Recorded(f), ToSet(b))
                  => RisingLog(Lines(Lines(f) \o b))
<1> DEFINE l == Lines(f)
<1>1. l \in Seq(0..MaxMsgs) /\ l \in Seq(Nat) /\ b \in Seq(0..MaxMsgs) /\ b \in Seq(Nat)
      /\ ToSet(b) \subseteq 1..MaxMsgs /\ Recorded(f) = ToSet(l) \ {Meta}
    BY LinesOfFile, MessageSeqs DEF Recorded
<1> HIDE DEF l
<1>2. l \o b \in Seq(0..MaxMsgs) /\ ToSet(l \o b) = ToSet(l) \cup ToSet(b)
    BY <1>1, ToSetConcat
<1>3. Lines(l \o b) = l \o b /\ Recorded(l \o b) = ToSet(l \o b) \ {Meta}
    BY <1>2, FileIsLines
<1>4. Recorded(l \o b) = Recorded(f) \cup ToSet(b)
    BY <1>1, <1>2, <1>3, MessagesAreNumbers
<1>5. ASSUME RisingLog(l), Increasing(b), Below(Recorded(f), ToSet(b)) PROVE RisingLog(l \o b)
    BY <1>1, <1>5, RisingJoins
<1> QED
    BY <1>3, <1>4, <1>5 DEF l

LEMMA LogFlushes ==
    ASSUME NEW w \in [Sessions -> Files], NEW b \in Seq(1..MaxMsgs), NEW u, NEW n \in Nat,
           LogOrdered(w, b, u, n), NEW s \in Sessions
    PROVE  LogOrdered([w EXCEPT ![s] = Lines(w[s]) \o b], <<>>, u, n)
<1> DEFINE w2 == [w EXCEPT ![s] = Lines(w[s]) \o b]
<1>1. w2[s] = Lines(w[s]) \o b /\ \A t \in Sessions : t # s => w2[t] = w[t]
    OBVIOUS
<1>2. /\ Recorded(w2[s]) = Recorded(w[s]) \cup ToSet(b) /\ RisingLog(Lines(w2[s]))
    BY <1>1, LogExtended DEF LogOrdered
<1> HIDE DEF w2
<1>3. Increasing(<<>>) /\ ToSet(<<>>) = {}
    BY IncreasingShort, ToSetShort
<1>4. LogOrdered(w2, <<>>, u, n)
    BY <1>1, <1>2, <1>3 DEF LogOrdered, Below
<1> QED
    BY <1>4 DEF w2

\* x is younger than everything in the logs and the buffer.
Above(w, b, x) == Below(ToSet(b), {x}) /\ \A s \in Sessions : Below(Recorded(w[s]), {x})

LEMMA MessageAppended ==
    ASSUME NEW b \in Seq(1..MaxMsgs), NEW x \in 1..MaxMsgs
    PROVE  Append(b, x) \in Seq(1..MaxMsgs) /\ ToSet(Append(b, x)) = ToSet(b) \cup {x}
<1> DEFINE S == 1..MaxMsgs
<1>1. b \in Seq(S) /\ x \in S
    OBVIOUS
<1> HIDE DEF S
<1>2. Append(b, x) \in Seq(S) /\ ToSet(Append(b, x)) = ToSet(b) \cup {x}
    BY <1>1, ToSetAppend
<1> QED
    BY <1>2 DEF S

LEMMA LogBuffers ==
    ASSUME NEW w, NEW b \in Seq(1..MaxMsgs), NEW u, NEW n \in Nat, LogOrdered(w, b, u, n),
           NEW x \in 1..MaxMsgs, x \in 1..n, Above(w, b, x), Below({x}, ToSet(u))
    PROVE  LogOrdered(w, Append(b, x), u, n)
<1>1. b \in Seq(Nat) /\ x \in Nat
    BY MessageSeqs
<1>2. ToSet(Append(b, x)) = ToSet(b) \cup {x}
    BY MessageAppended
<1>3. Increasing(Append(b, x))
    BY <1>1, IncreasingAppend DEF LogOrdered, Above
<1> QED
    BY <1>2, <1>3 DEF LogOrdered, Above, Below

LEMMA LogWrites ==
    ASSUME NEW w \in [Sessions -> Files], NEW u, NEW n \in Nat, LogOrdered(w, <<>>, u, n),
           NEW x \in 1..MaxMsgs, x \in 1..n, Above(w, <<>>, x), Below({x}, ToSet(u)),
           NEW s \in Sessions
    PROVE  LogOrdered([w EXCEPT ![s] = Append(Lines(w[s]), x)], <<>>, u, n)
<1>1. /\ <<x>> \in Seq(1..MaxMsgs) /\ ToSet(<<x>>) = {x} /\ Increasing(<<x>>)
      /\ ToSet(<<>>) = {}
    BY ToSetShort, IncreasingShort
<1>2. Append(Lines(w[s]), x) = Lines(w[s]) \o <<x>>
  <2>1. Lines(w[s]) \in Seq(0..MaxMsgs) /\ x \in 0..MaxMsgs
      BY LinesOfFile, MessagesAreNumbers
  <2> QED
      BY <2>1, AppendIsConcat
<1>3. LogOrdered(w, <<x>>, u, n)
    BY <1>1 DEF LogOrdered, Above, Below
<1> QED
    BY <1>1, <1>2, <1>3, LogFlushes

LEMMA LogAwaits ==
    ASSUME NEW w, NEW b, NEW u \in Seq(1..MaxMsgs), NEW n \in Nat, LogOrdered(w, b, u, n),
           NEW x \in 1..MaxMsgs, x \in 1..n, Above(w, b, x), Below(ToSet(u), {x})
    PROVE  LogOrdered(w, b, Append(u, x), n)
<1>1. u \in Seq(Nat) /\ x \in Nat
    BY MessageSeqs
<1>2. ToSet(Append(u, x)) = ToSet(u) \cup {x}
    BY MessageAppended
<1>3. Increasing(Append(u, x))
    BY <1>1, IncreasingAppend DEF LogOrdered
<1> QED
    BY <1>2, <1>3 DEF LogOrdered, Above, Below

LEMMA LogTakes ==
    ASSUME NEW w, NEW b, NEW u \in Seq(1..MaxMsgs), NEW n \in Nat, LogOrdered(w, b, u, n), u # <<>>
    PROVE  /\ LogOrdered(w, b, Tail(u), n)
           /\ Head(u) \in 1..MaxMsgs /\ Head(u) \in 1..n
           /\ Above(w, b, Head(u)) /\ Below({Head(u)}, ToSet(Tail(u)))
<1>1. Head(u) \in 1..MaxMsgs /\ ToSet(u) = {Head(u)} \cup ToSet(Tail(u))
    BY ToSetTail
<1>2. Increasing(Tail(u)) /\ Below({Head(u)}, ToSet(Tail(u)))
    BY MessageSeqs, IncreasingTail DEF LogOrdered
<1> QED
    BY <1>1, <1>2 DEF LogOrdered, Above, Below

\* Append(x) of the log.
LEMMA LoggedKeepsOrder ==
    ASSUME HandleTyped, cur \in Sessions, NEW u, NEW n \in Nat, LogOrdered(wal, buf, u, n),
           NEW x \in 1..MaxMsgs, x \in 1..n, Above(wal, buf, x), Below({x}, ToSet(u)), Logged(x)
    PROVE  LogOrdered(wal', buf', u, n)
<1> DEFINE s == IF walFor = NoSession THEN cur ELSE walFor
<1>1. s \in Sessions /\ wal \in [Sessions -> Files] /\ buf \in Seq(1..MaxMsgs)
    BY DEF HandleTyped
<1>2. CASE batched
  <2>1. buf' = Append(buf, x) /\ wal' = wal
      BY <1>2 DEF Logged
  <2>2. LogOrdered(wal, Append(buf, x), u, n)
      BY <1>1, LogBuffers
  <2> QED
      BY <2>1, <2>2
<1>3. CASE ~batched
  <2>1. buf = <<>> /\ buf' = buf
      BY <1>3 DEF Logged, HandleTyped
  <2>2. wal' = wal \/ wal' = [wal EXCEPT ![s] = Append(Lines(wal[s]), x)]
      BY <1>3 DEF Logged
  <2> HIDE DEF s
  <2>3. LogOrdered([wal EXCEPT ![s] = Append(Lines(wal[s]), x)], <<>>, u, n)
      BY <1>1, <2>1, LogWrites
  <2> QED
      BY <2>1, <2>2, <2>3
<1> QED
    BY <1>2, <1>3 DEF HandleTyped

LEMMA FlushedKeepsOrder ==
    ASSUME HandleTyped, NEW u, NEW n \in Nat, LogOrdered(wal, buf, u, n)
    PROVE  LogOrdered(FlushedFile, FlushedBuf, u, n) /\ LogOrdered(FlushedFile, <<>>, u, n)
<1>1. wal \in [Sessions -> Files] /\ buf \in Seq(1..MaxMsgs)
    BY DEF HandleTyped
<1>2. LogOrdered(wal, <<>>, u, n)
    BY IncreasingShort, ToSetShort DEF LogOrdered, Below
<1>3. CASE batched /\ walAt = "linked"
  <2>1. walFor \in Sessions
      BY <1>3 DEF HandleTyped
  <2>2. FlushedFile = [wal EXCEPT ![walFor] = Lines(wal[walFor]) \o buf] /\ FlushedBuf = <<>>
      BY <1>3 DEF FlushedFile, FlushedBuf
  <2> QED
      BY <1>1, <2>1, <2>2, LogFlushes
<1>4. CASE ~(batched /\ walAt = "linked")
    BY <1>2, <1>4 DEF FlushedFile, FlushedBuf
<1> QED
    BY <1>3, <1>4

-----------------------------------------------------------------------------
\* What exists stays.
LEMMA CreatedGrows ==
    ASSUME TypeInv, [Next]_vars
    PROVE  /\ Len(created) \in Nat /\ Len(created') \in Nat /\ Len(created) <= Len(created')
           /\ \A k \in 1..Len(created) : created'[k] = created[k]
           /\ created' = created \/ \E n \in {1, 2} : cur \in Sessions /\ Created(n)
<1> USE DEF TypeInv
<1>1. CASE created' = created
    BY <1>1, LenProperties DEF CountsTyped
<1>2. ASSUME NEW n \in 0..2, Create(n), up
      PROVE  /\ Len(created) \in Nat /\ Len(created') \in Nat /\ Len(created) <= Len(created')
             /\ \A k \in 1..Len(created) : created'[k] = created[k]
             /\ created' = created \/ \E k \in {1, 2} : cur \in Sessions /\ Created(k)
  <2>1. cur \in Sessions /\ CountsTyped
      BY <1>2 DEF ChatTyped
  <2>2. Created(n)
      BY <1>2, <2>1, CreateTyped
  <2>3. Len(created) \in Nat
      BY <2>1, LenProperties DEF CountsTyped
  <2>4. CASE n = 0
    <3>1. created' = created \o <<>>
        BY <1>2, <2>4 DEF Create
    <3>2. created' = created
        BY <3>1, <2>1, ConcatEmptySeq DEF CountsTyped
    <3> QED
        BY <3>2, <1>1
  <2>5. CASE n \in {1, 2}
      BY <2>1, <2>2, <2>3, <2>5 DEF Created
  <2> QED
      BY <2>4, <2>5
<1>3. CASE UI
  <2>1. CASE Submit \/ TurnEndsIntoQueued
      BY <1>2, <2>1 DEF Submit, TurnEndsIntoQueued, Answered, UIReady
  <2>2. CASE TurnEnds
      BY <1>2, <2>2 DEF TurnEnds, Answered, UIReady
  <2>3. CASE ToolResult \/ QueuePrompt \/ SaveResult
      BY <1>1, <2>3 DEF ToolResult, QueuePrompt, SaveResult, HandleResult, past
  <2>4. CASE NewBegins \/ NewEnds \/ QuitBegins \/ QuitSaved \/ ExitSaveBegins
      BY <1>1, <2>4 DEF NewBegins, NewEnds, NewSession, QuitBegins, QuitSaved, ExitSaveBegins,
                        SaveBegins, past
  <2>5. CASE Exit
      BY <1>1, <2>5 DEF Exit, ProcessEnds
  <2>6. ASSUME NEW s \in Sessions, ResumeCommand(s) PROVE created' = created
      BY <2>6 DEF ResumeCommand, Switch, past
  <2>7. ASSUME NEW s \in Sessions, NEW saved \in BOOLEAN, RecoverCommand(s, saved)
        PROVE  created' = created
      BY <2>7 DEF RecoverCommand, Switch, past
  <2> QED
      BY <1>1, <1>3, <2>1, <2>2, <2>3, <2>4, <2>5, <2>6, <2>7 DEF UI
<1>4. CASE Engine
    BY <1>1, <1>2, <1>4 DEF Engine, ToolText, ToolFinishes, BatchAppended
<1>5. CASE Recovery
    BY <1>1, <1>5 DEF Recovery, RecoveryScans, RecoveryRemoves, RecoveryReads, past
<1>6. CASE Start
    BY <1>1, <1>6 DEF Start, StartFresh, StartContinue, StartResume, Opens, past
<1>7. CASE Crash \/ FlushWAL
    BY <1>1, <1>7 DEF Crash, ProcessEnds, FlushWAL, past
<1>8. ASSUME NEW i \in Saves, SaveStep(i) PROVE created' = created
    BY <1>8 DEF SaveStep, SaveOpens, SaveWrites, SaveRenames, SaveFails, unsaving, past
<1>9. ASSUME NEW i \in BgSaves, SavePosts(i) PROVE created' = created
    BY <1>9 DEF SavePosts, past
<1>10. CASE UNCHANGED vars
    BY <1>1, <1>10 DEF vars, past
<1> QED
    BY <1>1, <1>3, <1>4, <1>5, <1>6, <1>7, <1>8, <1>9, <1>10 DEF Next

-----------------------------------------------------------------------------
\* m is the transcript, t the tool batch, n messages exist.
MemOrdered(m, t, n) ==
    /\ Increasing(m) /\ Increasing(t) /\ Below(ToSet(m), ToSet(t))
    /\ ToSet(m) \subseteq 1..n /\ ToSet(t) \subseteq 1..n

LEMMA MemShrinks ==
    ASSUME NEW m, NEW t, NEW n \in Nat, MemOrdered(m, t, n),
           NEW m2 \in {m, <<>>}, NEW t2 \in {t, <<>>}, NEW n2 \in Nat, n <= n2
    PROVE  MemOrdered(m2, t2, n2)
<1>1. ToSet(m2) \subseteq ToSet(m) /\ ToSet(t2) \subseteq ToSet(t)
    BY ToSetShort
<1>2. Increasing(m2) /\ Increasing(t2)
    BY IncreasingShort DEF MemOrdered
<1>3. 1..n \subseteq 1..n2
    OBVIOUS
<1> QED
    BY <1>1, <1>2, <1>3 DEF MemOrdered, Below

\* What exists is older than what is created now.
LEMMA FreshIsAbove ==
    ASSUME NEW n \in Nat, NEW A \in SUBSET (1..n), NEW x \in {n + 1, n + 2}
    PROVE  Below(A, {x}) /\ 1..n \subseteq 1..x /\ x \in 1..x
    BY DEF Below

LEMMA MemJoins ==
    ASSUME NEW m \in Seq(1..MaxMsgs), NEW t \in Seq(1..MaxMsgs), NEW n, MemOrdered(m, t, n)
    PROVE  MemOrdered(m \o t, <<>>, n)
<1>1. m \in Seq(Nat) /\ t \in Seq(Nat)
    BY MessageSeqs
<1>2. Increasing(m \o t) /\ Increasing(<<>>)
    BY <1>1, IncreasingConcat, IncreasingShort DEF MemOrdered
<1>3. ToSet(m \o t) = ToSet(m) \cup ToSet(t) /\ ToSet(<<>>) = {}
    BY <1>1, ToSetConcat, ToSetShort
<1> QED
    BY <1>2, <1>3 DEF MemOrdered, Below

\* A message is created and joins the tool batch; it is the first one and only
\* in the transcript if no batch runs.
LEMMA MemWaits ==
    ASSUME NEW m, NEW t \in Seq(1..MaxMsgs), NEW n \in Nat, MemOrdered(m, t, n),
           n + 1 \in 1..MaxMsgs
    PROVE  MemOrdered(m, Append(t, n + 1), n + 1)
<1> DEFINE x == n + 1
<1>1. x \in 1..MaxMsgs /\ x \in Nat /\ t \in Seq(Nat)
    BY MessageSeqs
<1>2. Below(ToSet(m), {x}) /\ Below(ToSet(t), {x}) /\ 1..n \subseteq 1..x /\ x \in 1..x
    BY FreshIsAbove DEF MemOrdered
<1> HIDE DEF x
<1>3. ToSet(Append(t, x)) = ToSet(t) \cup {x}
    BY <1>1, MessageAppended
<1>4. Increasing(Append(t, x))
    BY <1>1, <1>2, IncreasingAppend DEF MemOrdered
<1>5. MemOrdered(m, Append(t, x), x)
    BY <1>2, <1>3, <1>4 DEF MemOrdered, Below
<1> QED
    BY <1>5 DEF x

LEMMA MemAdds ==
    ASSUME NEW m \in Seq(1..MaxMsgs), NEW n \in Nat, MemOrdered(m, <<>>, n), n + 1 \in 1..MaxMsgs
    PROVE  MemOrdered(Append(m, n + 1), <<>>, n + 1)
<1> DEFINE x == n + 1
<1>1. x \in 1..MaxMsgs /\ x \in Nat /\ m \in Seq(Nat)
    BY MessageSeqs
<1>2. Below(ToSet(m), {x}) /\ 1..n \subseteq 1..x /\ x \in 1..x
    BY FreshIsAbove DEF MemOrdered
<1> HIDE DEF x
<1>3. ToSet(Append(m, x)) = ToSet(m) \cup {x} /\ ToSet(<<>>) = {}
    BY <1>1, MessageAppended, ToSetShort
<1>4. Increasing(Append(m, x))
    BY <1>1, <1>2, IncreasingAppend DEF MemOrdered
<1>5. MemOrdered(Append(m, x), <<>>, x)
    BY <1>2, <1>3, <1>4 DEF MemOrdered, Below
<1> QED
    BY <1>5 DEF x

LEMMA MemAddsTwo ==
    ASSUME NEW m \in Seq(1..MaxMsgs), NEW n \in Nat, MemOrdered(m, <<>>, n), n + 2 \in 1..MaxMsgs
    PROVE  MemOrdered(m \o <<n + 1, n + 2>>, <<>>, n + 2)
<1> DEFINE x == n + 1
           y == n + 2
           t == <<x, y>>
<1>1. x \in 1..MaxMsgs /\ y \in 1..MaxMsgs /\ x \in 1..y /\ y \in 1..y /\ x \in Nat /\ y = x + 1
    BY Bounds
<1>2. Below(ToSet(m), {x}) /\ Below(ToSet(m), {y}) /\ 1..n \subseteq 1..y
    BY FreshIsAbove DEF MemOrdered
<1> HIDE DEF x, y
<1>3. t \in Seq(1..MaxMsgs) /\ ToSet(t) = {x, y} /\ Increasing(t)
    BY <1>1, ToSetShort, IncreasingShort
<1> HIDE DEF t
<1>4. MemOrdered(m, t, y)
    BY <1>1, <1>2, <1>3 DEF MemOrdered, Below
<1>5. MemOrdered(m \o t, <<>>, y)
    BY <1>3, <1>4, MemJoins
<1> QED
    BY <1>5 DEF x, y, t

\* A transcript read from a file.
LEMMA MemTaken ==
    ASSUME NEW f \in Files, RisingLog(Lines(f)), NEW n, Recorded(f) \subseteq 1..n
    PROVE  MemOrdered(Parsed(f), <<>>, n)
<1>1. Increasing(Parsed(f)) /\ ToSet(Parsed(f)) \subseteq 1..n
    BY ParsedKeeps
<1> QED
    BY <1>1, IncreasingShort, ToSetShort DEF MemOrdered, Below

LEMMA LogLater ==
    ASSUME NEW w, NEW b, NEW u, NEW n \in Nat, LogOrdered(w, b, u, n), NEW n2 \in Nat, n <= n2
    PROVE  LogOrdered(w, b, u, n2) /\ LogOrdered(w, <<>>, <<>>, n2)
<1>1. \A s \in Sessions : LogSame(w[s], w[s])
    BY DEF LogSame
<1> QED
    BY <1>1, LogShrinks

\* A message is created and logged; no tool result waits.
LEMMA LogFresh ==
    ASSUME HandleTyped, cur \in Sessions, NEW n \in Nat, LogOrdered(wal, buf, <<>>, n),
           n + 1 \in 1..MaxMsgs, Logged(n + 1), NEW n2 \in {n + 1, n + 2}
    PROVE  LogOrdered(wal', buf', <<>>, n2)
<1> DEFINE x == n + 1
<1>1. x \in Nat /\ x \in 1..MaxMsgs /\ x \in 1..n2 /\ n2 \in Nat /\ n <= n2 /\ Logged(x)
    OBVIOUS
<1>2. Above(wal, buf, x)
    BY FreshIsAbove DEF Above, LogOrdered
<1> HIDE DEF x
<1>3. LogOrdered(wal, buf, <<>>, n2)
    BY <1>1, LogLater
<1>4. Below({x}, ToSet(<<>>))
    BY ToSetShort DEF Below
<1> QED
    BY <1>1, <1>2, <1>3, <1>4, LoggedKeepsOrder

LEMMA LogRemoved ==
    ASSUME HandleTyped, walFor # NoSession, RemoveWAL, NEW u, NEW n \in Nat, LogOrdered(wal, buf, u, n)
    PROVE  LogOrdered(wal', buf', u, n)
<1>1. buf' \in {buf, <<>>}
    BY DEF RemoveWAL, FlushedBuf
<1>2. \A s \in Sessions : wal'[s] \in {wal[s], Absent} /\ wal[s] \in Files
    BY DEF RemoveWAL, HandleTyped
<1>3. \A s \in Sessions : LogSame(wal[s], wal'[s])
    BY <1>2, LogSameIs
<1> QED
    BY <1>1, <1>3, LogShrinks

LEMMA LogUnlinked ==
    ASSUME HandleTyped, NEW t \in Sessions, UnlinkWAL(t), NEW u, NEW n \in Nat, LogOrdered(wal, buf, u, n)
    PROVE  LogOrdered(wal', buf', u, n)
<1>1. buf' = buf
    BY DEF UnlinkWAL
<1>2. \A s \in Sessions : wal'[s] \in {wal[s], Absent} /\ wal[s] \in Files
    BY DEF UnlinkWAL, HandleTyped
<1>3. \A s \in Sessions : LogSame(wal[s], wal'[s])
    BY <1>2, LogSameIs
<1> QED
    BY <1>1, <1>3, LogShrinks

LEMMA LogOpened ==
    ASSUME HandleTyped, NEW t \in Sessions, NEW left, left \in {wal, [wal EXCEPT ![t] = Absent]},
           Opens(t, left), NEW n \in Nat, LogOrdered(wal, buf, unlogged, n)
    PROVE  LogOrdered(wal', buf', unlogged', n)
<1>1. buf' = buf /\ unlogged' = unlogged
    BY DEF Opens, tools
<1>2. /\ wal' = [left EXCEPT ![t] = Append(Lines(left[t]), Meta)]
      /\ wal \in [Sessions -> Files] /\ left \in [Sessions -> Files]
      /\ left[t] \in {wal[t], Absent} /\ \A s \in Sessions : s # t => left[s] = wal[s]
    BY EmptyFiles DEF Opens, HandleTyped
<1>3. ASSUME NEW s \in Sessions PROVE LogSame(wal[s], wal'[s])
  <2>1. CASE s = t
    <3>1. wal'[s] \in {Append(Lines(wal[s]), Meta), Append(Lines(Absent), Meta)}
        BY <1>2, <2>1
    <3> QED
        BY <1>2, <3>1, LogSameIs
  <2>2. CASE s # t
    <3>1. wal'[s] = wal[s]
        BY <1>2, <2>2
    <3> QED
        BY <1>2, <3>1, LogSameIs
  <2> QED
      BY <2>1, <2>2
<1> QED
    BY <1>1, <1>3, LogShrinks

LEMMA LogRenewed ==
    ASSUME HandleTyped, NEW transcript, NewSession(transcript), NEW n \in Nat,
           LogOrdered(wal, buf, unlogged, n)
    PROVE  LogOrdered(wal', buf', unlogged', n)
<1> DEFINE left == IF saves[Sync].stage = "ok" /\ walFor # NoSession /\ walAt = "linked"
                   THEN [wal EXCEPT ![walFor] = Absent] ELSE FlushedFile
<1>1. buf' = <<>> /\ unlogged' = unlogged
    BY DEF NewSession, tools
<1>2. PICK t \in Sessions : wal' = [left EXCEPT ![t] = <<>>]
    BY DEF NewSession, Unused
<1>3. left \in [Sessions -> Files]
  <2>1. [wal EXCEPT ![walFor] = Absent] \in [Sessions -> Files]
      BY EmptyFiles DEF HandleTyped
  <2> QED
      BY <2>1, FlushedTyped
<1>4. LogOrdered(left, <<>>, unlogged, n)
  <2>1. CASE left = [wal EXCEPT ![walFor] = Absent]
    <3>1. \A s \in Sessions : left[s] \in {wal[s], Absent} /\ wal[s] \in Files
        BY <2>1 DEF HandleTyped
    <3> HIDE DEF left
    <3>2. \A s \in Sessions : LogSame(wal[s], left[s])
        BY <3>1, LogSameIs
    <3> QED
        BY <3>2, LogShrinks
  <2>2. CASE left = FlushedFile
      BY <2>2, FlushedKeepsOrder
  <2> QED
      BY <2>1, <2>2
<1> HIDE DEF left
<1>5. \A s \in Sessions : wal'[s] \in {left[s], <<>>} /\ left[s] \in Files
    BY <1>2, <1>3
<1>6. \A s \in Sessions : LogSame(left[s], wal'[s])
    BY <1>5, LogSameIs
<1>7. LogOrdered(wal', <<>>, unlogged, n)
    BY <1>4, <1>6, LogShrinks
<1> QED
    BY <1>1, <1>7

LEMMA LogEnded ==
    ASSUME HandleTyped, ProcessEnds, Exit \/ wal' = wal, NEW n \in Nat, LogOrdered(wal, buf, unlogged, n)
    PROVE  LogOrdered(wal', buf', unlogged', n)
<1>1. buf' = <<>> /\ unlogged' = <<>>
    BY DEF ProcessEnds
<1>2. \A s \in Sessions : wal'[s] \in {wal[s], Absent} /\ wal[s] \in Files
    BY DEF Exit, HandleTyped
<1>3. \A s \in Sessions : LogSame(wal[s], wal'[s])
    BY <1>2, LogSameIs
<1> QED
    BY <1>1, <1>3, LogShrinks

InOrder(m, n) == Increasing(m) /\ ToSet(m) \subseteq 1..n

\* The transcript of a session whose saves clashed was perhaps read from a file
\* of two saves: it, its files and its saves are excepted.
MemInv ==
    /\ MemOrdered(<<>>, toolMsgs, Len(created))
    /\ cur \notin clashed => MemOrdered(msgs, toolMsgs, Len(created))
LogInv == LogOrdered(wal, buf, unlogged, Len(created))
FilesInv ==
    /\ \A s \in Sessions \ clashed : /\ Increasing(Lines(jsonl[s]))
                                     /\ Recorded(jsonl[s]) \subseteq 1..Len(created)
    /\ \A i \in Saves : saves[i].sess \notin clashed => InOrder(saves[i].msgs, Len(created))

OrderInv == MemInv /\ LogInv /\ FilesInv

LEMMA OrderInit == Init => OrderInv
<1> SUFFICES ASSUME Init PROVE OrderInv
    OBVIOUS
<1>1. msgs = <<>> /\ toolMsgs = <<>> /\ unlogged = <<>> /\ buf = <<>>
    BY DEF Init
<1>2. \A s \in Sessions : jsonl[s] = Absent /\ wal[s] = Absent
    BY DEF Init
<1>3. \A i \in Saves : saves[i].msgs = <<>>
    BY NoSaveTyped DEF Init
<1>4. Increasing(<<>>) /\ ToSet(<<>>) = {} /\ RisingLog(<<>>)
    BY IncreasingShort, ToSetShort DEF RisingLog
<1> QED
    BY <1>1, <1>2, <1>3, <1>4, EmptyFiles
    DEF OrderInv, MemInv, MemOrdered, LogInv, LogOrdered, FilesInv, InOrder, Below

LEMMA TakenUp ==
    ASSUME TypeInv, LogInv, FilesInv, NEW s \in Sessions
    PROVE  /\ s \notin clashed => MemOrdered(Parsed(jsonl[s]), <<>>, Len(created))
           /\ MemOrdered(Parsed(wal[s]), <<>>, Len(created))
<1>1. jsonl[s] \in Files /\ wal[s] \in Files
    BY DEF TypeInv, SavesTyped, HandleTyped
<1>2. (s \notin clashed => RisingLog(Lines(jsonl[s]))) /\ RisingLog(Lines(wal[s]))
    BY DEF FilesInv, Increasing, RisingLog, LogInv, LogOrdered
<1>3. /\ s \notin clashed => Recorded(jsonl[s]) \subseteq 1..Len(created)
      /\ Recorded(wal[s]) \subseteq 1..Len(created)
    BY DEF FilesInv, LogInv, LogOrdered
<1> QED
    BY <1>1, <1>2, <1>3, MemTaken

LEMMA MemNext ==
    ASSUME TypeInv, OrderInv, [Next]_vars
    PROVE  MemInv'
<1> USE DEF OrderInv, MemInv
<1>1. /\ Len(created) \in Nat /\ Len(created') \in Nat /\ Len(created) <= Len(created')
      /\ CountsTyped /\ (up => cur \in Sessions) /\ MaxMsgs \in Nat
      /\ msgs \in Seq(1..MaxMsgs) /\ toolMsgs \in Seq(1..MaxMsgs) /\ <<>> \in Seq(1..MaxMsgs)
      /\ ~waiting => toolMsgs = <<>>
      /\ clashed \subseteq clashed'
      /\ ~up => msgs = <<>> /\ ~waiting
    BY CreatedGrows, Bounds, FlawsNext DEF TypeInv, ChatTyped, DownIsIdle
<1>2. ASSUME msgs' \in {msgs, <<>>}, toolMsgs' \in {toolMsgs, <<>>}, cur' = cur \/ msgs' = <<>>
      PROVE  MemInv'
  <2>1. MemOrdered(<<>>, toolMsgs', Len(created'))
      BY <1>1, <1>2, MemShrinks
  <2>2. ASSUME cur' = cur, cur' \notin clashed' PROVE MemOrdered(msgs', toolMsgs', Len(created'))
    <3>1. MemOrdered(msgs, toolMsgs, Len(created))
        BY <1>1, <2>2
    <3> QED
        BY <1>1, <1>2, <3>1, MemShrinks
  <2> QED
      BY <1>2, <2>1, <2>2
<1>3. ASSUME NEW n \in {1, 2}, up, Create(n)
      PROVE  Len(created') = Len(created) + n
  <2>1. Created(n)
      BY <1>1, <1>3, CreateTyped
  <2> QED
      BY <2>1 DEF Created
<1>4. ASSUME toolMsgs' = <<>>, toolMsgs = <<>>, NEW n \in {0, 1, 2}, Len(created) + n <= MaxMsgs,
             n > 0 => up /\ Create(n), cur' = cur,
             msgs' = CASE n = 0 -> msgs
                       [] n = 1 -> Append(msgs, Len(created) + 1)
                       [] n = 2 -> msgs \o <<Len(created) + 1, Len(created) + 2>>
      PROVE  MemInv'
  <2>1. MemOrdered(<<>>, <<>>, Len(created'))
      BY <1>1, MemShrinks
  <2>2. ASSUME cur' \notin clashed' PROVE MemOrdered(msgs', <<>>, Len(created'))
    <3>1. MemOrdered(msgs, <<>>, Len(created))
        BY <1>1, <1>4, <2>2
    <3>2. CASE n = 0
        BY <1>1, <1>4, <3>1, <3>2, MemShrinks
    <3>3. CASE n = 1
      <4>1. Len(created') = Len(created) + 1 /\ Len(created) + 1 \in 1..MaxMsgs
          BY <1>1, <1>3, <1>4, <3>3
      <4> QED
          BY <1>1, <1>4, <3>1, <3>3, <4>1, MemAdds
    <3>4. CASE n = 2
      <4>1. Len(created') = Len(created) + 2 /\ Len(created) + 2 \in 1..MaxMsgs
          BY <1>1, <1>3, <1>4, <3>4
      <4>2. msgs' = msgs \o <<Len(created) + 1, Len(created) + 2>>
          BY <1>4, <3>4
      <4>3. MemOrdered(msgs \o <<Len(created) + 1, Len(created) + 2>>, <<>>, Len(created) + 2)
          BY <1>1, <3>1, <4>1, MemAddsTwo
      <4> QED
          BY <4>1, <4>2, <4>3
    <3> QED
        BY <3>2, <3>3, <3>4
  <2> QED
      BY <1>4, <2>1, <2>2
<1>5. ASSUME NEW s \in Sessions, cur' = s, msgs' \in {Parsed(jsonl[s]), Parsed(wal[s])}, ~waiting,
             toolMsgs' = toolMsgs, created' = created
      PROVE  MemInv'
    BY <1>1, <1>5, TakenUp
<1>6. CASE Submit
  <2>1. /\ up /\ Create(1) /\ msgs' = Append(msgs, Len(created) + 1) /\ toolMsgs' = toolMsgs
        /\ ~waiting /\ Len(created) + 1 <= MaxMsgs /\ cur' = cur
      BY <1>6 DEF Submit, UIReady, Fresh, tools
  <2> QED
      BY <1>1, <1>4, <2>1
<1>7. CASE ToolResult \/ QueuePrompt \/ SaveResult
    BY <1>2, <1>7 DEF ToolResult, QueuePrompt, SaveResult, HandleResult, chat, tools
<1>8. CASE TurnEnds
  <2>1. PICK text \in BOOLEAN :
            /\ up /\ toolMsgs = <<>> /\ toolMsgs' = toolMsgs /\ cur' = cur
            /\ text => Create(1) /\ Len(created) + 1 <= MaxMsgs
            /\ msgs' = IF text THEN Append(msgs, Len(created) + 1) ELSE msgs
      BY <1>8 DEF TurnEnds, Answered, UIReady, Fresh, tools
  <2>2. CASE text
      BY <1>4, <2>1, <2>2
  <2>3. CASE ~text
      BY <1>2, <2>1, <2>3
  <2> QED
      BY <2>2, <2>3
<1>9. CASE TurnEndsIntoQueued
  <2>1. /\ up /\ toolMsgs = <<>> /\ toolMsgs' = toolMsgs /\ Create(2) /\ cur' = cur
        /\ msgs' = msgs \o <<Len(created) + 1, Len(created) + 1 + 1>>
        /\ Len(created) + 1 + 1 <= MaxMsgs
      BY <1>9 DEF TurnEndsIntoQueued, Answered, UIReady, Fresh, tools
  <2>2. Len(created) + 1 + 1 = Len(created) + 2
      BY <1>1
  <2> QED
      BY <1>4, <2>1, <2>2
<1>10. CASE NewBegins \/ QuitBegins \/ QuitSaved \/ ExitSaveBegins
    BY <1>2, <1>10 DEF NewBegins, QuitBegins, QuitSaved, ExitSaveBegins, SaveBegins, chat, tools
<1>11. CASE NewEnds
    BY <1>2, <1>11 DEF NewEnds, NewSession, tools
<1>12. CASE Exit \/ Crash
    BY <1>2, <1>12 DEF Exit, Crash, ProcessEnds
<1>13. ASSUME NEW s \in Sessions, ResumeCommand(s) PROVE MemInv'
    BY <1>5, <1>13 DEF ResumeCommand, Switch, tools, past
<1>14. ASSUME NEW s \in Sessions, NEW saved \in BOOLEAN, RecoverCommand(s, saved) PROVE MemInv'
    BY <1>5, <1>14 DEF RecoverCommand, Resumed, Switch, tools, past
<1>15. CASE ToolText \/ ToolFinishes
  <2>1. /\ up /\ Create(1) /\ msgs' = msgs /\ Len(created) + 1 <= MaxMsgs /\ cur' = cur
        /\ \/ toolMsgs' = Append(toolMsgs, Len(created) + 1)
           \/ toolMsgs = <<>> /\ toolMsgs' = <<Len(created) + 1>>
      BY <1>15 DEF ToolText, ToolFinishes, Fresh, chat, idle, flaws
  <2>2. toolMsgs' = Append(toolMsgs, Len(created) + 1)
    <3>1. Append(<<>>, Len(created) + 1) = <<Len(created) + 1>>
        OBVIOUS
    <3> QED
        BY <2>1, <3>1
  <2>3. Len(created') = Len(created) + 1 /\ Len(created) + 1 \in 1..MaxMsgs
      BY <1>1, <1>3, <2>1
  <2>4. MemOrdered(<<>>, toolMsgs', Len(created'))
      BY <1>1, <2>2, <2>3, MemWaits
  <2>5. ASSUME cur' \notin clashed' PROVE MemOrdered(msgs', toolMsgs', Len(created'))
    <3>1. MemOrdered(msgs, toolMsgs, Len(created))
        BY <1>1, <2>1, <2>5
    <3> QED
        BY <1>1, <2>1, <2>2, <2>3, <3>1, MemWaits
  <2> QED
      BY <2>4, <2>5
<1>16. CASE BatchAppended
  <2>1. msgs' = msgs \o toolMsgs /\ toolMsgs' = <<>> /\ cur' = cur /\ created' = created
      BY <1>16 DEF BatchAppended
  <2>2. MemOrdered(<<>>, <<>>, Len(created'))
      BY <1>1, MemShrinks
  <2>3. ASSUME cur' \notin clashed' PROVE MemOrdered(msgs', toolMsgs', Len(created'))
    <3>1. MemOrdered(msgs, toolMsgs, Len(created))
        BY <1>1, <2>1, <2>3
    <3> QED
        BY <1>1, <2>1, <3>1, MemJoins
  <2> QED
      BY <2>1, <2>2, <2>3
<1>17. CASE Recovery
    BY <1>2, <1>17 DEF Recovery, RecoveryScans, RecoveryRemoves, RecoveryReads, chat, tools
<1>18. ASSUME NEW s \in Sessions, StartFresh(s) PROVE MemInv'
    BY <1>1, <1>2, <1>18 DEF StartFresh, Opens, tools
<1>19. ASSUME NEW s \in Sessions, StartContinue(s) PROVE MemInv'
    BY <1>1, <1>5, <1>19 DEF StartContinue, Opens, tools, past
<1>20. ASSUME NEW s \in Sessions, NEW saved \in BOOLEAN, StartResume(s, saved) PROVE MemInv'
    BY <1>1, <1>5, <1>20 DEF StartResume, Resumed, Opens, tools, past
<1>21. CASE FlushWAL
    BY <1>2, <1>21 DEF FlushWAL, chat, tools
<1>22. ASSUME NEW i \in Saves, SaveStep(i) PROVE MemInv'
    BY <1>2, <1>22 DEF SaveStep, SaveOpens, SaveWrites, SaveRenames, SaveFails, unsaving, chat, tools
<1>23. ASSUME NEW i \in BgSaves, SavePosts(i) PROVE MemInv'
    BY <1>2, <1>23 DEF SavePosts, chat, tools
<1>24. CASE UNCHANGED vars
    BY <1>2, <1>24 DEF vars, chat, tools
<1> QED
    BY <1>6, <1>7, <1>8, <1>9, <1>10, <1>11, <1>12, <1>13, <1>14, <1>15, <1>16, <1>17,
       <1>18, <1>19, <1>20, <1>21, <1>22, <1>23, <1>24
    DEF Next, UI, Engine, Start

LEMMA LogNext ==
    ASSUME TypeInv, OrderInv, [Next]_vars
    PROVE  LogInv'
<1> USE DEF OrderInv, LogInv
<1>1. /\ Len(created) \in Nat /\ Len(created') \in Nat /\ Len(created) <= Len(created')
      /\ CountsTyped /\ HandleTyped /\ (up => cur \in Sessions) /\ MaxMsgs \in Nat
      /\ unlogged \in Seq(1..MaxMsgs) /\ (~waiting => unlogged = <<>>)
    BY CreatedGrows, Bounds DEF TypeInv, ChatTyped, CountsTyped
<1>2. ASSUME UNCHANGED <<wal, buf, unlogged>>
      PROVE  LogInv'
    BY <1>1, <1>2, LogLater
<1>3. ASSUME NEW n \in {1, 2}, up, Create(n)
      PROVE  Len(created') = Len(created) + n
  <2>1. Created(n)
      BY <1>1, <1>3, CreateTyped
  <2> QED
      BY <2>1 DEF Created
<1>4. ASSUME up, Logged(Len(created) + 1), unlogged = <<>>, unlogged' = unlogged,
             Len(created) + 1 <= MaxMsgs, NEW n \in {1, 2}, Create(n)
      PROVE  LogInv'
    BY <1>1, <1>3, <1>4, LogFresh
<1>5. CASE Submit
    BY <1>1, <1>4, <1>5 DEF Submit, UIReady, Fresh, tools
<1>6. CASE ToolResult
  <2>1. /\ up /\ unlogged # <<>> /\ Logged(Head(unlogged)) /\ unlogged' = Tail(unlogged)
        /\ created' = created
      BY <1>6 DEF ToolResult, UIReady
  <2>2. /\ LogOrdered(wal, buf, Tail(unlogged), Len(created))
        /\ Head(unlogged) \in 1..MaxMsgs /\ Head(unlogged) \in 1..Len(created)
        /\ Above(wal, buf, Head(unlogged)) /\ Below({Head(unlogged)}, ToSet(Tail(unlogged)))
      BY <1>1, <2>1, LogTakes
  <2>3. LogOrdered(wal', buf', Tail(unlogged), Len(created))
      BY <1>1, <2>1, <2>2, LoggedKeepsOrder
  <2> QED
      BY <2>1, <2>3
<1>7. CASE QueuePrompt
    BY <1>2, <1>7 DEF QueuePrompt, disk, handle, tools
<1>8. CASE TurnEnds
  <2>1. PICK text \in BOOLEAN :
            /\ up /\ unlogged = <<>> /\ unlogged' = unlogged
            /\ text => Create(1) /\ Len(created) + 1 <= MaxMsgs /\ Logged(Len(created) + 1)
            /\ ~text => UNCHANGED <<wal, buf>>
      BY <1>8 DEF TurnEnds, Answered, UIReady, Fresh, tools, handle
  <2> QED
      BY <1>2, <1>4, <2>1
<1>9. CASE TurnEndsIntoQueued
  <2>1. /\ up /\ unlogged = <<>> /\ unlogged' = unlogged /\ Create(2)
        /\ Len(created) + 1 + 1 <= MaxMsgs /\ Logged(Len(created) + 1)
      BY <1>9 DEF TurnEndsIntoQueued, Answered, UIReady, Fresh, tools
  <2> QED
      BY <1>1, <1>4, <2>1
<1>10. CASE SaveResult
  <2>1. /\ UNCHANGED <<unlogged, created>>
        /\ (walFor # NoSession /\ RemoveWAL) \/ UNCHANGED <<wal, buf>>
      BY <1>10 DEF SaveResult, HandleResult, tools, past, handle
  <2> QED
      BY <1>1, <1>2, <2>1, LogRemoved
<1>11. CASE NewBegins \/ QuitBegins \/ ExitSaveBegins
    BY <1>2, <1>11 DEF NewBegins, QuitBegins, ExitSaveBegins, SaveBegins, disk, handle, tools
<1>12. CASE NewEnds
    BY <1>1, <1>12, LogRenewed DEF NewEnds, NewSession, past
<1>13. CASE QuitSaved
  <2>1. /\ UNCHANGED <<unlogged, created>>
        /\ (walFor # NoSession /\ RemoveWAL) \/ UNCHANGED <<wal, buf>>
      BY <1>13 DEF QuitSaved, SaveEnds, tools, past, handle
  <2> QED
      BY <1>1, <1>2, <2>1, LogRemoved
<1>14. CASE Exit \/ Crash
    BY <1>1, <1>14, LogEnded DEF Exit, Crash, ProcessEnds
<1>15. ASSUME NEW s \in Sessions, ResumeCommand(s) PROVE LogInv'
    BY <1>2, <1>15 DEF ResumeCommand, Switch, tools, handle
<1>16. ASSUME NEW s \in Sessions, NEW saved \in BOOLEAN, RecoverCommand(s, saved) PROVE LogInv'
  <2>1. /\ UNCHANGED <<unlogged, created>>
        /\ UnlinkWAL(s) \/ UNCHANGED <<wal, buf>>
      BY <1>16 DEF RecoverCommand, Switch, tools, past, handle
  <2> QED
      BY <1>1, <1>2, <2>1, LogUnlinked
<1>17. CASE ToolText
    BY <1>2, <1>17 DEF ToolText, idle, disk, handle
<1>18. CASE ToolFinishes
  <2>1. /\ up /\ Create(1) /\ unlogged' = Append(unlogged, Len(created) + 1)
        /\ UNCHANGED <<wal, buf>> /\ Len(created) + 1 <= MaxMsgs
      BY <1>18 DEF ToolFinishes, idle, disk, handle, Fresh
  <2> DEFINE x == Len(created) + 1
  <2>2. Len(created') = x /\ x \in Nat /\ x \in 1..MaxMsgs /\ x \in 1..x /\ Len(created) <= x
      BY <1>1, <1>3, <2>1
  <2>3. /\ Above(wal, buf, x) /\ Below(ToSet(unlogged), {x})
      BY <1>1, FreshIsAbove DEF Above, LogOrdered
  <2> HIDE DEF x
  <2>4. LogOrdered(wal, buf, unlogged, x)
      BY <1>1, <2>2, LogLater
  <2>5. LogOrdered(wal, buf, Append(unlogged, x), x)
      BY <1>1, <2>2, <2>3, <2>4, LogAwaits
  <2> QED
      BY <2>1, <2>2, <2>5 DEF x
<1>19. CASE BatchAppended
    BY <1>2, <1>19 DEF BatchAppended, idle, disk, handle
<1>20. CASE RecoveryScans \/ \E s \in Sessions : RecoveryReads(s)
    BY <1>2, <1>20 DEF RecoveryScans, RecoveryReads, disk, handle, tools
<1>21. CASE RecoveryRemoves
  <2>1. saves[Rec].sess \in Sessions
      BY <1>21, SaveIds, NoSaveTyped DEF RecoveryRemoves, Finished, TypeInv, SavesTyped
  <2>2. UNCHANGED <<unlogged, created>> /\ UnlinkWAL(saves[Rec].sess)
      BY <1>21 DEF RecoveryRemoves, tools, past
  <2> QED
      BY <1>1, <2>1, <2>2, LogUnlinked
<1>22. ASSUME NEW s \in Sessions, StartFresh(s) \/ StartContinue(s) PROVE LogInv'
  <2>1. Opens(s, wal) /\ created' = created
      BY <1>22 DEF StartFresh, StartContinue, Opens, past
  <2> QED
      BY <1>1, <2>1, LogOpened
<1>23. ASSUME NEW s \in Sessions, NEW saved \in BOOLEAN, StartResume(s, saved) PROVE LogInv'
  <2> DEFINE left == IF DropsWAL(s, saved) THEN [wal EXCEPT ![s] = Absent] ELSE wal
  <2>1. Opens(s, left) /\ created' = created /\ left \in {wal, [wal EXCEPT ![s] = Absent]}
      BY <1>23 DEF StartResume, Opens, past
  <2> QED
      BY <1>1, <2>1, LogOpened
<1>24. CASE FlushWAL
    BY <1>1, <1>24, FlushedKeepsOrder DEF FlushWAL, tools, past
<1>25. ASSUME NEW i \in Saves, SaveStep(i) PROVE LogInv'
    BY <1>2, <1>25 DEF SaveStep, SaveOpens, SaveWrites, SaveRenames, SaveFails, unsaving, handle, tools
<1>26. ASSUME NEW i \in BgSaves, SavePosts(i) PROVE LogInv'
    BY <1>2, <1>26 DEF SavePosts, disk, handle, tools
<1>27. CASE UNCHANGED vars
    BY <1>2, <1>27 DEF vars, disk, handle, tools
<1> QED
    BY <1>5, <1>6, <1>7, <1>8, <1>9, <1>10, <1>11, <1>12, <1>13, <1>14, <1>15, <1>16, <1>17,
       <1>18, <1>19, <1>20, <1>21, <1>22, <1>23, <1>24, <1>25, <1>26, <1>27
    DEF Next, UI, Engine, Recovery, Start

LEMMA FilesNext ==
    ASSUME TypeInv, SaveInv, OrderInv, [Next]_vars
    PROVE  FilesInv'
<1>1. /\ Len(created) \in Nat /\ Len(created') \in Nat /\ 1..Len(created) \subseteq 1..Len(created')
      /\ jsonl \in [Sessions -> Files] /\ saves \in [Saves -> SaveRecord]
      /\ clashed \subseteq clashed'
    BY CreatedGrows, FlawsNext DEF TypeInv, SavesTyped
<1>2. MemInv'
    BY MemNext
<1>3. /\ msgs' \in Seq(1..MaxMsgs)
      /\ cur' \notin clashed' => InOrder(msgs', Len(created'))
    BY <1>2, ChatNext DEF ChatTyped, MemInv, MemOrdered, InOrder
<1>4. /\ cur \notin clashed => InOrder(msgs, Len(created'))
      /\ \A s \in Sessions : InOrder(Parsed(wal[s]), Len(created'))
    BY <1>1, TakenUp DEF OrderInv, MemInv, MemOrdered, InOrder
<1>5. \A i \in Saves : saves[i].sess \notin clashed' => InOrder(saves[i].msgs, Len(created'))
    BY <1>1 DEF OrderInv, FilesInv, InOrder
<1>6. \A s \in Sessions \ clashed' : /\ Increasing(Lines(jsonl[s]))
                                     /\ Recorded(jsonl[s]) \subseteq 1..Len(created')
    BY <1>1 DEF OrderInv, FilesInv
<1>7. InOrder(<<>>, Len(created'))
    BY IncreasingShort, ToSetShort DEF InOrder
<1>8. ASSUME NEW m \in Seq(1..MaxMsgs), InOrder(m, Len(created'))
      PROVE  /\ Increasing(Lines(<<Meta>> \o m))
             /\ Recorded(<<Meta>> \o m) \subseteq 1..Len(created')
    BY <1>8, SavedLines DEF InOrder
<1>9. CASE Quiet
    BY <1>5, <1>6, <1>9 DEF Quiet, FilesInv
<1>10. ASSUME NEW i \in Saves, NEW s \in Sessions, NEW m \in Seq(1..MaxMsgs), NEW q \in 0..MaxMsgs,
              Begun(i, s, m, q)
       PROVE  FilesInv'
  <2>1. /\ saves' = [saves EXCEPT ![i] = NewSave(s, m, q)] /\ jsonl' = jsonl
        /\ s \notin clashed' => InOrder(m, Len(created'))
      BY <1>1, <1>3, <1>4, <1>10 DEF Begun
  <2>2. /\ saves'[i].msgs = m /\ saves'[i].sess = s
        /\ \A j \in Saves : j # i => saves'[j] = saves[j]
      BY <1>1, <2>1 DEF NewSave
  <2> QED
      BY <1>5, <1>6, <2>1, <2>2 DEF FilesInv
<1>11. ASSUME NEW i \in Saves, Taken(i)
       PROVE  FilesInv'
  <2>1. /\ saves' = [saves EXCEPT ![i] = NoSave] /\ jsonl' = jsonl
      BY <1>11 DEF Taken
  <2>2. saves'[i].msgs = <<>> /\ \A j \in Saves : j # i => saves'[j] = saves[j]
      BY <1>1, <2>1, NoSaveTyped
  <2> QED
      BY <1>5, <1>6, <1>7, <2>1, <2>2 DEF FilesInv
<1>12. ASSUME NEW s \in Sessions, Rebuilt(s)
       PROVE  FilesInv'
  <2>1. /\ saves' = saves
        /\ jsonl' = jsonl \/ (jsonl' = [jsonl EXCEPT ![s] = <<Meta>> \o msgs'] /\ cur' = s)
      BY <1>12 DEF Rebuilt
  <2>2. \A t \in Sessions : jsonl'[t] = jsonl[t] \/ (jsonl'[t] = <<Meta>> \o msgs' /\ cur' = t)
      BY <1>1, <2>1
  <2> QED
      BY <1>3, <1>5, <1>6, <1>8, <2>1, <2>2 DEF FilesInv
<1>13. CASE Ended
  <2>1. jsonl' = jsonl /\ saves' = [i \in Saves |-> NoSave]
      BY <1>13 DEF Ended, ProcessEnds
  <2>2. \A i \in Saves : saves'[i].msgs = <<>>
      BY <2>1, NoSaveTyped
  <2> QED
      BY <1>6, <1>7, <2>1, <2>2 DEF FilesInv
<1>14. ASSUME NEW i \in Saves, SaveStep(i)
       PROVE  FilesInv'
  <2>1. Steps(i) /\ (saves[i].sess \notin clashed => Moves(i))
      BY <1>14, StepSteps, StepMoves DEF TypeInv, SaveInv
  <2>2. \A j \in Saves : saves'[j].msgs = saves[j].msgs /\ saves'[j].sess = saves[j].sess
      BY <2>1 DEF Steps
  <2>3. ASSUME NEW t \in Sessions, t \notin clashed'
        PROVE  /\ Increasing(Lines(jsonl'[t]))
               /\ Recorded(jsonl'[t]) \subseteq 1..Len(created')
    <3>1. CASE t # saves[i].sess
      <4>1. jsonl'[t] = jsonl[t]
          BY <2>1, <3>1 DEF Steps
      <4> QED
          BY <1>6, <2>3, <4>1
    <3>2. CASE t = saves[i].sess
      <4>1. jsonl'[t] \in {jsonl[t], <<Meta>> \o saves[i].msgs}
          BY <1>1, <2>1, <2>3, <3>2 DEF Moves
      <4>2. saves[i].msgs \in Seq(1..MaxMsgs) /\ InOrder(saves[i].msgs, Len(created'))
          BY <1>5, <2>1, <2>3, <3>2 DEF Steps
      <4> QED
          BY <1>6, <1>8, <2>3, <4>1, <4>2
    <3> QED
        BY <3>1, <3>2
  <2> QED
      BY <1>5, <2>2, <2>3 DEF FilesInv
<1> QED
    BY <1>9, <1>10, <1>11, <1>12, <1>13, <1>14, SaveChanges DEF SaveChange

IInv == TypeInv /\ SaveInv /\ OrderInv

LEMMA InvHolds == Spec => []IInv
<1>1. Init => IInv
    BY TypeInit, SaveInit, OrderInit DEF IInv
<1>2. IInv /\ [Next]_vars => IInv'
  <2> SUFFICES ASSUME IInv, [Next]_vars PROVE IInv'
      OBVIOUS
  <2> QED
      BY TypeNext, SaveNext, MemNext, LogNext, FilesNext DEF IInv, OrderInv
<1> QED
    BY <1>1, <1>2, PTL DEF Spec

(***************************************************************************)
(* A reader of a session file never sees part of a save, through crashes,  *)
(* I/O errors and every order of the other steps, unless two saves of that *)
(* very session ran at once: what atomicWriteFile promises ("either old    *)
(* file or new file, never partial") depends on nothing else, whatever the *)
(* other sessions, the startup recovery and the commands that take a       *)
(* session up do.                                                          *)
(***************************************************************************)
THEOREM SavesAreAtomic == Spec => []LoneSaveIsAtomic
<1>1. IInv => LoneSaveIsAtomic
    BY DEF IInv, SaveInv, Whole, LoneSaveIsAtomic, Complete, Loadable, Lines
<1> QED
    BY <1>1, InvHolds, PTL

(***************************************************************************)
(* Under the same condition a session file never has a message twice or    *)
(* before an older one, whether it was written from the transcript of a    *)
(* chat, rebuilt from a log by --resume or /recover, or saved by the       *)
(* startup recovery: the transcript, the tool batch, the log, its buffer   *)
(* and what waits to be logged stay ordered with respect to one another.   *)
(***************************************************************************)
THEOREM SavesAreOrdered == Spec => []SavedInOrder
<1>1. IInv => SavedInOrder
  <2> SUFFICES ASSUME IInv, NEW s \in Sessions, s \notin clashed,
                      NEW i \in 1..Len(Lines(jsonl[s])), NEW j \in 1..Len(Lines(jsonl[s])), i < j
               PROVE  jsonl[s][i] < jsonl[s][j]
      BY DEF SavedInOrder
  <2>1. jsonl[s] \in Files /\ Increasing(Lines(jsonl[s]))
      BY DEF IInv, OrderInv, FilesInv, TypeInv, SavesTyped
  <2>2. jsonl[s] # Absent
    <3>1. SUFFICES ASSUME jsonl[s] = Absent PROVE FALSE
        OBVIOUS
    <3>2. Len(Lines(jsonl[s])) = 0
        BY <3>1, EmptyFiles
    <3> QED
        BY <3>2
  <2>3. Lines(jsonl[s]) = jsonl[s]
      BY <2>1, <2>2, LinesOfFile
  <2> QED
      BY <2>1, <2>3 DEF Increasing
<1> QED
    BY <1>1, InvHolds, PTL

=============================================================================
