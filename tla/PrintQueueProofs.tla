--------------------------- MODULE PrintQueueProofs ---------------------------
(***************************************************************************)
(* For any printers, lists, options and jobs, and any sequence of steps:   *)
(* what a job is printed with is what was chosen or shown, the places the  *)
(* rows of the queue keep are in range, what they show is what was sent,   *)
(* and each filter has its rows in its order and announces their number.   *)
(***************************************************************************)
EXTENDS PrintQueue, FiniteSetTheorems, SequenceTheorems, TLAPS

-----------------------------------------------------------------------------
(* Places in lists *)

\* Of some of the numbers up to n one is the least: 1..k is then contained in
\* all the others.
LEMMA LeastExists ==
    ASSUME NEW n \in Nat, NEW I \in SUBSET (1..n), I # {}
    PROVE  \E k \in I: \A m \in I: k <= m
  <1> DEFINE P == SUBSET (1..n)
             R == StrictSubsetOrdering(1..n)
             T == {1..k: k \in I}
  <1>1. IsWellFoundedOn(R, P)
    <2>1. IsFiniteSet(1..n)
      BY FS_Interval
    <2>2. FiniteSubsetsOf(1..n) = P
      BY <2>1, FS_FiniteSubsetsOfFinite
    <2>3. QED
      BY <2>2, FS_StrictSubsetOrderingWellFounded
  <1>2. T \subseteq P /\ T # {}
    <2>1. \A k \in I: 1..k \subseteq 1..n
      OBVIOUS
    <2>2. QED
      BY <2>1
  <1>3. PICK x \in T: \A y \in T: <<y, x>> \notin R
    <2> HIDE DEF T, P, R
    <2> QED
      BY <1>1, <1>2, WFMin
  <1>4. PICK k \in I: x = 1..k
    BY <1>3
  <1>5. \A m \in I: k =< m
    <2>1. SUFFICES ASSUME NEW m \in I, m < k
                   PROVE  FALSE
      OBVIOUS
    <2>2. 1..m \subseteq 1..k /\ 1..m # 1..k
      BY <2>1
    <2>3. 1..m \in T /\ 1..m \in P /\ 1..k \in P
      BY <1>2
    <2>4. <<1..m, 1..k>> \in R
      BY <2>2, <2>3 DEF StrictSubsetOrdering
    <2>5. QED
      BY <1>3, <1>4, <2>3, <2>4
  <1>6. QED
    BY <1>5

\* And one is the greatest: counted from the other end, it is the least.
LEMMA GreatestExists ==
    ASSUME NEW n \in Nat, NEW I \in SUBSET (1..n), I # {}
    PROVE  \E k \in I: \A m \in I: m <= k
  <1> DEFINE J == {n + 1 - k: k \in I}
  <1>1. J \in SUBSET (1..n) /\ J # {}
    <2>1. ASSUME NEW k \in I
          PROVE  n + 1 - k \in 1..n
      <3>1. k \in 1..n
        OBVIOUS
      <3>2. QED
        BY <3>1
    <2>2. J \subseteq 1..n
      BY <2>1
    <2>3. QED
      BY <2>2
  <1>2. PICK j \in J: \A m \in J: j <= m
    <2> HIDE DEF J
    <2> QED
      BY <1>1, LeastExists
  <1>3. PICK k \in I: j = n + 1 - k
    BY <1>2
  <1>4. \A m \in I: m <= k
    <2>1. SUFFICES ASSUME NEW m \in I
                   PROVE  m <= k
      OBVIOUS
    <2>2. n + 1 - m \in J
      OBVIOUS
    <2>3. m \in 1..n /\ k \in 1..n
      OBVIOUS
    <2>4. n + 1 - k <= n + 1 - m
      BY <1>2, <1>3, <2>2
    <2> HIDE DEF J
    <2>5. QED
      BY <2>3, <2>4
  <1>5. QED
    BY <1>4

\* Of a list a value has a place exactly when it is in it, and is found there.
LEMMA PlaceOfValue ==
    ASSUME NEW S, NEW list \in Seq(S), NEW value \in Range(list)
    PROVE  /\ IndexOf(list, value) \in 0..Len(list) - 1
           /\ \A otherwise: At(list, IndexOf(list, value), otherwise) = value
  <1> DEFINE I == {i \in 1..Len(list): list[i] = value}
             First(i) == list[i] = value /\ \A j \in 1..i - 1: list[j] # value
             place == CHOOSE i \in DOMAIN list: First(i)
  <1>1. DOMAIN list = 1..Len(list) /\ Len(list) \in Nat
    OBVIOUS
  <1>2. PICK i \in DOMAIN list: list[i] = value
    BY DEF Range
  <1>3. I \in SUBSET (1..Len(list)) /\ I # {}
    BY <1>1, <1>2
  <1>4. PICK k \in I: \A m \in I: k <= m
    <2> HIDE DEF I
    <2> QED
      BY <1>1, <1>3, LeastExists
  <1>5. k \in DOMAIN list /\ First(k)
    BY <1>1, <1>4
  <1>6. place \in DOMAIN list /\ First(place)
    <2> HIDE DEF First
    <2> QED
      BY <1>5
  <1>7. IndexOf(list, value) = place - 1
    BY <1>2 DEF IndexOf
  <1> HIDE DEF place
  <1>8. QED
    BY <1>1, <1>6, <1>7 DEF At

LEMMA PlaceOfNone ==
    ASSUME NEW value, NEW otherwise
    PROVE  At(<< >>, IndexOf(<< >>, value), otherwise) = otherwise
  BY DEF At, IndexOf

-----------------------------------------------------------------------------
(* The parts of a list of lists *)

\* What FlattenSeq takes of the first k lists.
Joins(flat, seqs, k) ==
    \A i \in 1..k: flat[i] = IF i = 1 THEN seqs[i] ELSE flat[i - 1] \o seqs[i]

\* There is such a function: the least k without one would have one that
\* continues that of k - 1.
LEMMA JoinsExist ==
    ASSUME NEW S, NEW seqs \in Seq(Seq(S)), NEW n \in 1..Len(seqs)
    PROVE  \E flat \in [1..n -> Seq(S)]: Joins(flat, seqs, n)
  <1> DEFINE Has(k) == \E flat \in [1..k -> Seq(S)]: Joins(flat, seqs, k)
             I == {k \in 1..Len(seqs): ~Has(k)}
  <1>1. Len(seqs) \in Nat /\ \A i \in 1..Len(seqs): seqs[i] \in Seq(S)
    OBVIOUS
  <1>2. SUFFICES ASSUME I # {}
                 PROVE  FALSE
    OBVIOUS
  <1>3. PICK k \in I: \A m \in I: k <= m
    <2>1. I \in SUBSET (1..Len(seqs))
      OBVIOUS
    <2> HIDE DEF I
    <2> QED
      BY <1>1, <1>2, <2>1, LeastExists
  <1>4. k \in 1..Len(seqs) /\ ~Has(k)
    OBVIOUS
  <1>5. CASE k = 1
    <2> DEFINE flat == [i \in 1..1 |-> seqs[1]]
    <2>1. flat \in [1..k -> Seq(S)]
      BY <1>1, <1>4, <1>5
    <2>2. Joins(flat, seqs, k)
      BY <1>5 DEF Joins
    <2>3. QED
      BY <1>4, <2>1, <2>2
  <1>6. CASE k # 1
    <2>1. k - 1 \in 1..Len(seqs) /\ k - 1 \notin I
      <3> HIDE DEF I, Has
      <3>1. k - 1 \in 1..Len(seqs) /\ ~(k <= k - 1)
        BY <1>1, <1>4, <1>6
      <3>2. QED
        BY <1>3, <3>1
    <2>2. Has(k - 1)
      BY <2>1
    <2>3. PICK less \in [1..k - 1 -> Seq(S)]: Joins(less, seqs, k - 1)
      BY <2>2
    <2> DEFINE flat == [i \in 1..k |-> IF i = k THEN less[k - 1] \o seqs[k]
                                       ELSE less[i]]
    <2>4. less[k - 1] \in Seq(S) /\ seqs[k] \in Seq(S)
      BY <1>1, <1>4, <1>6
    <2>5. less[k - 1] \o seqs[k] \in Seq(S)
      BY <2>4, ConcatProperties
    <2>6. flat \in [1..k -> Seq(S)]
      <3>1. ASSUME NEW i \in 1..k
            PROVE  (IF i = k THEN less[k - 1] \o seqs[k] ELSE less[i]) \in Seq(S)
        <4>1. i # k => i \in 1..k - 1
          BY <1>1, <1>4
        <4>2. QED
          BY <2>5, <4>1
      <3>2. QED
        BY <3>1
    <2>7. Joins(flat, seqs, k)
      <3>1. ASSUME NEW i \in 1..k
            PROVE  flat[i] = IF i = 1 THEN seqs[i] ELSE flat[i - 1] \o seqs[i]
        <4>1. CASE i = k
          <5>1. i - 1 \in 1..k /\ i - 1 # k /\ i # 1
            BY <1>1, <1>4, <1>6, <4>1
          <5>2. flat[i - 1] = less[k - 1]
            BY <4>1, <5>1
          <5>3. flat[i] = less[k - 1] \o seqs[k]
            BY <4>1
          <5>4. QED
            BY <4>1, <5>1, <5>2, <5>3
        <4>2. CASE i # k
          <5>1. i \in 1..k - 1 /\ (i # 1 => i - 1 \in 1..k /\ i - 1 # k)
            BY <1>1, <1>4, <4>2
          <5>2. flat[i] = less[i] /\ (i # 1 => flat[i - 1] = less[i - 1])
            BY <4>2, <5>1
          <5>3. less[i] = IF i = 1 THEN seqs[i] ELSE less[i - 1] \o seqs[i]
            BY <2>3, <5>1 DEF Joins
          <5> HIDE DEF flat
          <5>4. QED
            BY <5>2, <5>3
        <4>3. QED
          BY <4>1, <4>2
      <3> HIDE DEF flat
      <3>2. QED
        BY <3>1 DEF Joins
    <2> HIDE DEF flat
    <2>8. QED
      BY <1>4, <2>6, <2>7
  <1>7. QED
    BY <1>5, <1>6

\* Each list is part of what FlattenSeq makes of them, which has no more.
LEMMA FlattenHasParts ==
    ASSUME NEW S, NEW seqs \in Seq(Seq(S))
    PROVE  /\ FlattenSeq(seqs) \in Seq(S)
           /\ \A i \in DOMAIN seqs: Range(seqs[i]) \subseteq Range(FlattenSeq(seqs))
           /\ \A x \in Range(FlattenSeq(seqs)):
                \E i \in DOMAIN seqs: x \in Range(seqs[i])
  <1>1. CASE Len(seqs) = 0
    <2>1. seqs = << >> /\ FlattenSeq(seqs) = << >>
      BY <1>1 DEF FlattenSeq
    <2>2. DOMAIN seqs = {}
      BY <1>1
    <2>3. << >> \in Seq(S) /\ Range(<< >>) = {}
      BY DEF Range
    <2>4. QED
      BY <2>1, <2>2, <2>3
  <1>2. CASE Len(seqs) # 0
    <2> DEFINE n == Len(seqs)
               Flat(f) == f = [i \in 1..n |-> IF i = 1 THEN seqs[i]
                                              ELSE f[i - 1] \o seqs[i]]
               flatten == CHOOSE f: Flat(f)
    <2>1. n \in Nat /\ n \in 1..n /\ DOMAIN seqs = 1..n
          /\ \A i \in 1..n: seqs[i] \in Seq(S)
      BY <1>2
    <2>2. FlattenSeq(seqs) = flatten[n]
      BY <1>2 DEF FlattenSeq
    <2>3. PICK f \in [1..n -> Seq(S)]: Joins(f, seqs, n)
      BY <2>1, JoinsExist
    <2>4. Flat(f)
      BY <2>3 DEF Joins
    <2>5. Flat(flatten)
      <3> HIDE DEF Flat
      <3> QED
        BY <2>4
    <2>6. PICK flat: flat = flatten
      OBVIOUS
    <2> HIDE DEF flatten
    <2>7. Flat(flat)
      BY <2>5, <2>6
    <2>8. Joins(flat, seqs, n)
      BY <2>7 DEF Joins
    <2> DEFINE Good(k) == /\ flat[k] \in Seq(S)
                          /\ \A j \in 1..k: Range(seqs[j]) \subseteq Range(flat[k])
                          /\ \A x \in Range(flat[k]):
                               \E j \in 1..k: x \in Range(seqs[j])
               I == {k \in 1..n: ~Good(k)}
    <2>9. I = {}
      <3>1. SUFFICES ASSUME I # {}
                     PROVE  FALSE
        OBVIOUS
      <3>2. PICK k \in I: \A m \in I: k <= m
        <4>1. I \in SUBSET (1..n)
          OBVIOUS
        <4> HIDE DEF I
        <4> QED
          BY <2>1, <3>1, <4>1, LeastExists
      <3>3. k \in 1..n /\ ~Good(k)
        OBVIOUS
      <3>4. CASE k = 1
        <4>1. flat[k] = seqs[1]
          BY <2>1, <2>8, <3>3, <3>4 DEF Joins
        <4>2. Good(1)
          BY <2>1, <3>3, <3>4, <4>1
        <4>3. QED
          BY <3>3, <3>4, <4>2
      <3>5. CASE k # 1
        <4>1. k - 1 \in 1..n /\ k - 1 \notin I
          <5> HIDE DEF I, Good
          <5>1. k - 1 \in 1..n /\ ~(k <= k - 1)
            BY <2>1, <3>3, <3>5
          <5>2. QED
            BY <3>2, <5>1
        <4>2. Good(k - 1)
          BY <4>1
        <4>3. flat[k] = flat[k - 1] \o seqs[k]
          BY <2>8, <3>3, <3>5 DEF Joins
        <4> DEFINE a == flat[k - 1]
                   b == seqs[k]
        <4>4. a \in Seq(S) /\ b \in Seq(S)
          BY <2>1, <3>3, <4>2
        <4>5. /\ \A j \in 1..k - 1: Range(seqs[j]) \subseteq Range(a)
              /\ \A x \in Range(a): \E j \in 1..k - 1: x \in Range(seqs[j])
          BY <4>2
        <4>6. flat[k] = a \o b
          BY <4>3
        <4> HIDE DEF a
        <4>7. /\ a \o b \in Seq(S)
              /\ Range(a) \subseteq Range(a \o b)
              /\ Range(b) \subseteq Range(a \o b)
              /\ \A x \in Range(a \o b): x \in Range(a) \/ x \in Range(b)
          <5>1. a \o b \in Seq(S) /\ Len(a \o b) = Len(a) + Len(b)
            BY <4>4
          <5>2. ASSUME NEW i \in DOMAIN a
                PROVE  a[i] \in Range(a \o b)
            <6>1. i \in DOMAIN (a \o b) /\ (a \o b)[i] = a[i]
              BY <4>4
            <6>2. QED
              BY <6>1 DEF Range
          <5>3. ASSUME NEW i \in DOMAIN b
                PROVE  b[i] \in Range(a \o b)
            <6>1. i + Len(a) \in DOMAIN (a \o b) /\ (a \o b)[i + Len(a)] = b[i]
              BY <4>4
            <6>2. QED
              BY <6>1 DEF Range
          <5>4. ASSUME NEW i \in DOMAIN (a \o b)
                PROVE  (a \o b)[i] \in Range(a) \/ (a \o b)[i] \in Range(b)
            <6>1. CASE i <= Len(a)
              <7>1. i \in DOMAIN a /\ (a \o b)[i] = a[i]
                BY <4>4, <6>1
              <7>2. QED
                BY <7>1 DEF Range
            <6>2. CASE ~(i <= Len(a))
              <7>1. i - Len(a) \in DOMAIN b /\ (a \o b)[i] = b[i - Len(a)]
                BY <4>4, <6>2
              <7>2. QED
                BY <7>1 DEF Range
            <6>3. QED
              BY <6>1, <6>2
          <5>5. QED
            BY <5>1, <5>2, <5>3, <5>4 DEF Range
        <4>8. ASSUME NEW j \in 1..k
              PROVE  Range(seqs[j]) \subseteq Range(a \o b)
          <5>1. j = k \/ j \in 1..k - 1
            BY <3>3
          <5>2. QED
            BY <4>5, <4>7, <5>1
        <4>9. ASSUME NEW x \in Range(a \o b)
              PROVE  \E j \in 1..k: x \in Range(seqs[j])
          <5>1. k \in 1..k /\ 1..k - 1 \subseteq 1..k
            BY <3>3
          <5>2. QED
            BY <4>5, <4>7, <5>1
        <4>10. Good(k)
          BY <4>6, <4>7, <4>8, <4>9
        <4>11. QED
          BY <3>3, <4>10
      <3>6. QED
        BY <3>4, <3>5
    <2>10. Good(n)
      BY <2>1, <2>9
    <2>11. QED
      BY <2>1, <2>2, <2>6, <2>10
  <1>3. QED
    BY <1>1, <1>2

-----------------------------------------------------------------------------
(* The inductive invariant *)

\* What CUPS says of a printer has its defaults among what it offers, and so
\* has a Printer its own, a proxy's modes excepted; a destination nothing was
\* printed with has no options.
Listed(p) ==
    /\ p.color \in Range(p.colors)
    /\ p.quality \in Range(p.qualities)
    /\ IF p.modes = <<>> THEN p.duplex = "none" ELSE p.duplex \in Range(p.modes)
    /\ p.loaded => p.modes # <<>>

PrinterInv ==
    \A p \in Printer:
        /\ Offers(server[p])
        /\ Listed(printer[p])
        /\ ~used[p] => dest[p] = NoOptions

\* What the job says is what is meant: its places, as long as their lists
\* were not replaced under it, and the rest always.
JobInv ==
    /\ job.landscape \in meant.landscape /\ job.ranges = meant.ranges
    /\ ~moved =>
         /\ job.copies = meant.copies
         /\ job.twoSided <=> meant.duplex # "none"
         /\ job.printer # NoPrinter =>
              /\ ColorOf(job) = meant.color
              /\ QualityOf(job) = meant.quality
              /\ ModeOf(job) = meant.duplex

\* A row's places are in range as long as no list became shorter; that of the
\* mode is the first one if the printer has no modes yet.
PlacesInRange(row) ==
    LET p == printer[row.printer]
    IN  /\ row.color \in 0..Len(p.colors) - 1
        /\ row.quality \in 0..Len(p.qualities) - 1
        /\ row.duplex = 0 \/ row.duplex \in 0..Len(p.modes) - 1

\* A row is that of a job that was told of, and has the job's printer.
RowOK(row) ==
    /\ row.id \in 1..told
    /\ row.printer = jobs[row.id].printer
    /\ ~row.shrunk => PlacesInRange(row)
    /\ row.known => ShowsSent(row)

\* The rows are in the order of their jobs.
Increasing(list) ==
    \A i, j \in DOMAIN list: i < j => list[i].id < list[j].id

RowsInv ==
    /\ Increasing(rows)
    /\ \A i \in DOMAIN rows: RowOK(rows[i])

QueueTypeOK ==
    /\ state \in Seq(States) /\ Len(state) = Len(jobs)
    /\ created \in Seq(Nat) /\ Len(created) = Len(jobs)
    /\ told \in 0..Len(jobs)
    /\ rows \in Seq(Row)
    /\ view \in [Filter -> Seq(Nat)]
    /\ count \in [Filter -> Nat]

ViewInv == FiltersExact /\ CountsAnnounced

-----------------------------------------------------------------------------
(* Printers *)

\* The last of some places.
LEMMA LastIsOne ==
    ASSUME NEW n \in Nat, NEW I \in SUBSET (1..n), I # {}
    PROVE  (CHOOSE i \in I: \A j \in I: j <= i) \in I
  BY GreatestExists

\* The default quality is among those of the list, when there are any.
LEMMA QualityIsListed ==
    ASSUME NEW s \in Setting, Offers(s)
    PROVE  /\ SupportedPrintQualities(s) \in Seq(Quality)
           /\ DefaultPrintQuality(s) \in AnyQuality
           /\ DefaultPrintQuality(s) # NoQuality =>
                DefaultPrintQuality(s) \in Range(SupportedPrintQualities(s))
           /\ SupportedPrintQualities(s) # << >> =>
                DefaultPrintQuality(s) # NoQuality
  <1> DEFINE n == Len(QualityOptions)
             part(i) == [k \in DOMAIN s.names[QualityOptions[i]] |->
                            [option |-> QualityOptions[i],
                             name |-> s.names[QualityOptions[i]][k]]]
             parts == [i \in DOMAIN QualityOptions |-> part(i)]
             has == {i \in DOMAIN QualityOptions: s.names[QualityOptions[i]] # << >>}
             last == CHOOSE i \in has: \A j \in has: j <= i
  <1>1. /\ n \in Nat /\ DOMAIN QualityOptions = 1..n
        /\ \A i \in 1..n: QualityOptions[i] \in Option
    BY SettingsAssumption
  <1>2. s.names \in [Option -> Seq(Name)] /\ s.name \in [Option -> Name]
    BY DEF Setting
  <1>3. ASSUME NEW i \in 1..n
        PROVE  /\ part(i) \in Seq(Quality)
               /\ Len(part(i)) = Len(s.names[QualityOptions[i]])
    <2> DEFINE o == QualityOptions[i]
               names == s.names[o]
    <2>1. o \in Option /\ names \in Seq(Name)
      BY <1>1, <1>2
    <2>2. part(i) = [k \in 1..Len(names) |-> [option |-> o, name |-> names[k]]]
      BY <2>1
    <2>3. \A k \in 1..Len(names): [option |-> o, name |-> names[k]] \in Quality
      BY <2>1 DEF Quality
    <2> HIDE DEF o, names, part
    <2>4. QED
      BY <2>1, <2>2, <2>3 DEF o, names
  <1>4. parts \in Seq(Seq(Quality)) /\ DOMAIN parts = 1..n
    <2> HIDE DEF part, n
    <2>1. parts = [i \in 1..n |-> part(i)]
      BY <1>1
    <2>2. QED
      BY <1>1, <1>3, <2>1
  <1>5. SupportedPrintQualities(s) = FlattenSeq(parts)
    BY DEF SupportedPrintQualities
  <1> HIDE DEF parts
  <1>6. /\ SupportedPrintQualities(s) \in Seq(Quality)
        /\ \A i \in 1..n: Range(parts[i]) \subseteq Range(SupportedPrintQualities(s))
        /\ \A x \in Range(SupportedPrintQualities(s)):
             \E i \in 1..n: x \in Range(parts[i])
    BY <1>4, <1>5, FlattenHasParts
  <1>7. CASE has = {}
    <2>1. DefaultPrintQuality(s) = NoQuality
      BY <1>7 DEF DefaultPrintQuality
    <2>2. ASSUME NEW i \in 1..n
          PROVE  Range(parts[i]) = {}
      <3>1. Len(s.names[QualityOptions[i]]) = 0 /\ parts[i] = part(i)
        BY <1>1, <1>7 DEF parts
      <3>2. part(i) \in Seq(Quality) /\ Len(part(i)) = 0
        BY <1>3, <3>1
      <3> HIDE DEF part
      <3>3. DOMAIN part(i) = {}
        BY <3>2
      <3>4. QED
        BY <3>1, <3>3 DEF Range
    <2>3. Range(SupportedPrintQualities(s)) = {}
      BY <1>6, <2>2
    <2>4. SupportedPrintQualities(s) = << >>
      <3>1. \A seq \in Seq(Quality): seq # << >> => seq[1] \in Range(seq)
        BY DEF Range
      <3>2. QED
        BY <1>6, <2>3, <3>1
    <2>5. QED
      BY <1>6, <2>1, <2>4 DEF AnyQuality
  <1>8. CASE has # {}
    <2> DEFINE o == QualityOptions[last]
    <2>1. last \in has
      <3>1. has \in SUBSET (1..n)
        BY <1>1
      <3> HIDE DEF has, n
      <3>2. QED
        BY <1>1, <1>8, <3>1, LastIsOne
    <2>2. last \in 1..n /\ o \in Option /\ s.names[o] # << >>
      BY <1>1, <2>1
    <2>3. DefaultPrintQuality(s) = [option |-> o, name |-> s.name[o]]
      BY <1>8 DEF DefaultPrintQuality
    <2>4. s.name[o] \in Range(s.names[o])
      BY <2>2 DEF Offers
    <2>5. PICK k \in DOMAIN s.names[o]: s.name[o] = s.names[o][k]
      BY <2>4 DEF Range
    <2>6. /\ parts[last] = part(last)
          /\ DOMAIN parts[last] = DOMAIN s.names[o]
          /\ parts[last][k] = [option |-> o, name |-> s.name[o]]
      BY <1>1, <2>2, <2>5 DEF parts
    <2>7. DefaultPrintQuality(s) \in Range(parts[last])
      BY <2>3, <2>5, <2>6 DEF Range
    <2>8. DefaultPrintQuality(s) \in Quality
      BY <1>2, <2>2, <2>3 DEF Quality
    <2>9. DefaultPrintQuality(s) # NoQuality
      BY <2>8, SettingsAssumption DEF Quality
    <2> HIDE DEF last
    <2>10. QED
      BY <1>6, <2>2, <2>7, <2>8, <2>9 DEF AnyQuality
  <1>9. QED
    BY <1>7, <1>8

LEMMA OptionFacts ==
    /\ Option = Range(QualityOptions) /\ NoQuality \notin Quality
    /\ 1 \in Copies /\ Copies \subseteq Nat /\ 0 \in Ranges /\ Ranges \subseteq Nat
    /\ NoColor \in Color /\ "none" \in Mode /\ NoQuality \in AnyQuality
    /\ NoPrinter \notin Printer
  BY SettingsAssumption DEF Option, Quality, AnyQuality, Copies, Ranges, Mode

LEMMA ProxyIsListed == Proxy \in AnyPrinter /\ Listed(Proxy) /\ ~Proxy.loaded
  <1>1. Proxy \in AnyPrinter
    BY OptionFacts DEF Proxy, AnyPrinter
  <1>2. <<NoColor>>[1] = NoColor /\ 1 \in DOMAIN <<NoColor>>
        /\ <<NoQuality>>[1] = NoQuality /\ 1 \in DOMAIN <<NoQuality>>
    OBVIOUS
  <1>3. NoColor \in Range(<<NoColor>>) /\ NoQuality \in Range(<<NoQuality>>)
    BY <1>2 DEF Range
  <1>4. QED
    BY <1>1, <1>3 DEF Proxy, Listed

LEMMA DefaultIsListed ==
    ASSUME NEW S, NEW list \in Seq(S), NEW default \in S,
           list # << >> => default \in Range(list)
    PROVE  /\ OrDefault(list, default) \in Seq(S)
           /\ OrDefault(list, default) # << >>
           /\ default \in Range(OrDefault(list, default))
  <1>1. CASE list = << >>
    <2>1. <<default>>[1] = default /\ 1 \in DOMAIN <<default>>
      OBVIOUS
    <2>2. default \in Range(<<default>>)
      BY <2>1 DEF Range
    <2>3. QED
      BY <1>1, <2>2 DEF OrDefault
  <1>2. CASE list # << >>
    BY <1>2 DEF OrDefault
  <1>3. QED
    BY <1>1, <1>2

\* A printer that is loaded has its defaults in its lists.
LEMMA LoadedIsListed ==
    ASSUME NEW s \in Setting, Offers(s), NEW fails \in BOOLEAN
    PROVE  /\ Loaded(s, fails) \in AnyPrinter
           /\ Listed(Loaded(s, fails))
           /\ Loaded(s, fails).loaded
  <1> DEFINE colors == OrDefault(s.colors, s.color)
             qualities == OrDefault(SupportedPrintQualities(s), DefaultPrintQuality(s))
             modes == SupportedDuplexModes(s)
             copies == CopiesRead(s, fails)
  <1>1. /\ s.colors \in Seq(Color) /\ s.color \in Color
        /\ s.modes \in Seq(Mode) /\ s.duplex \in Mode /\ s.copies \in Copies
    BY DEF Setting
  <1>2. s.colors # << >> => s.color \in Range(s.colors)
    BY DEF Offers
  <1>3. colors \in Seq(Color) /\ s.color \in Range(colors)
    BY <1>1, <1>2, DefaultIsListed
  <1>4. /\ SupportedPrintQualities(s) \in Seq(AnyQuality)
        /\ DefaultPrintQuality(s) \in AnyQuality
        /\ SupportedPrintQualities(s) # << >> =>
             \/ DefaultPrintQuality(s) \in Range(SupportedPrintQualities(s))
             \/ DefaultPrintQuality(s) = NoQuality
    <2>1. Quality \subseteq AnyQuality
      BY DEF AnyQuality
    <2>2. QED
      BY <2>1, QualityIsListed, SeqMonotonic
  <1>5. SupportedPrintQualities(s) # << >> => DefaultPrintQuality(s) # NoQuality
    BY QualityIsListed
  <1>6. qualities \in Seq(AnyQuality) /\ DefaultPrintQuality(s) \in Range(qualities)
    BY <1>4, <1>5, DefaultIsListed
  <1>7. modes \in Seq(Mode) /\ modes # << >> /\ s.duplex \in Range(modes)
    <2>1. CASE s.modes = << >>
      <3>1. s.duplex = "none" /\ modes = OrDefault(s.modes, s.duplex)
        BY <2>1 DEF Offers, SupportedDuplexModes
      <3>2. QED
        BY <1>1, <2>1, <3>1, DefaultIsListed
    <2>2. CASE s.modes # << >>
      <3>1. s.duplex \in Range(s.modes) /\ modes = s.modes
        BY <2>2 DEF Offers, SupportedDuplexModes, OrDefault
      <3>2. QED
        BY <1>1, <2>2, <3>1
    <2>3. QED
      BY <2>1, <2>2
  <1>8. copies \in Copies
    BY <1>1, OptionFacts DEF CopiesRead
  <1> HIDE DEF colors, qualities, modes, copies
  <1>9. Loaded(s, fails) =
          [loaded |-> TRUE, colors |-> colors, color |-> s.color,
           qualities |-> qualities, quality |-> DefaultPrintQuality(s),
           modes |-> modes, duplex |-> s.duplex, copies |-> copies]
    BY DEF Loaded, colors, qualities, modes, copies
  <1>10. Loaded(s, fails) \in AnyPrinter
    BY <1>1, <1>3, <1>4, <1>6, <1>7, <1>8, <1>9 DEF AnyPrinter
  <1>11. QED
    BY <1>3, <1>6, <1>7, <1>9, <1>10 DEF Listed

-----------------------------------------------------------------------------
(* Jobs and what they name *)

LEMMA AtTypes ==
    ASSUME NEW S, NEW list \in Seq(S), NEW place \in Int, NEW otherwise \in S
    PROVE  At(list, place, otherwise) \in S
  <1>1. Len(list) \in Nat /\ \A i \in 1..Len(list): list[i] \in S
    OBVIOUS
  <1>2. CASE place > -1 /\ place < Len(list)
    <2>1. place + 1 \in 1..Len(list)
      BY <1>1, <1>2
    <2>2. QED
      BY <1>1, <1>2, <2>1 DEF At
  <1>3. CASE ~(place > -1 /\ place < Len(list))
    BY <1>3 DEF At
  <1>4. QED
    BY <1>2, <1>3

LEMMA AtPlace ==
    ASSUME NEW S, NEW list \in Seq(S), NEW place \in DOMAIN list, NEW otherwise
    PROVE  At(list, place - 1, otherwise) = list[place] /\ place - 1 \in Int
  BY DEF At

LEMMA IndexTypes ==
    ASSUME NEW S, NEW list \in Seq(S), NEW value
    PROVE  IndexOf(list, value) \in Int
  <1>1. CASE value \in Range(list)
    BY <1>1, PlaceOfValue
  <1>2. CASE value \notin Range(list)
    <2>1. IndexOf(list, value) = -1
      BY <1>2 DEF IndexOf, Range
    <2>2. QED
      BY <2>1
  <1>3. QED
    BY <1>1, <1>2

\* What a job names is a colour model, a quality and a mode.
LEMMA NamedTypes ==
    ASSUME JobTypeOK, NEW j \in AnyJob
    PROVE  ColorOf(j) \in Color /\ QualityOf(j) \in AnyQuality /\ ModeOf(j) \in Mode
  <1>1. j.printer \in Printer \cup {NoPrinter}
        /\ j.color \in Int /\ j.quality \in Int /\ j.duplex \in Int
    BY DEF AnyJob
  <1>2. ASSUME NEW p \in Printer
        PROVE  /\ printer[p].colors \in Seq(Color)
               /\ printer[p].qualities \in Seq(AnyQuality)
               /\ printer[p].modes \in Seq(Mode)
    BY DEF JobTypeOK, AnyPrinter
  <1>3. CASE j.printer = NoPrinter
    BY <1>3, OptionFacts DEF ColorOf, QualityOf, ModeOf
  <1>4. CASE j.printer # NoPrinter
    <2>1. PICK p \in Printer: j.printer = p
      BY <1>1, <1>4
    <2>2. /\ At(printer[p].colors, j.color, NoColor) \in Color
          /\ At(printer[p].qualities, j.quality, NoQuality) \in AnyQuality
          /\ At(printer[p].modes, j.duplex, "none") \in Mode
      BY <1>1, <1>2, OptionFacts, AtTypes
    <2>3. QED
      BY <1>4, <2>1, <2>2 DEF ColorOf, QualityOf, ModeOf
  <1>5. QED
    BY <1>3, <1>4

\* A job that is given a printer, and is not in the queue yet, has its
\* defaults.
LEMMA WithPrinterTypes ==
    ASSUME JobTypeOK, PrinterInv, NEW j \in AnyJob, NEW p \in Printer
    PROVE  /\ WithPrinter(j, p) \in AnyJob
           /\ WithPrinter(j, p).printer = p
           /\ WithPrinter(j, p).landscape = j.landscape
           /\ WithPrinter(j, p).ranges = j.ranges
           /\ WithPrinter(j, p).jobId = j.jobId
           /\ j.jobId <= 0 =>
                /\ ColorOf(WithPrinter(j, p)) = printer[p].color
                /\ QualityOf(WithPrinter(j, p)) = printer[p].quality
                /\ ModeOf(WithPrinter(j, p)) = printer[p].duplex
                /\ WithPrinter(j, p).twoSided <=> printer[p].duplex # "none"
  <1> DEFINE d == printer[p]
             there == [j EXCEPT !.printer = p, !.copies = CopiesWith(j, d)]
             place == IndexOf(d.modes, d.duplex)
  <1>1. /\ d \in AnyPrinter /\ Listed(d)
        /\ d.colors \in Seq(Color) /\ d.qualities \in Seq(AnyQuality)
        /\ d.modes \in Seq(Mode) /\ d.copies \in Copies
    BY DEF JobTypeOK, PrinterInv, AnyPrinter
  <1>2. CopiesWith(j, d) \in Copies
    BY <1>1 DEF CopiesWith, AnyJob
  <1>3. /\ there \in AnyJob /\ there.printer = p /\ there.jobId = j.jobId
        /\ there.landscape = j.landscape /\ there.ranges = j.ranges
    BY <1>2 DEF AnyJob
  <1> HIDE DEF there
  <1>4. CASE ~(j.jobId <= 0)
    <2>1. WithPrinter(j, p) = there
      BY <1>4 DEF WithPrinter, there
    <2>2. QED
      BY <1>3, <1>4, <2>1
  <1>5. CASE j.jobId <= 0
    <2>1. WithPrinter(j, p) = Defaults(there, d)
      BY <1>5 DEF WithPrinter, there
    <2> DEFINE w == Defaults(there, d)
    <2>2. /\ IndexOf(d.colors, d.color) \in Int /\ IndexOf(d.qualities, d.quality) \in Int
          /\ place \in Int
      BY <1>1, IndexTypes
    <2>3. /\ w \in AnyJob /\ w.printer = p /\ w.jobId = j.jobId
          /\ w.landscape = j.landscape /\ w.ranges = j.ranges
          /\ w.color = IndexOf(d.colors, d.color)
          /\ w.quality = IndexOf(d.qualities, d.quality)
          /\ w.duplex = place
          /\ w.twoSided = (At(d.modes, place, "none") # "none")
      <3> HIDE DEF d, place
      <3> QED
        BY <1>3, <2>2 DEF Defaults, AnyJob, place
    <2>4. /\ At(d.colors, w.color, NoColor) = d.color
          /\ At(d.qualities, w.quality, NoQuality) = d.quality
      BY <1>1, <2>3, PlaceOfValue DEF Listed
    <2>5. At(d.modes, place, "none") = d.duplex
      <3>1. CASE d.modes = << >>
        BY <1>1, <3>1, PlaceOfNone DEF Listed
      <3>2. CASE d.modes # << >>
        BY <1>1, <3>2, PlaceOfValue DEF Listed
      <3>3. QED
        BY <3>1, <3>2
    <2> HIDE DEF w, place
    <2>6. ColorOf(w) = d.color /\ QualityOf(w) = d.quality /\ ModeOf(w) = d.duplex
      BY <2>3, <2>4, <2>5, OptionFacts DEF ColorOf, QualityOf, ModeOf
    <2>7. QED
      BY <2>1, <2>3, <2>5, <2>6 DEF w
  <1>6. QED
    BY <1>4, <1>5

\* What is sent of a job.
LEMMA SentTypes ==
    ASSUME JobTypeOK, NEW j \in AnyJob, j.printer # NoPrinter
    PROVE  /\ MakeDest(dest[j.printer], j) \in Destination
           /\ Sent(j) \in SentJob
           /\ PpdChoiceToDuplexMode(Sent(j).duplex) = ModeOf(j)
  <1>1. PICK p \in Printer: j.printer = p
    BY DEF AnyJob
  <1>2. dest[p] \in Destination /\ j.landscape \in BOOLEAN /\ j.ranges \in Ranges
        /\ j.copies \in Copies
    BY DEF JobTypeOK, AnyJob
  <1>3. ColorOf(j) \in Color /\ QualityOf(j) \in AnyQuality /\ ModeOf(j) \in Mode
    BY NamedTypes
  <1> DEFINE made == MakeDest(dest[p], j)
             quality == QualityOf(j)
             kept == dest[p]
  <1>4. /\ kept.landscape \in BOOLEAN /\ kept.ranges \in Ranges
        /\ kept.quality \in [Option -> AnyQuality]
    BY <1>2 DEF Destination
  <1>5. made = [landscape |-> kept.landscape \/ j.landscape,
                ranges |-> IF j.ranges > 0 THEN j.ranges ELSE kept.ranges,
                quality |-> [o \in Option |-> IF o = quality.option THEN quality
                                              ELSE kept.quality[o]]]
    BY DEF MakeDest
  <1> HIDE DEF made, kept, quality
  <1>6. made \in Destination
    <2>1. (kept.landscape \/ j.landscape) \in BOOLEAN
      BY <1>2, <1>4
    <2>2. (IF j.ranges > 0 THEN j.ranges ELSE kept.ranges) \in Ranges
      BY <1>2, <1>4
    <2>3. [o \in Option |-> IF o = quality.option THEN quality ELSE kept.quality[o]]
            \in [Option -> AnyQuality]
      BY <1>3, <1>4 DEF quality
    <2>4. QED
      BY <1>5, <2>1, <2>2, <2>3 DEF Destination
  <1>7. /\ DuplexModeToPpdChoice[ModeOf(j)] \in Range(DuplexModeToPpdChoice)
        /\ PpdChoiceToDuplexMode(DuplexModeToPpdChoice[ModeOf(j)]) = ModeOf(j)
    <2>1. DOMAIN DuplexModeToPpdChoice = Mode
      BY DEF DuplexModeToPpdChoice, Mode
    <2>2. DuplexModeToPpdChoice[ModeOf(j)] \in Range(DuplexModeToPpdChoice)
      BY <1>3, <2>1 DEF Range
    <2>3. PpdChoiceToDuplexMode(DuplexModeToPpdChoice[ModeOf(j)]) = ModeOf(j)
      BY <1>3 DEF DuplexModeToPpdChoice, Mode, PpdChoiceToDuplexMode
    <2>4. QED
      BY <2>2, <2>3
  <1>8. Sent(j) = [printer |-> p, color |-> ColorOf(j),
                   duplex |-> DuplexModeToPpdChoice[ModeOf(j)],
                   copies |-> j.copies, landscape |-> made.landscape,
                   ranges |-> made.ranges, quality |-> made.quality]
    BY <1>1 DEF Sent, made
  <1>9. made.landscape \in BOOLEAN /\ made.ranges \in Ranges
        /\ made.quality \in [Option -> AnyQuality]
    BY <1>6 DEF Destination
  <1>10. Sent(j) \in SentJob
    BY <1>2, <1>3, <1>7, <1>8, <1>9 DEF SentJob
  <1>11. QED
    BY <1>1, <1>6, <1>7, <1>8, <1>10 DEF made

-----------------------------------------------------------------------------
(* The steps of PrintJob *)

PrepareInv == JobTypeOK /\ PrinterInv /\ JobInv

LEMMA InitPrepares == JobInit => PrepareInv
  <1> SUFFICES ASSUME JobInit
               PROVE  PrepareInv
    OBVIOUS
  <1>1. /\ world \in Worlds
        /\ server \in [Printer -> UNION {Settings[p]: p \in Printer}]
        /\ \A p \in Printer: server[p] \in Settings[p]
        /\ printer = [p \in Printer |-> Proxy]
        /\ dest = [p \in Printer |-> NoOptions]
        /\ used = [p \in Printer |-> FALSE]
        /\ jobs = << >> /\ meant = NothingMeant /\ moved = FALSE
        /\ changes = 0 /\ choices = 0
    BY DEF JobInit
  <1>2. PICK landscape \in world.garbage: job = NewJob(landscape)
    BY DEF JobInit
  <1>3. landscape \in BOOLEAN
    BY <1>1, <1>2, SettingsAssumption
  <1>4. \A p \in Printer: server[p] \in Setting /\ Offers(server[p])
    BY <1>1, SettingsAssumption
  <1>5. server \in [Printer -> Setting]
    BY <1>1, <1>4
  <1>6. NoOptions \in Destination
    BY OptionFacts DEF NoOptions, Destination
  <1>7. job \in AnyJob
    BY <1>2, <1>3, OptionFacts DEF NewJob, AnyJob
  <1>8. meant \in AnyMeaning
    BY <1>1, OptionFacts DEF NothingMeant, AnyMeaning
  <1>9. JobTypeOK
    <2>1. /\ printer \in [Printer -> AnyPrinter] /\ dest \in [Printer -> Destination]
          /\ used \in [Printer -> BOOLEAN]
      BY <1>1, <1>6, ProxyIsListed
    <2>2. jobs \in Seq(SentJob)
      BY <1>1
    <2>3. changes \in Nat /\ choices \in Nat
      BY <1>1
    <2>4. moved \in BOOLEAN
      BY <1>1
    <2>5. QED
      BY <1>1, <1>5, <1>7, <1>8, <2>1, <2>2, <2>3, <2>4 DEF JobTypeOK
  <1>10. PrinterInv
    BY <1>1, <1>4, ProxyIsListed DEF PrinterInv
  <1>11. JobInv
    BY <1>1, <1>2, <1>3 DEF JobInv, NewJob, NothingMeant
  <1>12. QED
    BY <1>9, <1>10, <1>11 DEF PrepareInv

\* The job's names depend on its printer's lists only.
LEMMA NamesFollowLists ==
    ASSUME UNCHANGED job,
           job.printer # NoPrinter => /\ printer'[job.printer].colors = printer[job.printer].colors
                                      /\ printer'[job.printer].qualities = printer[job.printer].qualities
                                      /\ printer'[job.printer].modes = printer[job.printer].modes
    PROVE  ColorOf(job)' = ColorOf(job) /\ QualityOf(job)' = QualityOf(job)
           /\ ModeOf(job)' = ModeOf(job)
  <1>1. CASE job.printer = NoPrinter
    BY <1>1 DEF ColorOf, QualityOf, ModeOf
  <1>2. CASE job.printer # NoPrinter
    BY <1>2 DEF ColorOf, QualityOf, ModeOf
  <1>3. QED
    BY <1>1, <1>2

LEMMA LoadPrepares ==
    ASSUME PrepareInv, NEW p \in Printer, NEW fails \in BOOLEAN, Load(p, fails)
    PROVE  PrepareInv'
  <1> DEFINE new == Loaded(server[p], fails)
  <1> USE DEF PrepareInv
  <1>1. /\ printer' = [printer EXCEPT ![p] = new]
        /\ dest' = [dest EXCEPT ![p] = NoOptions]
        /\ used' = [used EXCEPT ![p] = FALSE]
        /\ moved' = (moved \/ (job.printer = p /\ ~SameLists(printer[p], new)))
        /\ UNCHANGED <<server, changes, world, job, jobs, meant, choices>>
    BY DEF Load, cups
  <1>2. new \in AnyPrinter /\ Listed(new) /\ new.loaded
    BY LoadedIsListed DEF JobTypeOK, PrinterInv
  <1> HIDE DEF new
  <1>3. NoOptions \in Destination
    BY OptionFacts DEF NoOptions, Destination
  <1>4. JobTypeOK'
    BY <1>1, <1>2, <1>3 DEF JobTypeOK
  <1>5. PrinterInv'
    BY <1>1, <1>2 DEF PrinterInv, JobTypeOK
  <1>6. JobInv'
    <2>1. CASE moved'
      BY <1>1, <2>1 DEF JobInv
    <2>2. CASE ~moved'
      <3>1. ~moved /\ (job.printer = p => SameLists(printer[p], new))
        BY <1>1, <2>2
      <3>2. job.printer # NoPrinter => job.printer \in Printer
        BY DEF JobTypeOK, AnyJob
      <3>3. job.printer # NoPrinter =>
              /\ printer'[job.printer].colors = printer[job.printer].colors
              /\ printer'[job.printer].qualities = printer[job.printer].qualities
              /\ printer'[job.printer].modes = printer[job.printer].modes
        BY <1>1, <3>1, <3>2 DEF SameLists, Fields, JobTypeOK
      <3>4. ColorOf(job)' = ColorOf(job) /\ QualityOf(job)' = QualityOf(job)
            /\ ModeOf(job)' = ModeOf(job)
        BY <1>1, <3>3, NamesFollowLists
      <3>5. QED
        BY <1>1, <3>1, <3>4 DEF JobInv
    <2>3. QED
      BY <2>1, <2>2 DEF JobTypeOK
  <1>7. QED
    BY <1>4, <1>5, <1>6

LEMMA AdministerPrepares ==
    ASSUME PrepareInv, NEW p \in Printer, NEW s \in Setting, Offers(s),
           Administer(p, s)
    PROVE  PrepareInv'
  <1> USE DEF PrepareInv
  <1>1. /\ changes' = changes + 1 /\ server' = [server EXCEPT ![p] = s]
        /\ UNCHANGED <<world, printer, dest, jobs, used, job, meant, moved, choices>>
    BY DEF Administer, printing, preparing
  <1>2. JobTypeOK'
    BY <1>1 DEF JobTypeOK
  <1>3. PrinterInv'
    BY <1>1 DEF PrinterInv, JobTypeOK
  <1>4. JobInv'
    BY <1>1 DEF JobInv, ColorOf, QualityOf, ModeOf
  <1>5. QED
    BY <1>2, <1>3, <1>4

LEMMA SetDataPrepares ==
    ASSUME PrepareInv, NEW p \in Printer, SetData(p)
    PROVE  PrepareInv'
  <1> DEFINE s == server[p]
  <1> USE DEF PrepareInv
  <1>1. s \in Setting /\ Offers(s)
    BY DEF JobTypeOK, PrinterInv
  <1>2. /\ s.colors \in Seq(Color) /\ s.color \in Color
        /\ s.names \in [Option -> Seq(Name)] /\ s.name \in [Option -> Name]
        /\ s.modes \in Seq(Mode) /\ s.duplex \in Mode /\ s.copies \in Copies
    BY <1>1 DEF Setting
  <1>3. \A S: \A list \in Seq(S): \A x \in Range(list): x \in S /\ list # << >>
    BY DEF Range
  <1>4. ASSUME NEW color, SetDefaultColorModel(p, color)
        PROVE  PrepareInv'
    <2> DEFINE t == [s EXCEPT !.color = color]
    <2>1. color \in Range(s.colors) /\ Administer(p, t)
      BY <1>4 DEF SetDefaultColorModel
    <2>2. color \in Color /\ s.colors # << >>
      BY <1>2, <1>3, <2>1
    <2>3. t \in Setting
      BY <1>1, <2>2 DEF Setting
    <2>4. Offers(t)
      BY <1>1, <2>1, <2>2 DEF Offers, Setting
    <2> HIDE DEF t
    <2>5. QED
      BY <2>1, <2>3, <2>4, AdministerPrepares
  <1>5. ASSUME NEW quality, SetDefaultPrintQuality(p, quality)
        PROVE  PrepareInv'
    <2> DEFINE o == quality.option
               t == [s EXCEPT !.name[o] = quality.name]
    <2>1. /\ o \in Option /\ quality.name \in Range(s.names[o])
          /\ Administer(p, t)
      BY <1>5 DEF SetDefaultPrintQuality
    <2>2. quality.name \in Name
      BY <1>2, <1>3, <2>1
    <2>3. t = [s EXCEPT !.name = [s.name EXCEPT ![o] = quality.name]]
      BY <1>1, <2>1 DEF Setting
    <2>4. [s.name EXCEPT ![o] = quality.name] \in [Option -> Name]
      BY <1>2, <2>2
    <2> HIDE DEF t
    <2>5. t \in Setting
      BY <1>1, <2>3, <2>4 DEF Setting
    <2>6. Offers(t)
      <3>1. /\ t.colors = s.colors /\ t.color = s.color /\ t.names = s.names
            /\ t.modes = s.modes /\ t.duplex = s.duplex
            /\ t.name = [s.name EXCEPT ![o] = quality.name]
        BY <1>1, <2>3 DEF Setting
      <3>2. QED
        BY <1>1, <1>2, <2>1, <3>1 DEF Offers
    <2>7. QED
      BY <2>1, <2>5, <2>6, AdministerPrepares
  <1>6. ASSUME NEW mode, SetDefaultDuplexMode(p, mode)
        PROVE  PrepareInv'
    <2> DEFINE t == [s EXCEPT !.duplex = mode]
    <2>1. mode \in Range(s.modes) /\ Administer(p, t)
      BY <1>6 DEF SetDefaultDuplexMode
    <2>2. mode \in Mode /\ s.modes # << >>
      BY <1>2, <1>3, <2>1
    <2>3. t \in Setting
      BY <1>1, <2>2 DEF Setting
    <2>4. Offers(t)
      BY <1>1, <2>1, <2>2 DEF Offers, Setting
    <2> HIDE DEF t
    <2>5. QED
      BY <2>1, <2>3, <2>4, AdministerPrepares
  <1>7. QED
    BY <1>4, <1>5, <1>6 DEF SetData

LEMMA SetPrinterPrepares ==
    ASSUME PrepareInv, NEW p \in Printer, SetPrinter(p)
    PROVE  PrepareInv'
  <1> USE DEF PrepareInv
  <1> DEFINE w == WithPrinter(job, p)
  <1>1. /\ job' = w /\ choices' = choices + 1 /\ moved' = (job.jobId > 0)
        /\ meant' = IF job.jobId > 0 THEN meant
                    ELSE [meant EXCEPT !.color = printer[p].color,
                                       !.quality = printer[p].quality,
                                       !.duplex = printer[p].duplex,
                                       !.copies = job'.copies]
        /\ UNCHANGED <<server, changes, world, printer, dest, jobs, used>>
    BY DEF SetPrinter, cups, printing
  <1>2. job \in AnyJob /\ job.jobId \in Int /\ meant \in AnyMeaning
    BY DEF JobTypeOK, AnyJob
  <1>3. /\ w \in AnyJob /\ w.printer = p /\ w.landscape = job.landscape
        /\ w.ranges = job.ranges /\ w.jobId = job.jobId
        /\ job.jobId <= 0 =>
             /\ ColorOf(w) = printer[p].color /\ QualityOf(w) = printer[p].quality
             /\ ModeOf(w) = printer[p].duplex
             /\ w.twoSided <=> printer[p].duplex # "none"
    BY <1>2, WithPrinterTypes
  <1>4. /\ printer[p].color \in Color /\ printer[p].quality \in AnyQuality
        /\ printer[p].duplex \in Mode /\ w.copies \in Copies
    BY <1>3 DEF JobTypeOK, AnyPrinter, AnyJob
  <1>5. PICK j: j = w
    OBVIOUS
  <1> HIDE DEF w
  <1>6. meant' \in AnyMeaning
    BY <1>1, <1>2, <1>4 DEF AnyMeaning
  <1>7. JobTypeOK'
    BY <1>1, <1>2, <1>3, <1>6 DEF JobTypeOK
  <1>8. PrinterInv'
    BY <1>1 DEF PrinterInv
  <1>9. JobInv'
    <2>1. meant'.landscape = meant.landscape /\ meant'.ranges = meant.ranges
      BY <1>1, <1>2 DEF AnyMeaning
    <2>2. job'.landscape \in meant'.landscape /\ job'.ranges = meant'.ranges
      BY <1>1, <1>3, <2>1 DEF JobInv
    <2>3. ASSUME ~moved'
          PROVE  /\ job'.copies = meant'.copies
                 /\ job'.twoSided <=> meant'.duplex # "none"
                 /\ ColorOf(job)' = meant'.color /\ QualityOf(job)' = meant'.quality
                 /\ ModeOf(job)' = meant'.duplex
      <3>1. job.jobId <= 0 /\ ~(job.jobId > 0)
        <4>1. ~(job.jobId > 0)
          BY <1>1, <2>3
        <4>2. QED
          BY <1>2, <4>1
      <3>2. /\ meant'.color = printer[p].color /\ meant'.quality = printer[p].quality
            /\ meant'.duplex = printer[p].duplex /\ meant'.copies = w.copies
        BY <1>1, <1>2, <3>1 DEF AnyMeaning
      <3>3. ColorOf(job)' = ColorOf(w) /\ QualityOf(job)' = QualityOf(w)
            /\ ModeOf(job)' = ModeOf(w)
        BY <1>1 DEF ColorOf, QualityOf, ModeOf
      <3>4. QED
        BY <1>1, <1>3, <3>1, <3>2, <3>3
    <2>4. QED
      BY <2>2, <2>3 DEF JobInv
  <1>10. QED
    BY <1>7, <1>8, <1>9

\* The setters of what the job has in no list.
LEMMA ChoosesPlain ==
    ASSUME PrepareInv, Choose, NEW j \in AnyJob, NEW m \in AnyMeaning,
           job' = j, meant' = m,
           j.printer = job.printer, j.color = job.color, j.quality = job.quality,
           j.duplex = job.duplex, j.twoSided = job.twoSided,
           m.color = meant.color, m.quality = meant.quality, m.duplex = meant.duplex,
           j.landscape \in m.landscape, j.ranges = m.ranges,
           ~moved => j.copies = m.copies
    PROVE  PrepareInv'
  <1> USE DEF PrepareInv
  <1>1. /\ choices' = choices + 1
        /\ UNCHANGED <<server, changes, world, printer, dest, jobs, used, moved>>
    BY DEF Choose, cups, printing
  <1>2. JobTypeOK'
    BY <1>1 DEF JobTypeOK
  <1>3. PrinterInv'
    BY <1>1 DEF PrinterInv
  <1>4. ColorOf(job)' = ColorOf(job) /\ QualityOf(job)' = QualityOf(job)
        /\ ModeOf(job)' = ModeOf(job)
    BY <1>1 DEF ColorOf, QualityOf, ModeOf
  <1>5. JobInv'
    BY <1>1, <1>4 DEF JobInv
  <1>6. QED
    BY <1>2, <1>3, <1>5

LEMMA SetLandscapePrepares ==
    ASSUME PrepareInv, NEW landscape \in BOOLEAN, SetLandscape(landscape)
    PROVE  PrepareInv'
  <1> DEFINE j == [job EXCEPT !.landscape = landscape]
             m == [meant EXCEPT !.landscape = {landscape}]
  <1>1. job \in AnyJob /\ meant \in AnyMeaning /\ JobInv
    BY DEF PrepareInv, JobTypeOK
  <1>2. /\ j \in AnyJob /\ m \in AnyMeaning
        /\ j.printer = job.printer /\ j.color = job.color /\ j.quality = job.quality
        /\ j.duplex = job.duplex /\ j.twoSided = job.twoSided
        /\ j.copies = job.copies /\ j.ranges = job.ranges /\ j.landscape = landscape
        /\ m.color = meant.color /\ m.quality = meant.quality /\ m.duplex = meant.duplex
        /\ m.copies = meant.copies /\ m.ranges = meant.ranges
        /\ m.landscape = {landscape}
    BY <1>1 DEF AnyJob, AnyMeaning
  <1>3. Choose /\ job' = j /\ meant' = m
    BY DEF SetLandscape
  <1>4. PICK k \in AnyJob, n \in AnyMeaning: k = j /\ n = m
    BY <1>2
  <1> HIDE DEF j, m
  <1>5. QED
    BY <1>1, <1>2, <1>3, <1>4, ChoosesPlain DEF JobInv

LEMMA SetPrintRangePrepares ==
    ASSUME PrepareInv, NEW ranges \in Ranges, SetPrintRange(ranges)
    PROVE  PrepareInv'
  <1> DEFINE j == [job EXCEPT !.ranges = ranges]
             m == [meant EXCEPT !.ranges = ranges]
  <1>1. job \in AnyJob /\ meant \in AnyMeaning /\ JobInv
    BY DEF PrepareInv, JobTypeOK
  <1>2. /\ j \in AnyJob /\ m \in AnyMeaning
        /\ j.printer = job.printer /\ j.color = job.color /\ j.quality = job.quality
        /\ j.duplex = job.duplex /\ j.twoSided = job.twoSided
        /\ j.copies = job.copies /\ j.landscape = job.landscape /\ j.ranges = ranges
        /\ m.color = meant.color /\ m.quality = meant.quality /\ m.duplex = meant.duplex
        /\ m.copies = meant.copies /\ m.landscape = meant.landscape /\ m.ranges = ranges
    BY <1>1 DEF AnyJob, AnyMeaning
  <1>3. Choose /\ job' = j /\ meant' = m
    BY DEF SetPrintRange
  <1>4. PICK k \in AnyJob, n \in AnyMeaning: k = j /\ n = m
    BY <1>2
  <1> HIDE DEF j, m
  <1>5. QED
    BY <1>1, <1>2, <1>3, <1>4, ChoosesPlain DEF JobInv

LEMMA SetCopiesPrepares ==
    ASSUME PrepareInv, NEW copies \in Copies, SetCopies(copies)
    PROVE  PrepareInv'
  <1> DEFINE j == [job EXCEPT !.copies = copies]
             m == [meant EXCEPT !.copies = copies]
  <1>1. job \in AnyJob /\ meant \in AnyMeaning /\ JobInv
    BY DEF PrepareInv, JobTypeOK
  <1>2. /\ j \in AnyJob /\ m \in AnyMeaning
        /\ j.printer = job.printer /\ j.color = job.color /\ j.quality = job.quality
        /\ j.duplex = job.duplex /\ j.twoSided = job.twoSided
        /\ j.landscape = job.landscape /\ j.ranges = job.ranges /\ j.copies = copies
        /\ m.color = meant.color /\ m.quality = meant.quality /\ m.duplex = meant.duplex
        /\ m.ranges = meant.ranges /\ m.landscape = meant.landscape
        /\ m.copies = copies
    BY <1>1 DEF AnyJob, AnyMeaning
  <1>3. Choose /\ job' = j /\ meant' = m
    BY DEF SetCopies
  <1>4. PICK k \in AnyJob, n \in AnyMeaning: k = j /\ n = m
    BY <1>2
  <1> HIDE DEF j, m
  <1>5. QED
    BY <1>1, <1>2, <1>3, <1>4, ChoosesPlain DEF JobInv

\* The setters of what the job has as places: the others stay.
LEMMA ChoosesListed ==
    ASSUME PrepareInv, Choose, NEW p \in Printer, job.printer = p,
           NEW j \in AnyJob, NEW m \in AnyMeaning, job' = j, meant' = m,
           j.printer = p, j.landscape = job.landscape, j.ranges = job.ranges,
           j.copies = job.copies,
           m.landscape = meant.landscape, m.ranges = meant.ranges,
           m.copies = meant.copies,
           \/ j.color = job.color /\ m.color = meant.color
           \/ At(printer[p].colors, j.color, NoColor) = m.color,
           \/ j.quality = job.quality /\ m.quality = meant.quality
           \/ At(printer[p].qualities, j.quality, NoQuality) = m.quality,
           \/ /\ j.duplex = job.duplex /\ m.duplex = meant.duplex
              /\ j.twoSided = job.twoSided
           \/ /\ At(printer[p].modes, j.duplex, "none") = m.duplex
              /\ j.twoSided <=> m.duplex # "none"
    PROVE  PrepareInv'
  <1> USE DEF PrepareInv
  <1>1. /\ choices' = choices + 1 /\ job.printer # NoPrinter
        /\ UNCHANGED <<server, changes, world, printer, dest, jobs, used, moved>>
    BY DEF Choose, cups, printing
  <1>2. JobTypeOK'
    BY <1>1 DEF JobTypeOK
  <1>3. PrinterInv'
    BY <1>1 DEF PrinterInv
  <1>4. /\ ColorOf(job)' = At(printer[p].colors, j.color, NoColor)
        /\ QualityOf(job)' = At(printer[p].qualities, j.quality, NoQuality)
        /\ ModeOf(job)' = At(printer[p].modes, j.duplex, "none")
        /\ ColorOf(job) = At(printer[p].colors, job.color, NoColor)
        /\ QualityOf(job) = At(printer[p].qualities, job.quality, NoQuality)
        /\ ModeOf(job) = At(printer[p].modes, job.duplex, "none")
    BY <1>1 DEF ColorOf, QualityOf, ModeOf
  <1>5. /\ j.landscape \in m.landscape /\ j.ranges = m.ranges
        /\ ~moved => j.copies = m.copies
    BY DEF JobInv
  <1>6. ASSUME ~moved
        PROVE  /\ j.twoSided <=> m.duplex # "none"
               /\ ColorOf(job)' = m.color /\ QualityOf(job)' = m.quality
               /\ ModeOf(job)' = m.duplex
    BY <1>1, <1>4, <1>6 DEF JobInv
  <1>7. JobInv'
    BY <1>1, <1>5, <1>6 DEF JobInv
  <1>8. QED
    BY <1>2, <1>3, <1>7

LEMMA SetColorModelPrepares ==
    ASSUME PrepareInv, SetColorModel
    PROVE  PrepareInv'
  <1>1. job \in AnyJob /\ meant \in AnyMeaning /\ job.printer # NoPrinter /\ Choose
    BY DEF PrepareInv, JobTypeOK, SetColorModel, Choose
  <1>2. PICK p \in Printer: job.printer = p
    BY <1>1 DEF AnyJob
  <1>3. PICK place \in DOMAIN printer[p].colors:
          /\ job' = [job EXCEPT !.color = place - 1]
          /\ meant' = [meant EXCEPT !.color = printer[p].colors[place]]
    BY <1>2 DEF SetColorModel
  <1> DEFINE j == [job EXCEPT !.color = place - 1]
             m == [meant EXCEPT !.color = printer[p].colors[place]]
  <1>4. printer[p].colors \in Seq(Color)
    BY DEF PrepareInv, JobTypeOK, AnyPrinter
  <1>5. printer[p].colors[place] \in Color /\ place - 1 \in Int
        /\ At(printer[p].colors, place - 1, NoColor) = printer[p].colors[place]
    BY <1>4, AtPlace
  <1>6. /\ j \in AnyJob /\ m \in AnyMeaning
        /\ j.printer = p /\ j.landscape = job.landscape /\ j.ranges = job.ranges
        /\ j.copies = job.copies /\ j.quality = job.quality /\ j.duplex = job.duplex
        /\ j.twoSided = job.twoSided /\ j.color = place - 1
        /\ m.landscape = meant.landscape /\ m.ranges = meant.ranges
        /\ m.copies = meant.copies /\ m.quality = meant.quality
        /\ m.duplex = meant.duplex /\ m.color = printer[p].colors[place]
    BY <1>1, <1>2, <1>5 DEF AnyJob, AnyMeaning
  <1>7. PICK k \in AnyJob, n \in AnyMeaning: k = j /\ n = m
    BY <1>6
  <1>8. job' = k /\ meant' = n
    BY <1>3, <1>7
  <1> HIDE DEF j, m
  <1>9. QED
    BY <1>1, <1>2, <1>5, <1>6, <1>7, <1>8, ChoosesListed

LEMMA SetQualityPrepares ==
    ASSUME PrepareInv, SetQuality
    PROVE  PrepareInv'
  <1>1. job \in AnyJob /\ meant \in AnyMeaning /\ job.printer # NoPrinter /\ Choose
    BY DEF PrepareInv, JobTypeOK, SetQuality, Choose
  <1>2. PICK p \in Printer: job.printer = p
    BY <1>1 DEF AnyJob
  <1>3. PICK place \in DOMAIN printer[p].qualities:
          /\ job' = [job EXCEPT !.quality = place - 1]
          /\ meant' = [meant EXCEPT !.quality = printer[p].qualities[place]]
    BY <1>2 DEF SetQuality
  <1> DEFINE j == [job EXCEPT !.quality = place - 1]
             m == [meant EXCEPT !.quality = printer[p].qualities[place]]
  <1>4. printer[p].qualities \in Seq(AnyQuality)
    BY DEF PrepareInv, JobTypeOK, AnyPrinter
  <1>5. printer[p].qualities[place] \in AnyQuality /\ place - 1 \in Int
        /\ At(printer[p].qualities, place - 1, NoQuality) = printer[p].qualities[place]
    BY <1>4, AtPlace
  <1>6. /\ j \in AnyJob /\ m \in AnyMeaning
        /\ j.printer = p /\ j.landscape = job.landscape /\ j.ranges = job.ranges
        /\ j.copies = job.copies /\ j.color = job.color /\ j.duplex = job.duplex
        /\ j.twoSided = job.twoSided /\ j.quality = place - 1
        /\ m.landscape = meant.landscape /\ m.ranges = meant.ranges
        /\ m.copies = meant.copies /\ m.color = meant.color
        /\ m.duplex = meant.duplex /\ m.quality = printer[p].qualities[place]
    BY <1>1, <1>2, <1>5 DEF AnyJob, AnyMeaning
  <1>7. PICK k \in AnyJob, n \in AnyMeaning: k = j /\ n = m
    BY <1>6
  <1>8. job' = k /\ meant' = n
    BY <1>3, <1>7
  <1> HIDE DEF j, m
  <1>9. QED
    BY <1>1, <1>2, <1>5, <1>6, <1>7, <1>8, ChoosesListed

LEMMA SetDuplexModePrepares ==
    ASSUME PrepareInv, SetDuplexMode
    PROVE  PrepareInv'
  <1>1. job \in AnyJob /\ meant \in AnyMeaning /\ job.printer # NoPrinter /\ Choose
    BY DEF PrepareInv, JobTypeOK, SetDuplexMode, Choose
  <1>2. PICK p \in Printer: job.printer = p
    BY <1>1 DEF AnyJob
  <1>3. PICK place \in DOMAIN printer[p].modes:
          /\ job' = [job EXCEPT !.duplex = place - 1,
                                !.twoSided = (printer[p].modes[place] # "none")]
          /\ meant' = [meant EXCEPT !.duplex = printer[p].modes[place]]
    BY <1>2 DEF SetDuplexMode
  <1> DEFINE mode == printer[p].modes[place]
             j == [job EXCEPT !.duplex = place - 1, !.twoSided = (mode # "none")]
             m == [meant EXCEPT !.duplex = mode]
  <1>4. printer[p].modes \in Seq(Mode)
    BY DEF PrepareInv, JobTypeOK, AnyPrinter
  <1>5. mode \in Mode /\ place - 1 \in Int
        /\ At(printer[p].modes, place - 1, "none") = mode
    BY <1>4, AtPlace
  <1> HIDE DEF mode
  <1>6. /\ j \in AnyJob /\ m \in AnyMeaning
        /\ j.printer = p /\ j.landscape = job.landscape /\ j.ranges = job.ranges
        /\ j.copies = job.copies /\ j.color = job.color /\ j.quality = job.quality
        /\ j.twoSided = (mode # "none") /\ j.duplex = place - 1
        /\ m.landscape = meant.landscape /\ m.ranges = meant.ranges
        /\ m.copies = meant.copies /\ m.color = meant.color
        /\ m.quality = meant.quality /\ m.duplex = mode
    BY <1>1, <1>2, <1>5 DEF AnyJob, AnyMeaning
  <1>7. PICK k \in AnyJob, n \in AnyMeaning: k = j /\ n = m
    BY <1>6
  <1>8. job' = k /\ meant' = n
    BY <1>3, <1>7 DEF mode
  <1> HIDE DEF j, m
  <1>9. QED
    BY <1>1, <1>2, <1>5, <1>6, <1>7, <1>8, ChoosesListed

LEMMA CreateJobPrepares ==
    ASSUME PrepareInv, NEW landscape \in BOOLEAN, CreateJob(landscape)
    PROVE  PrepareInv'
  <1> USE DEF PrepareInv
  <1>1. /\ job' = NewJob(landscape) /\ meant' = NothingMeant /\ moved' = FALSE
        /\ choices' = choices + 1
        /\ UNCHANGED <<server, changes, world, printer, dest, jobs, used>>
    BY DEF CreateJob, cups, printing
  <1>2. NewJob(landscape) \in AnyJob /\ NothingMeant \in AnyMeaning
    BY OptionFacts DEF NewJob, AnyJob, NothingMeant, AnyMeaning
  <1>3. JobTypeOK'
    <2>1. moved' \in BOOLEAN
      BY <1>1
    <2>2. choices' \in Nat /\ job' \in AnyJob /\ meant' \in AnyMeaning
      BY <1>1, <1>2 DEF JobTypeOK
    <2>3. QED
      BY <1>1, <2>1, <2>2 DEF JobTypeOK
  <1>4. PrinterInv'
    BY <1>1 DEF PrinterInv
  <1>5. JobInv'
    BY <1>1 DEF JobInv, NewJob, NothingMeant
  <1>6. QED
    BY <1>3, <1>4, <1>5

\* Printing adds to the destination what it has of the job.
LEMMA SendFileSends ==
    ASSUME JobTypeOK, PrinterInv, NEW j \in AnyJob, NEW takes \in BOOLEAN,
           SendFile(j, takes), UNCHANGED <<server, printer>>
    PROVE  /\ j.printer \in Printer
           /\ dest' \in [Printer -> Destination] /\ used' \in [Printer -> BOOLEAN]
           /\ jobs' \in Seq(SentJob)
           /\ \/ UNCHANGED jobs
              \/ jobs' = Append(jobs, Sent(j))
           /\ PrinterInv'
  <1>1. j.printer \in Printer /\ j.printer # NoPrinter
    BY DEF SendFile, AnyJob
  <1> DEFINE p == j.printer
             made == MakeDest(dest[p], j)
  <1>2. made \in Destination /\ Sent(j) \in SentJob
    BY <1>1, SentTypes
  <1> HIDE DEF made
  <1>3. /\ dest \in [Printer -> Destination] /\ used \in [Printer -> BOOLEAN]
        /\ jobs \in Seq(SentJob)
    BY DEF JobTypeOK
  <1>4. CASE ~printer[p].loaded
    <2>1. UNCHANGED <<dest, jobs, used>>
      BY <1>4 DEF SendFile, printing
    <2>2. QED
      BY <1>1, <1>3, <2>1 DEF PrinterInv
  <1>5. CASE printer[p].loaded
    <2>1. /\ dest' = [dest EXCEPT ![p] = made]
          /\ used' = [used EXCEPT ![p] = TRUE]
          /\ jobs' = IF takes THEN Append(jobs, Sent(j)) ELSE jobs
      BY <1>5 DEF SendFile, made
    <2>2. dest' \in [Printer -> Destination] /\ used' \in [Printer -> BOOLEAN]
      BY <1>1, <1>2, <1>3, <2>1
    <2>3. jobs' \in Seq(SentJob) /\ (UNCHANGED jobs \/ jobs' = Append(jobs, Sent(j)))
      <3>1. Append(jobs, Sent(j)) \in Seq(SentJob)
        BY <1>2, <1>3
      <3>2. QED
        BY <1>3, <2>1, <3>1
    <2>4. \A q \in Printer: ~used'[q] => ~used[q] /\ dest'[q] = dest[q]
      BY <1>1, <1>3, <2>1
    <2>5. PrinterInv'
      BY <2>4 DEF PrinterInv
    <2>6. QED
      BY <1>1, <2>2, <2>3, <2>5
  <1>6. QED
    BY <1>4, <1>5

LEMMA PrintFilePrepares ==
    ASSUME PrepareInv, NEW takes \in BOOLEAN, PrintFile(takes)
    PROVE  PrepareInv' /\ (UNCHANGED jobs \/ \E sent \in SentJob: jobs' = Append(jobs, sent))
  <1> USE DEF PrepareInv
  <1> DEFINE id == IdOf(job, takes)
  <1>1. /\ SendFile(job, takes) /\ job' = [job EXCEPT !.jobId = id]
        /\ UNCHANGED <<server, changes, world, printer, meant, moved, choices>>
    BY DEF PrintFile, cups
  <1>2. job \in AnyJob /\ jobs \in Seq(SentJob)
    BY DEF JobTypeOK
  <1>3. id \in Int
    BY <1>2 DEF IdOf
  <1> HIDE DEF id
  <1>4. /\ job.printer \in Printer
        /\ dest' \in [Printer -> Destination] /\ used' \in [Printer -> BOOLEAN]
        /\ jobs' \in Seq(SentJob)
        /\ UNCHANGED jobs \/ jobs' = Append(jobs, Sent(job))
        /\ PrinterInv'
    BY <1>1, <1>2, SendFileSends
  <1>5. /\ job' \in AnyJob
        /\ job'.printer = job.printer /\ job'.color = job.color
        /\ job'.quality = job.quality /\ job'.duplex = job.duplex
        /\ job'.twoSided = job.twoSided /\ job'.copies = job.copies
        /\ job'.landscape = job.landscape /\ job'.ranges = job.ranges
    BY <1>1, <1>2, <1>3 DEF AnyJob
  <1>6. JobTypeOK'
    BY <1>1, <1>4, <1>5 DEF JobTypeOK
  <1>7. ColorOf(job)' = ColorOf(job) /\ QualityOf(job)' = QualityOf(job)
        /\ ModeOf(job)' = ModeOf(job)
    BY <1>1, <1>5 DEF ColorOf, QualityOf, ModeOf
  <1>8. JobInv'
    BY <1>1, <1>5, <1>7 DEF JobInv
  <1>9. Sent(job) \in SentJob
    BY <1>2, <1>4, SentTypes, OptionFacts
  <1>10. QED
    BY <1>4, <1>6, <1>8, <1>9

LEMMA PrintTestPagePrepares ==
    ASSUME PrepareInv, NEW p \in Printer, NEW landscape \in BOOLEAN,
           NEW takes \in BOOLEAN, PrintTestPage(p, landscape, takes)
    PROVE  PrepareInv' /\ (UNCHANGED jobs \/ \E sent \in SentJob: jobs' = Append(jobs, sent))
  <1> USE DEF PrepareInv
  <1> DEFINE j == WithPrinter(NewJob(landscape), p)
  <1>1. /\ SendFile(j, takes)
        /\ UNCHANGED <<server, changes, world, printer, job, meant, moved, choices>>
    BY DEF PrintTestPage, cups, preparing
  <1>2. NewJob(landscape) \in AnyJob
    BY OptionFacts DEF NewJob, AnyJob
  <1>3. j \in AnyJob /\ j.printer = p
    BY <1>2, WithPrinterTypes
  <1> HIDE DEF j
  <1>4. /\ dest' \in [Printer -> Destination] /\ used' \in [Printer -> BOOLEAN]
        /\ jobs' \in Seq(SentJob)
        /\ UNCHANGED jobs \/ jobs' = Append(jobs, Sent(j))
        /\ PrinterInv'
    BY <1>1, <1>3, SendFileSends
  <1>5. JobTypeOK'
    BY <1>1, <1>4 DEF JobTypeOK
  <1>6. JobInv'
    BY <1>1 DEF JobInv, ColorOf, QualityOf, ModeOf
  <1>7. Sent(j) \in SentJob
    BY <1>3, SentTypes, OptionFacts
  <1>8. QED
    BY <1>4, <1>5, <1>6, <1>7

LEMMA StutterPrepares ==
    ASSUME PrepareInv, UNCHANGED jobVars
    PROVE  PrepareInv'
  <1>1. UNCHANGED <<server, changes, world, printer, dest, jobs, used, job, meant,
                    moved, choices>>
    BY DEF jobVars, cups, printing, preparing
  <1>2. QED
    BY <1>1 DEF PrepareInv, JobTypeOK, PrinterInv, JobInv, ColorOf, QualityOf, ModeOf

LEMMA PreparesStep ==
    ASSUME PrepareInv, [Next]_vars
    PROVE  PrepareInv'
  <1>1. world.fails \in SUBSET BOOLEAN
    BY SettingsAssumption DEF PrepareInv, JobTypeOK
  <1>2. CASE Chooses
    BY <1>2, SetPrinterPrepares, SetColorModelPrepares, SetQualityPrepares,
       SetDuplexModePrepares, SetLandscapePrepares, SetPrintRangePrepares,
       SetCopiesPrepares, CreateJobPrepares DEF Chooses
  <1>3. CASE Prints
    BY <1>3, PrintFilePrepares, PrintTestPagePrepares DEF Prints
  <1>4. CASE Administers
    <2>1. ASSUME NEW p \in Printer, NEW s \in Settings[p], Administer(p, s)
          PROVE  PrepareInv'
      <3>1. s \in Setting /\ Offers(s)
        BY SettingsAssumption
      <3>2. QED
        BY <2>1, <3>1, AdministerPrepares
    <2>2. QED
      BY <1>4, <2>1, SetDataPrepares DEF Administers
  <1>5. ASSUME NEW p \in Printer, NEW fails \in world.fails, PrinterLoaded(p, fails)
        PROVE  PrepareInv'
    BY <1>1, <1>5, LoadPrepares DEF PrinterLoaded
  <1>6. CASE JobCreated
    BY <1>6, StutterPrepares DEF JobCreated
  <1>7. ASSUME NEW id \in Job,
               \/ JobMoves(id)
               \/ JobState(id)
               \/ JobCompleted(id)
               \/ \E fails \in world.fails: UpdateJob(id, fails)
        PROVE  PrepareInv'
    BY <1>7, StutterPrepares DEF JobMoves, JobState, JobCompleted, UpdateJob
  <1>8. CASE UNCHANGED vars
    BY <1>8, StutterPrepares DEF vars
  <1>9. QED
    BY <1>2, <1>3, <1>4, <1>5, <1>6, <1>7, <1>8 DEF Next

LEMMA PrepareInvariant == Spec => []PrepareInv
  <1>1. Init => PrepareInv
    BY InitPrepares DEF Init
  <1>2. PrepareInv /\ [Next]_vars => PrepareInv'
    BY PreparesStep
  <1>3. QED
    BY <1>1, <1>2, PTL DEF Spec

\* A step that leaves the job's printer, its place and its modes alone leaves
\* the two as they were.
LEMMA SidesStay ==
    ASSUME job'.printer = job.printer, job'.duplex = job.duplex,
           job'.twoSided = job.twoSided,
           job.printer # NoPrinter =>
               printer'[job.printer].modes = printer[job.printer].modes
    PROVE  SidesAgree \/ job'.duplex # job.duplex => SidesAgree'
  <1>1. ModeOf(job)' = ModeOf(job)
    BY DEF ModeOf
  <1>2. QED
    BY <1>1 DEF SidesAgree

LEMMA SetPrinterAgrees ==
    ASSUME PrepareInv, NEW p \in Printer, SetPrinter(p)
    PROVE  SidesAgree' \/ (job.jobId > 0 /\ job'.printer # job.printer)
  <1>1. job \in AnyJob /\ job.jobId \in Int
    BY DEF PrepareInv, JobTypeOK, AnyJob
  <1>2. PICK w: w = WithPrinter(job, p)
    OBVIOUS
  <1>3. job' = w /\ job.printer # p /\ UNCHANGED printer
    BY <1>2 DEF SetPrinter
  <1>4. /\ w.printer = p
        /\ job.jobId <= 0 =>
             /\ ModeOf(w) = printer[p].duplex
             /\ w.twoSided <=> printer[p].duplex # "none"
    BY <1>1, <1>2, WithPrinterTypes DEF PrepareInv
  <1>5. CASE job.jobId > 0
    BY <1>3, <1>4, <1>5
  <1>6. CASE job.jobId <= 0
    <2>1. ModeOf(job)' = ModeOf(w)
      BY <1>3 DEF ModeOf
    <2>2. QED
      BY <1>3, <1>4, <1>6, <2>1 DEF SidesAgree
  <1>7. QED
    BY <1>1, <1>5, <1>6

LEMMA SetDuplexModeAgrees ==
    ASSUME PrepareInv, SetDuplexMode
    PROVE  SidesAgree'
  <1>1. job \in AnyJob /\ job.printer # NoPrinter /\ UNCHANGED printer
    BY DEF PrepareInv, JobTypeOK, SetDuplexMode, Choose
  <1>2. PICK p \in Printer: job.printer = p
    BY <1>1 DEF AnyJob
  <1>3. PICK place \in DOMAIN printer[p].modes:
          job' = [job EXCEPT !.duplex = place - 1,
                             !.twoSided = (printer[p].modes[place] # "none")]
    BY <1>2 DEF SetDuplexMode
  <1>4. /\ job'.printer = p /\ job'.duplex = place - 1
        /\ job'.twoSided = (printer[p].modes[place] # "none")
    BY <1>1, <1>2, <1>3 DEF AnyJob
  <1>5. printer[p].modes \in Seq(Mode)
    BY DEF PrepareInv, JobTypeOK, AnyPrinter
  <1>6. At(printer[p].modes, place - 1, "none") = printer[p].modes[place]
    BY <1>5, AtPlace
  <1>7. p # NoPrinter
    BY <1>1, <1>2
  <1>8. ModeOf(job)' = printer[p].modes[place]
    BY <1>1, <1>4, <1>6, <1>7 DEF ModeOf
  <1>9. QED
    BY <1>4, <1>8 DEF SidesAgree

LEMMA ChoosesAgrees ==
    ASSUME PrepareInv, Chooses
    PROVE  SidesAgree \/ job'.duplex # job.duplex =>
             \/ SidesAgree'
             \/ job.jobId > 0 /\ job'.printer # job.printer
  <1>1. job \in AnyJob
    BY DEF PrepareInv, JobTypeOK
  <1>2. ASSUME NEW p \in Printer, SetPrinter(p)
        PROVE  SidesAgree' \/ (job.jobId > 0 /\ job'.printer # job.printer)
    BY <1>2, SetPrinterAgrees
  <1>3. CASE SetDuplexMode
    BY <1>3, SetDuplexModeAgrees
  <1>4. ASSUME NEW landscape \in BOOLEAN, CreateJob(landscape)
        PROVE  SidesAgree'
    <2>1. job'.printer = NoPrinter /\ job'.twoSided = FALSE
      BY <1>4 DEF CreateJob, NewJob
    <2>2. QED
      BY <2>1 DEF SidesAgree, ModeOf
  <1>5. ASSUME \/ SetColorModel \/ SetQuality
               \/ \E landscape \in BOOLEAN: SetLandscape(landscape)
               \/ \E ranges \in Ranges: SetPrintRange(ranges)
               \/ \E copies \in Copies: SetCopies(copies)
        PROVE  SidesAgree \/ job'.duplex # job.duplex => SidesAgree'
    <2>1. /\ UNCHANGED printer /\ job'.printer = job.printer
          /\ job'.duplex = job.duplex /\ job'.twoSided = job.twoSided
      BY <1>1, <1>5 DEF SetColorModel, SetQuality, SetLandscape, SetPrintRange,
         SetCopies, Choose, AnyJob
    <2>2. QED
      BY <2>1, SidesStay
  <1>6. QED
    BY <1>2, <1>3, <1>4, <1>5 DEF Chooses

LEMMA LoadAgrees ==
    ASSUME PrepareInv, NEW p \in Printer, NEW fails, Load(p, fails)
    PROVE  SidesAgree \/ job'.duplex # job.duplex =>
             \/ SidesAgree'
             \/ job.printer = p /\ printer'[p].modes # printer[p].modes
  <1>1. printer' = [printer EXCEPT ![p] = Loaded(server[p], fails)] /\ UNCHANGED job
    BY DEF Load
  <1>2. printer \in [Printer -> AnyPrinter] /\ job.printer \in Printer \cup {NoPrinter}
    BY DEF PrepareInv, JobTypeOK, AnyJob
  <1>3. CASE job.printer = p /\ printer'[p].modes # printer[p].modes
    BY <1>3
  <1>4. CASE ~(job.printer = p /\ printer'[p].modes # printer[p].modes)
    <2>1. job.printer # NoPrinter =>
            printer'[job.printer].modes = printer[job.printer].modes
      BY <1>1, <1>2, <1>4
    <2>2. QED
      BY <1>1, <2>1, SidesStay
  <1>5. QED
    BY <1>3, <1>4

\* The job being prepared comes to say something else than its duplex mode only
\* when the modes of its printer are replaced or when it was printed and is given
\* another printer, and any step that sets the mode makes them agree again
\* (printerjob.cpp:218-224, 341-360).
THEOREM SidesComeApart == Spec => TwoSidedAgrees
  <1>1. ASSUME PrepareInv, Next
        PROVE  SidesAgree \/ job'.duplex # job.duplex =>
                 \/ SidesAgree'
                 \/ \E p \in Printer: /\ job.printer = p
                                      /\ printer'[p].modes # printer[p].modes
                 \/ job.jobId > 0 /\ job'.printer # job.printer
    <2>1. job \in AnyJob
      BY <1>1 DEF PrepareInv, JobTypeOK
    <2>2. CASE Chooses
      BY <1>1, <2>2, ChoosesAgrees
    <2>3. CASE Prints
      <3>1. /\ UNCHANGED printer /\ job'.printer = job.printer
            /\ job'.duplex = job.duplex /\ job'.twoSided = job.twoSided
        BY <2>1, <2>3 DEF Prints, PrintFile, PrintTestPage, preparing, AnyJob
      <3>2. QED
        BY <3>1, SidesStay
    <2>4. CASE Administers
      <3>1. UNCHANGED <<printer, job>>
        BY <2>4 DEF Administers, SetData, SetDefaultColorModel,
           SetDefaultPrintQuality, SetDefaultDuplexMode, Administer, preparing
      <3>2. QED
        BY <3>1, SidesStay
    <2>5. ASSUME NEW p \in Printer, NEW fails \in world.fails, PrinterLoaded(p, fails)
          PROVE  SidesAgree \/ job'.duplex # job.duplex =>
                   \/ SidesAgree'
                   \/ job.printer = p /\ printer'[p].modes # printer[p].modes
      BY <1>1, <2>5, LoadAgrees DEF PrinterLoaded
    <2>6. ASSUME \/ JobCreated
                 \/ \E id \in Job:
                       \/ JobMoves(id)
                       \/ JobState(id)
                       \/ JobCompleted(id)
                       \/ \E fails \in world.fails: UpdateJob(id, fails)
          PROVE  SidesAgree \/ job'.duplex # job.duplex => SidesAgree'
      <3>1. UNCHANGED <<printer, job>>
        BY <2>6 DEF JobCreated, JobMoves, JobState, JobCompleted, UpdateJob,
           jobVars, preparing
      <3>2. QED
        BY <3>1, SidesStay
    <2>7. QED
      BY <1>1, <2>2, <2>3, <2>4, <2>5, <2>6 DEF Next
  <1>2. PrepareInv /\ [Next]_vars =>
          [SidesAgree \/ job'.duplex # job.duplex =>
             \/ SidesAgree'
             \/ \E p \in Printer: /\ job.printer = p
                                  /\ printer'[p].modes # printer[p].modes
             \/ job.jobId > 0 /\ job'.printer # job.printer]_vars
    BY <1>1
  <1>3. QED
    BY <1>2, PrepareInvariant, PTL DEF Spec, TwoSidedAgrees

\* What is appended is the last.
LEMMA LastAppended ==
    ASSUME NEW S, NEW seq \in Seq(S), NEW x \in S
    PROVE  Last(Append(seq, x)) = x /\ Len(Append(seq, x)) = Len(seq) + 1
  BY DEF Last

LEMMA PrintsMeant ==
    ASSUME PrepareInv, NEW p \in Printer, NEW takes \in BOOLEAN, PrintFile(takes),
           job.printer = p, Len(jobs') > Len(jobs), ~moved
    PROVE  LET sent == Last(jobs')
           IN  /\ sent.color = meant.color
               /\ PpdChoiceToDuplexMode(sent.duplex) = meant.duplex
               /\ sent.copies = meant.copies
               /\ meant.quality # NoQuality
                     => sent.quality[meant.quality.option] = meant.quality
               /\ ~used[p] =>
                    /\ sent.landscape \in meant.landscape
                    /\ sent.ranges = meant.ranges
                    /\ \A o \in Option \ {meant.quality.option}:
                          sent.quality[o] = NoQuality
  <1> USE DEF PrepareInv
  <1>1. job \in AnyJob /\ jobs \in Seq(SentJob) /\ p # NoPrinter
        /\ meant.quality \in AnyQuality /\ job.landscape \in BOOLEAN
        /\ job.ranges \in Nat
    BY OptionFacts DEF JobTypeOK, AnyJob, AnyMeaning
  <1>2. SendFile(job, takes) /\ UNCHANGED <<server, printer>>
    BY DEF PrintFile, cups
  <1>3. UNCHANGED jobs \/ jobs' = Append(jobs, Sent(job))
    BY <1>1, <1>2, SendFileSends
  <1>4. Len(jobs) \in Nat
    BY <1>1
  <1>5. jobs' = Append(jobs, Sent(job))
    <2>1. jobs' # jobs
      BY <1>4
    <2>2. QED
      BY <1>3, <2>1
  <1> DEFINE sent == Sent(job)
             made == MakeDest(dest[p], job)
  <1>6. sent \in SentJob /\ PpdChoiceToDuplexMode(sent.duplex) = ModeOf(job)
    BY <1>1, SentTypes
  <1>7. Last(jobs') = sent
    <2> HIDE DEF sent
    <2> QED
      BY <1>1, <1>5, <1>6, LastAppended DEF sent
  <1>8. /\ sent.color = ColorOf(job) /\ sent.copies = job.copies
        /\ sent.landscape = made.landscape /\ sent.ranges = made.ranges
        /\ sent.quality = made.quality
    BY DEF Sent
  <1>9. /\ ColorOf(job) = meant.color /\ QualityOf(job) = meant.quality
        /\ ModeOf(job) = meant.duplex /\ job.copies = meant.copies
        /\ job.landscape \in meant.landscape /\ job.ranges = meant.ranges
    BY <1>1 DEF JobInv
  <1> HIDE DEF sent
  <1>10. /\ made.landscape = (dest[p].landscape \/ job.landscape)
         /\ made.ranges = IF job.ranges > 0 THEN job.ranges ELSE dest[p].ranges
         /\ made.quality = [o \in Option |-> IF o = meant.quality.option
                                             THEN meant.quality
                                             ELSE dest[p].quality[o]]
    BY <1>9 DEF MakeDest
  <1> HIDE DEF made
  <1>11. meant.quality # NoQuality => meant.quality.option \in Option
    BY <1>1 DEF AnyQuality, Quality
  <1>12. meant.quality # NoQuality
           => sent.quality[meant.quality.option] = meant.quality
    BY <1>8, <1>10, <1>11
  <1>13. ASSUME ~used[p]
         PROVE  /\ sent.landscape \in meant.landscape
                /\ sent.ranges = meant.ranges
                /\ \A o \in Option \ {meant.quality.option}:
                      sent.quality[o] = NoQuality
    <2>1. /\ dest[p].landscape = FALSE /\ dest[p].ranges = 0
          /\ \A o \in Option: dest[p].quality[o] = NoQuality
      BY <1>13 DEF PrinterInv, NoOptions
    <2>2. made.landscape = job.landscape
      BY <1>1, <1>10, <2>1
    <2>3. made.ranges = job.ranges
      BY <1>1, <1>10, <2>1
    <2>4. \A o \in Option \ {meant.quality.option}: made.quality[o] = NoQuality
      BY <1>10, <2>1
    <2>5. QED
      BY <1>8, <1>9, <2>2, <2>3, <2>4
  <1>14. QED
    BY <1>6, <1>7, <1>8, <1>9, <1>12, <1>13

\* A job goes to the printer with what the user chose or was shown as the
\* default, as long as the printer's lists were not replaced under it; what an
\* earlier job left in the destination comes on top, if there was one
\* (printerjob.cpp:106-131, backend_cups.cpp:347-385).
THEOREM JobsPrintAsMeant == Spec => PrintsAsMeant
  <1>1. PrepareInv /\ [Next]_vars =>
          [\A p \in Printer, takes \in BOOLEAN:
             PrintFile(takes) /\ job.printer = p /\ Len(jobs') > Len(jobs) /\ ~moved
             => LET sent == Last(jobs')
                IN  /\ sent.color = meant.color
                    /\ PpdChoiceToDuplexMode(sent.duplex) = meant.duplex
                    /\ sent.copies = meant.copies
                    /\ meant.quality # NoQuality
                          => sent.quality[meant.quality.option] = meant.quality
                    /\ ~used[p] =>
                         /\ sent.landscape \in meant.landscape
                         /\ sent.ranges = meant.ranges
                         /\ \A o \in Option \ {meant.quality.option}:
                               sent.quality[o] = NoQuality]_vars
    BY PrintsMeant
  <1>2. QED
    BY <1>1, PrepareInvariant, PTL DEF Spec, PrintsAsMeant

-----------------------------------------------------------------------------
(* Lists that one value is taken out of or put into *)

\* Removing leaves a sequence of the other values, in their order.
LEMMA RemoveAtProps ==
    ASSUME NEW S, NEW seq \in Seq(S), NEW k \in 1..Len(seq)
    PROVE  /\ RemoveAt(seq, k) \in Seq(S)
           /\ Len(RemoveAt(seq, k)) = Len(seq) - 1
           /\ \A i \in 1..(Len(seq) - 1):
                RemoveAt(seq, k)[i] = IF i < k THEN seq[i] ELSE seq[i + 1]
  <1> DEFINE before == SubSeq(seq, 1, k - 1)
             after == SubSeq(seq, k + 1, Len(seq))
  <1>1. /\ before \in Seq(S)
        /\ Len(before) = k - 1
        /\ \A i \in 1..(k - 1): before[i] = seq[i]
    OBVIOUS
  <1>2. /\ after \in Seq(S)
        /\ Len(after) = Len(seq) - k
        /\ \A i \in 1..(Len(seq) - k): after[i] = seq[k + i]
    OBVIOUS
  <1>3. RemoveAt(seq, k) = before \o after
    BY DEF RemoveAt
  <1> HIDE DEF before, after
  <1>4. /\ before \o after \in Seq(S)
        /\ Len(before \o after) = Len(seq) - 1
    BY <1>1, <1>2
  <1>5. ASSUME NEW i \in 1..(Len(seq) - 1)
        PROVE  (before \o after)[i] = IF i < k THEN seq[i] ELSE seq[i + 1]
    <2>1. (before \o after)[i] =
            IF i <= k - 1 THEN before[i] ELSE after[i - (k - 1)]
      BY <1>1, <1>2
    <2>2. CASE i < k
      BY <1>1, <2>1, <2>2
    <2>3. CASE ~(i < k)
      <3>1. i - (k - 1) \in 1..(Len(seq) - k) /\ k + (i - (k - 1)) = i + 1
        BY <2>3
      <3>2. after[i - (k - 1)] = seq[i + 1]
        BY <1>2, <3>1
      <3>3. QED
        BY <2>1, <2>3, <3>2
    <2>4. QED
      BY <2>2, <2>3
  <1>6. QED
    BY <1>3, <1>4, <1>5

\* Inserting moves the values behind by one.
LEMMA InsertAtProps ==
    ASSUME NEW S, NEW seq \in Seq(S), NEW k \in 1..Len(seq) + 1, NEW x \in S
    PROVE  /\ InsertAt(seq, k, x) \in Seq(S)
           /\ Len(InsertAt(seq, k, x)) = Len(seq) + 1
           /\ \A i \in 1..Len(seq) + 1:
                InsertAt(seq, k, x)[i] = IF i < k THEN seq[i]
                                         ELSE IF i = k THEN x ELSE seq[i - 1]
  <1> DEFINE before == SubSeq(seq, 1, k - 1)
             middle == before \o <<x>>
             after == SubSeq(seq, k, Len(seq))
  <1>1. /\ before \in Seq(S)
        /\ Len(before) = k - 1
        /\ \A i \in 1..(k - 1): before[i] = seq[i]
    OBVIOUS
  <1>2. /\ after \in Seq(S)
        /\ Len(after) = Len(seq) - k + 1
        /\ \A i \in 1..(Len(seq) - k + 1): after[i] = seq[k + i - 1]
    OBVIOUS
  <1>3. InsertAt(seq, k, x) = middle \o after
    BY DEF InsertAt
  <1> HIDE DEF before, after
  <1>4. /\ middle \in Seq(S) /\ Len(middle) = k
        /\ \A i \in 1..(k - 1): middle[i] = seq[i]
        /\ middle[k] = x
    <2>1. /\ <<x>> \in Seq(S) /\ Len(<<x>>) = 1 /\ <<x>>[1] = x
      OBVIOUS
    <2>2. PICK one \in Seq(S): one = <<x>>
      BY <2>1
    <2>3. /\ before \o one \in Seq(S)
          /\ Len(before \o one) = Len(before) + Len(one)
          /\ \A i \in 1..Len(before) + Len(one): (before \o one)[i] =
               IF i <= Len(before) THEN before[i] ELSE one[i - Len(before)]
      BY <1>1, ConcatProperties
    <2>4. QED
      BY <1>1, <2>1, <2>2, <2>3
  <1> HIDE DEF middle
  <1>5. /\ middle \o after \in Seq(S)
        /\ Len(middle \o after) = Len(seq) + 1
    <2>1. /\ middle \o after \in Seq(S)
          /\ Len(middle \o after) = Len(middle) + Len(after)
      BY <1>2, <1>4, ConcatProperties
    <2>2. k + (Len(seq) - k + 1) = Len(seq) + 1
      OBVIOUS
    <2>3. QED
      BY <1>2, <1>4, <2>1, <2>2
  <1>6. ASSUME NEW i \in 1..Len(seq) + 1
        PROVE  (middle \o after)[i] = IF i < k THEN seq[i]
                                      ELSE IF i = k THEN x ELSE seq[i - 1]
    <2>1. (middle \o after)[i] = IF i <= k THEN middle[i] ELSE after[i - k]
      BY <1>2, <1>4
    <2>2. CASE i <= k
      <3>1. i < k => i \in 1..(k - 1)
        BY <2>2
      <3>2. QED
        BY <1>4, <2>1, <2>2, <3>1
    <2>3. CASE ~(i <= k)
      <3>1. i - k \in 1..(Len(seq) - k + 1) /\ k + (i - k) - 1 = i - 1
        BY <2>3
      <3>2. after[i - k] = seq[i - 1]
        BY <1>2, <3>1
      <3>3. QED
        BY <2>1, <2>3, <3>2
    <2>4. QED
      BY <2>2, <2>3
  <1>7. QED
    BY <1>3, <1>5, <1>6

\* A list in an order that no value stands in to itself: without one of its
\* values it has the others, in the order.
Sorted(seq, R) == \A i, j \in DOMAIN seq: i < j => <<seq[i], seq[j]>> \in R

LEMMA RemovedSorted ==
    ASSUME NEW seq \in Seq(Nat), NEW k \in 1..Len(seq), NEW R, Sorted(seq, R),
           \A x \in Nat: <<x, x>> \notin R
    PROVE  /\ Sorted(RemoveAt(seq, k), R)
           /\ Range(RemoveAt(seq, k)) = Range(seq) \ {seq[k]}
  <1> DEFINE q == RemoveAt(seq, k)
             was(i) == IF i < k THEN i ELSE i + 1
  <1>1. /\ q \in Seq(Nat) /\ Len(q) = Len(seq) - 1
        /\ \A i \in 1..(Len(seq) - 1): q[i] = IF i < k THEN seq[i] ELSE seq[i + 1]
    BY RemoveAtProps
  <1> HIDE DEF q
  <1>2. /\ DOMAIN q = 1..(Len(seq) - 1) /\ DOMAIN seq = 1..Len(seq)
        /\ Len(seq) \in Nat
    BY <1>1
  <1>3. ASSUME NEW i \in DOMAIN q
        PROVE  was(i) \in DOMAIN seq /\ was(i) # k /\ q[i] = seq[was(i)]
    <2>1. i \in 1..(Len(seq) - 1) /\ k \in 1..Len(seq)
      BY <1>2
    <2>2. was(i) \in DOMAIN seq /\ was(i) # k
      BY <1>2, <2>1
    <2>3. QED
      BY <1>1, <2>1, <2>2
  <1>4. \A i, j \in DOMAIN q: i < j => was(i) < was(j)
    BY <1>2
  <1>5. Sorted(q, R)
    <2> HIDE DEF was
    <2> QED
      BY <1>3, <1>4 DEF Sorted
  <1>6. ASSUME NEW i \in DOMAIN seq, i # k
        PROVE  seq[i] # seq[k]
    <2>1. seq[i] \in Nat /\ seq[k] \in Nat /\ k \in DOMAIN seq
      BY <1>2
    <2>2. i < k \/ k < i
      BY <1>2, <1>6
    <2>3. <<seq[i], seq[k]>> \in R \/ <<seq[k], seq[i]>> \in R
      BY <2>1, <2>2 DEF Sorted
    <2>4. QED
      BY <2>1, <2>3
  <1>7. ASSUME NEW i \in DOMAIN q
        PROVE  q[i] \in Range(seq) \ {seq[k]}
    <2> HIDE DEF was
    <2> QED
      BY <1>3, <1>6 DEF Range
  <1>8. ASSUME NEW i \in DOMAIN seq, seq[i] # seq[k]
        PROVE  seq[i] \in Range(q)
    <2>1. PICK j \in DOMAIN q: q[j] = seq[i]
      <3>1. CASE i < k
        <4>1. i \in DOMAIN q /\ q[i] = seq[i]
          BY <1>1, <1>2, <3>1
        <4>2. QED
          BY <4>1
      <3>2. CASE ~(i < k)
        <4>1. i # k
          BY <1>8
        <4>2. i - 1 \in DOMAIN q /\ ~(i - 1 < k) /\ (i - 1) + 1 = i
          BY <1>2, <3>2, <4>1
        <4>3. q[i - 1] = seq[i]
          BY <1>1, <1>2, <4>2
        <4>4. QED
          BY <4>2, <4>3
      <3>3. QED
        BY <3>1, <3>2
    <2>2. QED
      BY <2>1 DEF Range
  <1>9. Range(q) = Range(seq) \ {seq[k]}
    <2>1. Range(q) \subseteq Range(seq) \ {seq[k]}
      BY <1>7 DEF Range
    <2>2. Range(seq) \ {seq[k]} \subseteq Range(q)
      <3>1. ASSUME NEW y \in Range(seq), y # seq[k]
            PROVE  y \in Range(q)
        <4>1. PICK i \in DOMAIN seq: y = seq[i]
          BY DEF Range
        <4>2. QED
          BY <1>8, <3>1, <4>1
      <3>2. QED
        BY <3>1
    <2>3. QED
      BY <2>1, <2>2
  <1>10. QED
    BY <1>5, <1>9 DEF q

\* The order has a place for a value among those of a list, and that is behind
\* the last one before it.
HasPlace(seq, x, R) ==
    /\ \A i, j \in DOMAIN seq:
         <<seq[i], seq[j]>> \in R /\ <<seq[j], x>> \in R => <<seq[i], x>> \in R
    /\ \A i \in DOMAIN seq: <<seq[i], x>> \in R \/ <<x, seq[i]>> \in R

IsBehind(seq, x, R, place) ==
    /\ place # 0 => <<seq[place], x>> \in R
    /\ \A i \in DOMAIN seq: i > place => <<seq[i], x>> \notin R

LEMMA InsertedSorted ==
    ASSUME NEW S, NEW seq \in Seq(S), NEW x \in S, NEW R, Sorted(seq, R),
           HasPlace(seq, x, R),
           NEW place \in 0..Len(seq), IsBehind(seq, x, R, place)
    PROVE  /\ Sorted(InsertAt(seq, place + 1, x), R)
           /\ Range(InsertAt(seq, place + 1, x)) = Range(seq) \cup {x}
  <1> DEFINE k == place + 1
             q == InsertAt(seq, k, x)
             was(i) == IF i < k THEN i ELSE i - 1
  <1>1. k \in 1..Len(seq) + 1 /\ DOMAIN seq = 1..Len(seq) /\ Len(seq) \in Nat
    OBVIOUS
  <1> HIDE DEF k
  <1>2. /\ q \in Seq(S) /\ Len(q) = Len(seq) + 1
        /\ \A i \in 1..Len(seq) + 1:
             q[i] = IF i < k THEN seq[i] ELSE IF i = k THEN x ELSE seq[i - 1]
    <2> HIDE DEF q
    <2>1. /\ InsertAt(seq, k, x) \in Seq(S)
          /\ Len(InsertAt(seq, k, x)) = Len(seq) + 1
          /\ \A i \in 1..Len(seq) + 1:
               InsertAt(seq, k, x)[i] = IF i < k THEN seq[i]
                                        ELSE IF i = k THEN x ELSE seq[i - 1]
      BY <1>1, InsertAtProps
    <2>2. QED
      BY <2>1 DEF q
  <1> HIDE DEF q
  <1>3. DOMAIN q = 1..Len(seq) + 1 /\ q[k] = x
    BY <1>1, <1>2
  <1>4. \A i \in DOMAIN q: i # k => was(i) \in DOMAIN seq /\ q[i] = seq[was(i)]
    BY <1>1, <1>2, <1>3
  <1>5. \A i, j \in DOMAIN q: i # k /\ j # k /\ i < j => was(i) < was(j)
    BY <1>1, <1>3
  <1>6. ASSUME NEW i \in DOMAIN q, i < k
        PROVE  <<q[i], x>> \in R
    <2>1. i \in DOMAIN seq /\ i <= place /\ place # 0 /\ place \in DOMAIN seq
          /\ q[i] = seq[i]
      BY <1>1, <1>2, <1>3, <1>6 DEF k
    <2>2. <<seq[place], x>> \in R
      BY <2>1 DEF IsBehind
    <2>3. CASE i = place
      BY <2>1, <2>2, <2>3
    <2>4. CASE i # place
      <3>1. <<seq[i], seq[place]>> \in R
        BY <2>1, <2>4 DEF Sorted
      <3>2. QED
        BY <2>1, <2>2, <3>1 DEF HasPlace
    <2>5. QED
      BY <2>3, <2>4
  <1>7. ASSUME NEW i \in DOMAIN q, k < i
        PROVE  <<x, q[i]>> \in R
    <2>1. i - 1 \in DOMAIN seq /\ i - 1 > place /\ q[i] = seq[i - 1]
      BY <1>1, <1>2, <1>3, <1>7 DEF k
    <2>2. <<seq[i - 1], x>> \notin R
      BY <2>1 DEF IsBehind
    <2>3. QED
      BY <2>1, <2>2 DEF HasPlace
  <1>8. Sorted(q, R)
    <2>1. SUFFICES ASSUME NEW i \in DOMAIN q, NEW j \in DOMAIN q, i < j
                   PROVE  <<q[i], q[j]>> \in R
      BY DEF Sorted
    <2>2. CASE i = k
      BY <1>3, <1>7, <2>1, <2>2
    <2>3. CASE j = k
      BY <1>3, <1>6, <2>1, <2>3
    <2>4. CASE i # k /\ j # k
      <3> HIDE DEF was
      <3> QED
        BY <1>4, <1>5, <2>1, <2>4 DEF Sorted
    <2>5. QED
      BY <2>2, <2>3, <2>4
  <1>9. Range(q) = Range(seq) \cup {x}
    <2>1. ASSUME NEW i \in DOMAIN q
          PROVE  q[i] \in Range(seq) \cup {x}
      <3> HIDE DEF was
      <3> QED
        BY <1>3, <1>4 DEF Range
    <2>2. ASSUME NEW i \in DOMAIN seq
          PROVE  seq[i] \in Range(q)
      <3>1. CASE i < k
        <4>1. i \in DOMAIN q /\ q[i] = seq[i]
          BY <1>1, <1>2, <1>3, <3>1
        <4>2. QED
          BY <4>1 DEF Range
      <3>2. CASE ~(i < k)
        <4>1. /\ i + 1 \in DOMAIN q /\ ~(i + 1 < k) /\ i + 1 # k
              /\ (i + 1) - 1 = i
          BY <1>1, <1>3, <3>2
        <4>2. q[i + 1] = seq[i]
          BY <1>2, <1>3, <4>1
        <4>3. QED
          BY <4>1, <4>2 DEF Range
      <3>3. QED
        BY <3>1, <3>2
    <2>3. x \in Range(q)
      BY <1>1, <1>3 DEF Range
    <2>4. Range(q) \subseteq Range(seq) \cup {x}
      BY <2>1 DEF Range
    <2>5. Range(seq) \subseteq Range(q)
      BY <2>2 DEF Range
    <2>6. QED
      BY <2>3, <2>4, <2>5
  <1>10. QED
    BY <1>8, <1>9 DEF q, k

-----------------------------------------------------------------------------
(* What a filter shows *)

Ids(list) == {list[i].id: i \in DOMAIN list}

Accepted(filter, list) ==
    {list[i].id: i \in {k \in DOMAIN list: FilterAcceptsRow(filter, list[k])}}

\* The order a filter has its rows in.
Order(filter, list) ==
    {ids \in Ids(list) \X Ids(list):
       Before(filter, RowOf(list, ids[1]), RowOf(list, ids[2]))}

Exact(filter, shown, list) ==
    Range(shown) = Accepted(filter, list) /\ Sorted(shown, Order(filter, list))

\* In the order of their jobs, each job's row is found.
LEMMA RowFound ==
    ASSUME NEW list \in Seq(Row), Increasing(list), NEW i \in DOMAIN list
    PROVE  RowOf(list, list[i].id) = list[i] /\ HasRow(list, list[i].id)
  <1>1. ASSUME NEW k \in DOMAIN list, list[k].id = list[i].id
        PROVE  k = i
    <2>1. list[k].id \in Nat /\ list[i].id \in Nat
      <3>1. list[k] \in Row /\ list[i] \in Row
        OBVIOUS
      <3>2. QED
        BY <3>1 DEF Row
    <2>2. k \in Nat /\ i \in Nat
      OBVIOUS
    <2>3. ~(k < i) /\ ~(i < k)
      BY <1>1, <2>1 DEF Increasing
    <2>4. QED
      BY <2>2, <2>3
  <1>2. (CHOOSE k \in DOMAIN list: list[k].id = list[i].id) = i
    BY <1>1
  <1>3. QED
    BY <1>2 DEF RowOf, HasRow

LEMMA RowHad ==
    ASSUME NEW list \in Seq(Row), Increasing(list), NEW id, HasRow(list, id)
    PROVE  /\ RowOf(list, id) \in Row /\ RowOf(list, id).id = id
           /\ id \in Ids(list)
           /\ \E i \in DOMAIN list: RowOf(list, id) = list[i]
  <1>1. PICK i \in DOMAIN list: list[i].id = id
    BY DEF HasRow
  <1>2. RowOf(list, id) = list[i]
    BY <1>1, RowFound
  <1>3. list[i] \in Row
    OBVIOUS
  <1>4. QED
    BY <1>1, <1>2, <1>3 DEF Ids

LEMMA AcceptedIs ==
    ASSUME NEW list \in Seq(Row), Increasing(list), NEW filter, NEW id
    PROVE  /\ id \in Accepted(filter, list) <=>
                HasRow(list, id) /\ FilterAcceptsRow(filter, RowOf(list, id))
           /\ id \in Ids(list) <=> HasRow(list, id)
  <1>1. ASSUME HasRow(list, id), FilterAcceptsRow(filter, RowOf(list, id))
        PROVE  id \in Accepted(filter, list)
    <2>1. PICK i \in DOMAIN list: list[i].id = id
      BY <1>1 DEF HasRow
    <2>2. RowOf(list, id) = list[i]
      BY <2>1, RowFound
    <2>3. i \in {k \in DOMAIN list: FilterAcceptsRow(filter, list[k])}
      BY <1>1, <2>2
    <2>4. QED
      BY <2>1, <2>3 DEF Accepted
  <1>2. ASSUME id \in Accepted(filter, list)
        PROVE  HasRow(list, id) /\ FilterAcceptsRow(filter, RowOf(list, id))
    <2>1. PICK i \in DOMAIN list: list[i].id = id /\ FilterAcceptsRow(filter, list[i])
      BY <1>2 DEF Accepted
    <2>2. RowOf(list, id) = list[i] /\ HasRow(list, id)
      BY <2>1, RowFound
    <2>3. QED
      BY <2>1, <2>2
  <1>3. id \in Ids(list) <=> HasRow(list, id)
    BY DEF Ids, HasRow
  <1>4. QED
    BY <1>1, <1>2, <1>3

\* Of two rows one is before the other.
LEMMA BeforeIsStrict ==
    ASSUME NEW filter, NEW a \in Row, NEW b \in Row, NEW c \in Row
    PROVE  /\ ~Before(filter, a, a)
           /\ Before(filter, a, b) /\ Before(filter, b, c) => Before(filter, a, c)
           /\ a.id # b.id => Before(filter, a, b) \/ Before(filter, b, a)
  <1>1. /\ a.id \in Nat /\ b.id \in Nat /\ c.id \in Nat
        /\ a.time \in Nat /\ b.time \in Nat /\ c.time \in Nat
    BY DEF Row
  <1>2. CASE filter \in Printer
    BY <1>1, <1>2 DEF Before
  <1>3. CASE filter \notin Printer
    BY <1>1, <1>3 DEF Before, LessThan
  <1>4. QED
    BY <1>2, <1>3

LEMMA OrderIsStrict ==
    ASSUME NEW list \in Seq(Row), Increasing(list), NEW filter
    PROVE  /\ \A a: <<a, a>> \notin Order(filter, list)
           /\ \A a, b, c: /\ <<a, b>> \in Order(filter, list)
                          /\ <<b, c>> \in Order(filter, list)
                          => <<a, c>> \in Order(filter, list)
           /\ \A a, b \in Ids(list): a # b =>
                \/ <<a, b>> \in Order(filter, list)
                \/ <<b, a>> \in Order(filter, list)
  <1>1. ASSUME NEW a, NEW b
        PROVE  <<a, b>> \in Order(filter, list) <=>
                 /\ a \in Ids(list) /\ b \in Ids(list)
                 /\ Before(filter, RowOf(list, a), RowOf(list, b))
    BY DEF Order
  <1>2. ASSUME NEW a \in Ids(list)
        PROVE  RowOf(list, a) \in Row /\ RowOf(list, a).id = a
    BY AcceptedIs, RowHad
  <1>3. ASSUME NEW a
        PROVE  <<a, a>> \notin Order(filter, list)
    BY <1>1, <1>2, BeforeIsStrict
  <1>4. ASSUME NEW a, NEW b, NEW c, <<a, b>> \in Order(filter, list),
               <<b, c>> \in Order(filter, list)
        PROVE  <<a, c>> \in Order(filter, list)
    <2>1. /\ a \in Ids(list) /\ b \in Ids(list) /\ c \in Ids(list)
          /\ Before(filter, RowOf(list, a), RowOf(list, b))
          /\ Before(filter, RowOf(list, b), RowOf(list, c))
      BY <1>1, <1>4
    <2>2. Before(filter, RowOf(list, a), RowOf(list, c))
      BY <1>2, <2>1, BeforeIsStrict
    <2>3. QED
      BY <1>1, <2>1, <2>2
  <1>5. ASSUME NEW a \in Ids(list), NEW b \in Ids(list), a # b
        PROVE  <<a, b>> \in Order(filter, list) \/ <<b, a>> \in Order(filter, list)
    BY <1>1, <1>2, <1>5, BeforeIsStrict
  <1>6. QED
    BY <1>3, <1>4, <1>5

\* The last value that a test holds of, as SelectLastInSeq finds it.
LEMMA GreatestIs ==
    ASSUME NEW n \in Nat, NEW I \in SUBSET (1..n), NEW place,
           place = IF I # {} THEN Max(I) ELSE 0
    PROVE  /\ place \in 0..n
           /\ place # 0 => place \in I
           /\ \A i \in 1..n: i > place => i \notin I
  <1>1. CASE I = {}
    BY <1>1
  <1>2. CASE I # {}
    <2>1. PICK k \in I: \A m \in I: m <= k
      BY <1>2, GreatestExists
    <2>2. \E x \in I: \A y \in I: x >= y
      <3>1. \A m \in I: k >= m
        BY <2>1
      <3>2. QED
        BY <3>1
    <2>3. Max(I) \in I /\ \A m \in I: Max(I) >= m
      BY <2>2 DEF Max
    <2>4. PICK g \in I: g = Max(I)
      BY <2>3
    <2>5. place = g /\ \A m \in I: g >= m
      BY <1>2, <2>3, <2>4
    <2>6. g \in 1..n
      OBVIOUS
    <2>7. QED
      BY <2>5, <2>6
  <1>3. QED
    BY <1>1, <1>2

LEMMA FirstIs ==
    ASSUME NEW S, NEW seq \in Seq(S), NEW x, x \in Range(seq)
    PROVE  \E k \in 1..Len(seq): seq[k] = x /\ RemoveFirst(seq, x) = RemoveAt(seq, k)
  <1> DEFINE I == {k \in 1..Len(seq): seq[k] = x}
  <1>1. I \in SUBSET (1..Len(seq)) /\ I # {} /\ Len(seq) \in Nat
    BY DEF Range
  <1>2. PICK k \in I: \A m \in I: k <= m
    <2> HIDE DEF I
    <2> QED
      BY <1>1, LeastExists
  <1>3. Min(I) \in I
    <2> HIDE DEF I
    <2> QED
      BY <1>2 DEF Min
  <1>4. RemoveFirst(seq, x) = RemoveAt(seq, Min(I))
    BY <1>1 DEF RemoveFirst, SelectInSeq
  <1>5. QED
    BY <1>3, <1>4

LEMMA NoneRemoved ==
    ASSUME NEW S, NEW seq \in Seq(S), NEW x, x \notin Range(seq)
    PROVE  RemoveFirst(seq, x) = seq
  BY DEF RemoveFirst, Range

\* From one list of rows to another only the row of one job changes.
OneChanges(old, list, id) ==
    \A other: other # id =>
        /\ HasRow(list, other) <=> HasRow(old, other)
        /\ HasRow(old, other) => RowOf(list, other) = RowOf(old, other)

\* A filter that shows the rows it accepts in its order goes on to do so, and
\* shows as many as before if it accepts that row as it did.
LEMMA ShownIsExact ==
    ASSUME NEW filter, view[filter] \in Seq(Nat), NEW id \in Nat,
           NEW old \in Seq(Row), Increasing(old),
           NEW list \in Seq(Row), Increasing(list),
           OneChanges(old, list, id), Exact(filter, view[filter], old)
    PROVE  /\ Shown(filter, list, id) \in Seq(Nat)
           /\ Exact(filter, Shown(filter, list, id), list)
           /\ (id \in Accepted(filter, list) <=> id \in Accepted(filter, old))
                => Len(Shown(filter, list, id)) = Len(view[filter])
  <1> DEFINE was == view[filter]
             others == RemoveFirst(was, id)
             R == Order(filter, list)
             Q == Order(filter, old)
             N == Nat
  <1>1. /\ was \in Seq(N) /\ Range(was) = Accepted(filter, old) /\ Sorted(was, Q)
        /\ id \in N
    BY DEF Exact
  <1>2. /\ \A a: <<a, a>> \notin R /\ <<a, a>> \notin Q
        /\ \A a, b, c: <<a, b>> \in R /\ <<b, c>> \in R => <<a, c>> \in R
        /\ \A a, b \in Ids(list): a # b => <<a, b>> \in R \/ <<b, a>> \in R
    BY OrderIsStrict
  <1>3. /\ others \in Seq(N) /\ Range(others) = Accepted(filter, old) \ {id}
        /\ Sorted(others, Q)
        /\ Len(others) = IF id \in Accepted(filter, old) THEN Len(was) - 1 ELSE Len(was)
    <2> HIDE DEF was, R, Q
    <2>1. CASE id \notin Range(was)
      <3>1. others = was
        BY <1>1, <2>1, NoneRemoved
      <3>2. QED
        BY <1>1, <2>1, <3>1
    <2>2. CASE id \in Range(was)
      <3>1. PICK k \in 1..Len(was): was[k] = id /\ others = RemoveAt(was, k)
        BY <1>1, <2>2, FirstIs
      <3>2. RemoveAt(was, k) \in Seq(N) /\ Len(RemoveAt(was, k)) = Len(was) - 1
        <4> HIDE DEF N
        <4> QED
          BY <1>1, RemoveAtProps
      <3>3. /\ Sorted(RemoveAt(was, k), Q)
            /\ Range(RemoveAt(was, k)) = Range(was) \ {was[k]}
        BY <1>1, <1>2, RemovedSorted
      <3>4. QED
        BY <1>1, <2>2, <3>1, <3>2, <3>3
    <2>3. QED
      BY <2>1, <2>2
  <1> HIDE DEF others, was
  <1>4. ASSUME NEW other, other # id
        PROVE  /\ other \in Accepted(filter, list) <=> other \in Accepted(filter, old)
               /\ other \in Ids(list) <=> other \in Ids(old)
               /\ other \in Ids(old) => RowOf(list, other) = RowOf(old, other)
    <2>1. /\ HasRow(list, other) <=> HasRow(old, other)
          /\ HasRow(old, other) => RowOf(list, other) = RowOf(old, other)
      BY <1>4 DEF OneChanges
    <2>2. QED
      BY <2>1, AcceptedIs
  <1>5. Sorted(others, R)
    <2>1. SUFFICES ASSUME NEW i \in DOMAIN others, NEW j \in DOMAIN others, i < j
                   PROVE  <<others[i], others[j]>> \in R
      BY DEF Sorted
    <2>2. <<others[i], others[j]>> \in Q /\ others[i] # id /\ others[j] # id
      BY <1>3, <2>1 DEF Sorted, Range
    <2>3. /\ others[i] \in Ids(old) /\ others[j] \in Ids(old)
          /\ Before(filter, RowOf(old, others[i]), RowOf(old, others[j]))
      BY <2>2 DEF Order
    <2>4. /\ others[i] \in Ids(list) /\ others[j] \in Ids(list)
          /\ RowOf(list, others[i]) = RowOf(old, others[i])
          /\ RowOf(list, others[j]) = RowOf(old, others[j])
      BY <1>4, <2>2, <2>3
    <2>5. QED
      BY <2>3, <2>4 DEF Order
  <1>6. CASE id \notin Accepted(filter, list)
    <2>1. Shown(filter, list, id) = others
      BY <1>6, AcceptedIs DEF Shown, others, was
    <2>2. Range(others) = Accepted(filter, list)
      <3>1. ASSUME NEW x
            PROVE  x \in Accepted(filter, old) \ {id} <=> x \in Accepted(filter, list)
        BY <1>4, <1>6
      <3>2. QED
        BY <1>3, <3>1
    <2>3. QED
      BY <1>3, <1>5, <1>6, <2>1, <2>2 DEF Exact, was
  <1>7. CASE id \in Accepted(filter, list)
    <2> DEFINE I == {i \in 1..Len(others): Before(filter, RowOf(list, others[i]),
                                                  RowOf(list, id))}
               place == IF I # {} THEN Max(I) ELSE 0
    <2>1. HasRow(list, id) /\ FilterAcceptsRow(filter, RowOf(list, id))
          /\ id \in Ids(list)
      BY <1>7, AcceptedIs
    <2>2. Shown(filter, list, id) = InsertAt(others, place + 1, id)
      BY <2>1 DEF Shown, SelectLastInSeq, others, was
    <2>3. ASSUME NEW i \in DOMAIN others
          PROVE  /\ others[i] \in Ids(list) /\ others[i] # id
                 /\ i \in I <=> <<others[i], id>> \in R
      <3>1. others[i] \in Accepted(filter, old) /\ others[i] # id
        BY <1>3 DEF Range
      <3>2. others[i] \in Ids(list)
        BY <1>4, <3>1, AcceptedIs
      <3>3. i \in 1..Len(others)
        BY <1>3
      <3>4. QED
        BY <2>1, <3>1, <3>2, <3>3 DEF Order
    <2>4. Len(others) \in Nat /\ I \in SUBSET (1..Len(others))
          /\ DOMAIN others = 1..Len(others)
      BY <1>3
    <2> HIDE DEF I
    <2>5. PICK g: g = place
      OBVIOUS
    <2> HIDE DEF place
    <2>6. /\ g \in 0..Len(others)
          /\ g # 0 => g \in I
          /\ \A i \in 1..Len(others): i > g => i \notin I
      BY <2>4, <2>5, GreatestIs DEF place
    <2> HIDE DEF R, Q, N
    <2>7. HasPlace(others, id, R)
      BY <1>2, <2>1, <2>3 DEF HasPlace
    <2>8. IsBehind(others, id, R, g)
      BY <2>3, <2>4, <2>6 DEF IsBehind
    <2>9. /\ Sorted(InsertAt(others, g + 1, id), R)
          /\ Range(InsertAt(others, g + 1, id)) = Range(others) \cup {id}
      BY <1>1, <1>3, <1>5, <2>6, <2>7, <2>8, InsertedSorted
    <2>10. /\ InsertAt(others, g + 1, id) \in Seq(N)
           /\ Len(InsertAt(others, g + 1, id)) = Len(others) + 1
      <3>1. g + 1 \in 1..Len(others) + 1
        BY <2>4, <2>6
      <3>2. QED
        BY <1>1, <1>3, <3>1, InsertAtProps
    <2>11. Range(others) \cup {id} = Accepted(filter, list)
      <3>1. ASSUME NEW x
            PROVE  x \in (Accepted(filter, old) \ {id}) \cup {id}
                     <=> x \in Accepted(filter, list)
        BY <1>4, <1>7
      <3>2. QED
        BY <1>3, <3>1
    <2>12. Len(was) \in Nat
      BY <1>1 DEF N
    <2>13. (id \in Accepted(filter, old)) => Len(others) + 1 = Len(was)
      BY <1>3, <2>12
    <2>14. QED
      BY <1>7, <2>2, <2>5, <2>9, <2>10, <2>11, <2>13 DEF Exact, R, N, was
  <1>8. QED
    BY <1>6, <1>7

-----------------------------------------------------------------------------
(* How the list of rows changes *)

\* A row is put behind those of earlier jobs.
LEMMA RowAppended ==
    ASSUME NEW list \in Seq(Row), Increasing(list), NEW row \in Row,
           \A i \in DOMAIN list: list[i].id < row.id
    PROVE  /\ Append(list, row) \in Seq(Row) /\ Increasing(Append(list, row))
           /\ OneChanges(list, Append(list, row), row.id)
           /\ \A i \in DOMAIN Append(list, row):
                Append(list, row)[i] = row \/ \E k \in DOMAIN list:
                                                Append(list, row)[i] = list[k]
  <1> DEFINE q == Append(list, row)
  <1>1. /\ q \in Seq(Row) /\ Len(q) = Len(list) + 1 /\ Len(list) \in Nat
        /\ DOMAIN list = 1..Len(list) /\ DOMAIN q = 1..Len(list) + 1
        /\ \A i \in 1..Len(list): q[i] = list[i]
        /\ q[Len(list) + 1] = row
    OBVIOUS
  <1> HIDE DEF q
  <1>2. \A i \in DOMAIN q: i \in DOMAIN list \/ i = Len(list) + 1
    BY <1>1
  <1>3. Increasing(q)
    <2>1. SUFFICES ASSUME NEW i \in DOMAIN q, NEW j \in DOMAIN q, i < j
                   PROVE  q[i].id < q[j].id
      BY DEF Increasing
    <2>2. i \in DOMAIN list
      BY <1>1, <2>1
    <2>3. CASE j \in DOMAIN list
      BY <1>1, <2>1, <2>2, <2>3 DEF Increasing
    <2>4. CASE j = Len(list) + 1
      BY <1>1, <2>2, <2>4
    <2>5. QED
      BY <1>2, <2>3, <2>4
  <1>4. ASSUME NEW other, other # row.id
        PROVE  /\ HasRow(q, other) <=> HasRow(list, other)
               /\ HasRow(list, other) => RowOf(q, other) = RowOf(list, other)
    <2>1. ASSUME NEW i \in DOMAIN q, q[i].id = other
          PROVE  i \in DOMAIN list /\ list[i].id = other
      BY <1>1, <1>2, <1>4, <2>1
    <2>2. ASSUME NEW i \in DOMAIN list, list[i].id = other
          PROVE  /\ i \in DOMAIN q /\ q[i].id = other
                 /\ RowOf(q, other) = RowOf(list, other)
      <3>1. i \in DOMAIN q /\ q[i] = list[i]
        BY <1>1
      <3>2. RowOf(list, other) = list[i]
        BY <2>2, RowFound
      <3>3. RowOf(q, other) = q[i]
        BY <1>1, <1>3, <2>2, <3>1, RowFound
      <3>4. QED
        BY <2>2, <3>1, <3>2, <3>3
    <2>3. QED
      BY <2>1, <2>2 DEF HasRow
  <1>5. \A i \in DOMAIN q: q[i] = row \/ \E k \in DOMAIN list: q[i] = list[k]
    BY <1>1, <1>2
  <1>6. QED
    BY <1>1, <1>3, <1>4, <1>5 DEF q, OneChanges

\* A row takes the place of the job's former one.
LEMMA RowReplaced ==
    ASSUME rows \in Seq(Row), Increasing(rows), NEW row \in Row
    PROVE  /\ Replaced(row) \in Seq(Row) /\ Increasing(Replaced(row))
           /\ OneChanges(rows, Replaced(row), row.id)
           /\ HasRow(rows, row.id) => /\ HasRow(Replaced(row), row.id)
                                      /\ RowOf(Replaced(row), row.id) = row
           /\ \A i \in DOMAIN Replaced(row):
                Replaced(row)[i] = row \/ \E k \in DOMAIN rows:
                                            Replaced(row)[i] = rows[k]
  <1> DEFINE q == Replaced(row)
  <1>1. Len(rows) \in Nat /\ DOMAIN rows = 1..Len(rows)
        /\ \A i \in DOMAIN rows: rows[i] \in Row
    OBVIOUS
  <1>2. /\ DOMAIN q = DOMAIN rows
        /\ \A i \in DOMAIN rows: q[i] = IF rows[i].id = row.id THEN row ELSE rows[i]
    BY DEF Replaced
  <1>3. q \in Seq(Row) /\ DOMAIN q = DOMAIN rows
    <2>1. q = [i \in 1..Len(rows) |-> IF rows[i].id = row.id THEN row ELSE rows[i]]
      BY <1>1 DEF Replaced
    <2>2. \A i \in 1..Len(rows): (IF rows[i].id = row.id THEN row ELSE rows[i]) \in Row
      BY <1>1
    <2> HIDE DEF q
    <2>3. QED
      BY <1>1, <1>2, <2>1, <2>2
  <1> HIDE DEF q
  <1>4. \A i \in DOMAIN rows: q[i].id = rows[i].id
    BY <1>2
  <1>5. Increasing(q)
    BY <1>3, <1>4 DEF Increasing
  <1>6. ASSUME NEW other, other # row.id
        PROVE  /\ HasRow(q, other) <=> HasRow(rows, other)
               /\ HasRow(rows, other) => RowOf(q, other) = RowOf(rows, other)
    <2>1. HasRow(q, other) <=> HasRow(rows, other)
      BY <1>3, <1>4 DEF HasRow
    <2>2. ASSUME NEW i \in DOMAIN rows, rows[i].id = other
          PROVE  RowOf(q, other) = RowOf(rows, other)
      <3>1. RowOf(rows, other) = rows[i]
        BY <2>2, RowFound
      <3>2. RowOf(q, other) = q[i]
        BY <1>3, <1>4, <1>5, <2>2, RowFound
      <3>3. QED
        BY <1>2, <1>6, <2>2, <3>1, <3>2
    <2>3. QED
      BY <2>1, <2>2 DEF HasRow
  <1>7. ASSUME HasRow(rows, row.id)
        PROVE  HasRow(q, row.id) /\ RowOf(q, row.id) = row
    <2>1. PICK i \in DOMAIN rows: rows[i].id = row.id
      BY <1>7 DEF HasRow
    <2>2. i \in DOMAIN q /\ q[i] = row
      BY <1>2, <1>3, <2>1
    <2>3. QED
      BY <1>3, <1>5, <2>2, RowFound
  <1>8. \A i \in DOMAIN q: q[i] = row \/ \E k \in DOMAIN rows: q[i] = rows[k]
    BY <1>2, <1>3
  <1>9. QED
    BY <1>3, <1>5, <1>6, <1>7, <1>8 DEF q, OneChanges

\* A job's row goes.
Without(id) == RemoveFirstMatch(rows, LAMBDA row: row.id = id)

LEMMA RowRemoved ==
    ASSUME rows \in Seq(Row), Increasing(rows), NEW id \in Nat, HasRow(rows, id),
           NEW q, q = Without(id)
    PROVE  /\ q \in Seq(Row) /\ Increasing(q)
           /\ OneChanges(rows, q, id)
           /\ \A i \in DOMAIN q: \E k \in DOMAIN rows: q[i] = rows[k]
  <1> DEFINE I == {i \in 1..Len(rows): rows[i].id = id}
             k == Min(I)
             was(i) == IF i < k THEN i ELSE i + 1
  <1>1. Len(rows) \in Nat /\ DOMAIN rows = 1..Len(rows)
    OBVIOUS
  <1>2. I \in SUBSET (1..Len(rows)) /\ I # {}
    BY <1>1 DEF HasRow
  <1>3. q = RemoveAt(rows, k)
    BY <1>2 DEF Without, RemoveFirstMatch, SelectInSeq
  <1>4. k \in I
    <2> HIDE DEF I
    <2>1. PICK m \in I: \A n \in I: m <= n
      BY <1>1, <1>2, LeastExists
    <2>2. QED
      BY <2>1 DEF Min
  <1>5. k \in 1..Len(rows) /\ rows[k].id = id
    BY <1>4
  <1> HIDE DEF k, I
  <1>6. /\ q \in Seq(Row) /\ Len(q) = Len(rows) - 1
        /\ \A i \in 1..(Len(rows) - 1): q[i] = IF i < k THEN rows[i] ELSE rows[i + 1]
    BY <1>3, <1>5, RemoveAtProps
  <1>7. DOMAIN q = 1..(Len(rows) - 1)
    BY <1>6
  <1>8. ASSUME NEW i \in DOMAIN q
        PROVE  was(i) \in DOMAIN rows /\ was(i) # k /\ q[i] = rows[was(i)]
    <2>1. i \in 1..(Len(rows) - 1) /\ k \in 1..Len(rows)
      BY <1>5, <1>7
    <2>2. was(i) \in DOMAIN rows /\ was(i) # k
      BY <1>1, <2>1
    <2>3. QED
      BY <1>6, <2>1, <2>2
  <1>9. ASSUME NEW i \in DOMAIN q, NEW j \in DOMAIN q, i < j
        PROVE  was(i) < was(j)
    BY <1>5, <1>7, <1>9
  <1>10. ASSUME NEW i \in DOMAIN rows, i # k
         PROVE  \E j \in DOMAIN q: q[j] = rows[i]
    <2>1. CASE i < k
      <3>1. i \in DOMAIN q
        BY <1>1, <1>5, <1>7, <2>1
      <3>2. q[i] = rows[i]
        BY <1>6, <1>7, <2>1, <3>1
      <3>3. QED
        BY <3>1, <3>2
    <2>2. CASE ~(i < k)
      <3>1. i - 1 \in DOMAIN q /\ ~(i - 1 < k) /\ (i - 1) + 1 = i
        BY <1>1, <1>5, <1>7, <1>10, <2>2
      <3>2. q[i - 1] = rows[i]
        BY <1>6, <1>7, <3>1
      <3>3. QED
        BY <3>1, <3>2
    <2>3. QED
      BY <2>1, <2>2
  <1> HIDE DEF was
  <1>11. Increasing(q)
    BY <1>8, <1>9 DEF Increasing
  <1>12. ASSUME NEW other, other # id
         PROVE  /\ HasRow(q, other) <=> HasRow(rows, other)
                /\ HasRow(rows, other) => RowOf(q, other) = RowOf(rows, other)
    <2>1. ASSUME HasRow(q, other)
          PROVE  HasRow(rows, other)
      BY <1>8, <2>1 DEF HasRow
    <2>2. ASSUME NEW i \in DOMAIN rows, rows[i].id = other
          PROVE  HasRow(q, other) /\ RowOf(q, other) = RowOf(rows, other)
      <3>1. i # k
        BY <1>5, <1>12, <2>2
      <3>2. PICK j \in DOMAIN q: q[j] = rows[i]
        BY <1>10, <3>1
      <3>3. RowOf(rows, other) = rows[i]
        BY <2>2, RowFound
      <3>4. RowOf(q, other) = q[j] /\ HasRow(q, other)
        BY <1>6, <1>11, <2>2, <3>2, RowFound
      <3>5. QED
        BY <3>2, <3>3, <3>4
    <2>3. QED
      BY <2>1, <2>2 DEF HasRow
  <1>13. QED
    BY <1>6, <1>8, <1>11, <1>12 DEF OneChanges

\* FiltersExact in the terms of the above.
LEMMA ExactIs ==
    ASSUME NEW filter, NEW shown \in Seq(Nat), NEW list \in Seq(Row)
    PROVE  Exact(filter, shown, list) <=>
             /\ Range(shown) = {list[i].id: i \in {k \in DOMAIN list:
                                  FilterAcceptsRow(filter, list[k])}}
             /\ \A i, j \in DOMAIN shown: i < j =>
                  Before(filter, RowOf(list, shown[i]), RowOf(list, shown[j]))
  <1>1. ASSUME Range(shown) = Accepted(filter, list), NEW i \in DOMAIN shown
        PROVE  shown[i] \in Ids(list)
    BY <1>1 DEF Range, Accepted, Ids
  <1>2. ASSUME Range(shown) = Accepted(filter, list),
               NEW i \in DOMAIN shown, NEW j \in DOMAIN shown
        PROVE  <<shown[i], shown[j]>> \in Order(filter, list) <=>
                 Before(filter, RowOf(list, shown[i]), RowOf(list, shown[j]))
    BY <1>1, <1>2 DEF Order
  <1>3. QED
    BY <1>2 DEF Exact, Sorted, Accepted

\* Whatever the change of one row, the filters go on to be exact, and one that
\* accepts the row as before shows as many as before.
LEMMA RowChangesShows ==
    ASSUME rows \in Seq(Row), view \in [Filter -> Seq(Nat)], Increasing(rows),
           FiltersExact, NEW id \in Nat, NEW list \in Seq(Row), Increasing(list),
           OneChanges(rows, list, id), RowChanges(list, id)
    PROVE  /\ rows' = list /\ view' \in [Filter -> Seq(Nat)] /\ FiltersExact'
           /\ \A filter \in Filter:
                (id \in Accepted(filter, list) <=> id \in Accepted(filter, rows))
                  => Len(view'[filter]) = Len(view[filter])
  <1>1. rows' = list /\ view' = [filter \in Filter |-> Shown(filter, list, id)]
    BY DEF RowChanges
  <1>2. ASSUME NEW filter \in Filter
        PROVE  /\ view'[filter] \in Seq(Nat)
               /\ Exact(filter, view'[filter], list)
               /\ (id \in Accepted(filter, list) <=> id \in Accepted(filter, rows))
                    => Len(view'[filter]) = Len(view[filter])
    <2>1. view[filter] \in Seq(Nat)
      OBVIOUS
    <2>2. Exact(filter, view[filter], rows)
      <3>1. /\ Range(view[filter]) = {rows[i].id: i \in {k \in DOMAIN rows:
                                        FilterAcceptsRow(filter, rows[k])}}
            /\ \A i, j \in DOMAIN view[filter]: i < j =>
                 Before(filter, RowOf(rows, view[filter][i]),
                                RowOf(rows, view[filter][j]))
        BY DEF FiltersExact
      <3>2. QED
        BY <2>1, <3>1, ExactIs
    <2>3. /\ Shown(filter, list, id) \in Seq(Nat)
          /\ Exact(filter, Shown(filter, list, id), list)
          /\ (id \in Accepted(filter, list) <=> id \in Accepted(filter, rows))
               => Len(Shown(filter, list, id)) = Len(view[filter])
      BY <2>1, <2>2, ShownIsExact
    <2>4. QED
      BY <1>1, <2>3
  <1>3. view' \in [Filter -> Seq(Nat)]
    BY <1>1, <1>2
  <1>4. FiltersExact'
    <2>1. ASSUME NEW filter \in Filter
          PROVE  /\ Range(view'[filter]) = {rows'[i].id: i \in {k \in DOMAIN rows':
                                              FilterAcceptsRow(filter, rows'[k])}}
                 /\ \A i, j \in DOMAIN view'[filter]: i < j =>
                      Before(filter, RowOf(rows', view'[filter][i]),
                                     RowOf(rows', view'[filter][j]))
      <3>1. PICK shown \in Seq(Nat): shown = view'[filter]
        BY <1>2
      <3>2. Exact(filter, shown, list)
        BY <1>2, <3>1
      <3>3. /\ Range(shown) = {list[i].id: i \in {k \in DOMAIN list:
                                 FilterAcceptsRow(filter, list[k])}}
            /\ \A i, j \in DOMAIN shown: i < j =>
                 Before(filter, RowOf(list, shown[i]), RowOf(list, shown[j]))
        BY <3>2, ExactIs
      <3>4. QED
        BY <1>1, <3>1, <3>3
    <2>2. QED
      BY <2>1 DEF FiltersExact
  <1>5. QED
    BY <1>1, <1>2, <1>3, <1>4

\* What a row shows, out of what it is looked up in.
Chosen(sent, colors, modes, list, color, quality, mode, twoSided) ==
    LET asked == PpdChoiceToDuplexMode(sent.duplex)
        qualities == {sent.quality[o]: o \in Option} \ {NoQuality}
        names == IF qualities = {} THEN {NoQuality.name}
                 ELSE {q.name: q \in qualities}
    IN  /\ sent.color \in Range(colors) => color = sent.color
        /\ asked \in Range(modes) =>
              mode = asked /\ (twoSided <=> asked # "none")
        /\ names \subseteq {q.name: q \in Range(list)}
              => quality.name \in names

LEMMA ChosenIs ==
    ASSUME NEW row
    PROVE  ShowsChosen(row) <=>
             Chosen(jobs[row.id], printer[row.printer].colors,
                    printer[row.printer].modes, printer[row.printer].qualities,
                    ColorOf(row), QualityOf(row), ModeOf(row), row.twoSided)
  BY DEF ShowsChosen, Chosen

\* A row stays what it is of its job as long as only more jobs are told of.
LEMMA RowStays ==
    ASSUME NEW row, RowOK(row), told \in 0..Len(jobs), told' \in Nat, told <= told',
           jobs \in Seq(SentJob), UNCHANGED printer,
           UNCHANGED jobs \/ \E sent \in SentJob: jobs' = Append(jobs, sent)
    PROVE  RowOK(row)'
  <1>1. row.id \in 1..told /\ row.id \in 1..told' /\ row.id \in 1..Len(jobs)
        /\ Len(jobs) \in Nat
    BY DEF RowOK
  <1>2. jobs'[row.id] = jobs[row.id]
    BY <1>1
  <1>3. PlacesInRange(row)' <=> PlacesInRange(row)
    BY DEF PlacesInRange
  <1>4. ColorOf(row)' = ColorOf(row) /\ QualityOf(row)' = QualityOf(row)
        /\ ModeOf(row)' = ModeOf(row)
    BY DEF ColorOf, QualityOf, ModeOf
  <1>5. ShowsSent(row)' <=> ShowsSent(row)
    BY <1>2, <1>4 DEF ShowsSent, ShowsChosen
  <1>6. QED
    BY <1>1, <1>2, <1>3, <1>5 DEF RowOK

-----------------------------------------------------------------------------
(* The steps of PrintQueue *)

QueueInv == PrepareInv /\ QueueTypeOK /\ RowsInv /\ ViewInv

LEMMA InitQueues == Init => QueueInv
  <1> SUFFICES ASSUME Init
               PROVE  QueueInv
    OBVIOUS
  <1>1. /\ state = << >> /\ created = << >> /\ told = 0 /\ rows = << >>
        /\ view = [filter \in Filter |-> << >>] /\ count = [filter \in Filter |-> 0]
        /\ jobs = << >>
    BY DEF Init, JobInit
  <1>2. PrepareInv
    BY InitPrepares DEF Init
  <1>3. /\ << >> \in Seq(States) /\ << >> \in Seq(Nat) /\ << >> \in Seq(Row)
        /\ Len(<< >>) = 0 /\ DOMAIN << >> = {}
    OBVIOUS
  <1>4. QueueTypeOK
    <2>1. told \in 0..Len(jobs)
      BY <1>1, <1>3
    <2>2. QED
      BY <1>1, <1>3, <2>1 DEF QueueTypeOK
  <1>5. RowsInv
    BY <1>1, <1>3 DEF RowsInv, Increasing
  <1>6. FiltersExact
    <2>1. ASSUME NEW filter \in Filter
          PROVE  /\ Range(view[filter]) = {}
                 /\ {k \in DOMAIN rows: FilterAcceptsRow(filter, rows[k])} = {}
                 /\ DOMAIN view[filter] = {}
      BY <1>1, <1>3 DEF Range
    <2>2. QED
      BY <2>1 DEF FiltersExact
  <1>7. CountsAnnounced
    BY <1>1, <1>3 DEF CountsAnnounced, Filter
  <1>8. QED
    BY <1>2, <1>4, <1>5, <1>6, <1>7 DEF QueueInv, ViewInv

LEMMA StillQueues ==
    ASSUME QueueInv, UNCHANGED <<queueVars, jobs, printer>>
    PROVE  QueueTypeOK' /\ RowsInv' /\ ViewInv'
  <1>1. UNCHANGED <<state, created, told, rows, view, count, jobs, printer>>
    BY DEF queueVars
  <1>2. QueueTypeOK'
    BY <1>1 DEF QueueInv, QueueTypeOK
  <1>3. ASSUME NEW i \in DOMAIN rows
        PROVE  RowOK(rows[i])'
    <2>1. PICK row: row = rows[i]
      OBVIOUS
    <2>2. RowOK(row)
      BY <2>1 DEF QueueInv, RowsInv
    <2>3. told \in Nat /\ told \in 0..Len(jobs) /\ jobs \in Seq(SentJob)
      BY DEF QueueInv, QueueTypeOK, PrepareInv, JobTypeOK
    <2>4. RowOK(row)'
      BY <1>1, <2>2, <2>3, RowStays
    <2>5. QED
      BY <1>1, <2>1, <2>4
  <1>4. RowsInv'
    BY <1>1, <1>3 DEF QueueInv, RowsInv, Increasing
  <1>5. ViewInv'
    BY <1>1 DEF QueueInv, ViewInv, FiltersExact, CountsAnnounced, RowOf
  <1>6. QED
    BY <1>2, <1>4, <1>5

LEMMA PrintsQueues ==
    ASSUME QueueInv, Prints
    PROVE  QueueTypeOK' /\ RowsInv' /\ ViewInv'
  <1>1. UNCHANGED <<told, rows, view, count>> /\ Taken
    BY DEF Prints
  <1>2. /\ UNCHANGED printer
        /\ UNCHANGED jobs \/ \E sent \in SentJob: jobs' = Append(jobs, sent)
    <2>1. PICK takes \in BOOLEAN:
            \/ PrintFile(takes)
            \/ \E p \in Printer, landscape \in BOOLEAN:
                  PrintTestPage(p, landscape, takes)
      BY DEF Prints
    <2>2. CASE PrintFile(takes)
      BY <2>2, PrintFilePrepares DEF QueueInv, PrintFile
    <2>3. ASSUME NEW p \in Printer, NEW landscape \in BOOLEAN,
                 PrintTestPage(p, landscape, takes)
          PROVE  /\ UNCHANGED printer
                 /\ UNCHANGED jobs \/ \E sent \in SentJob: jobs' = Append(jobs, sent)
      BY <2>3, PrintTestPagePrepares DEF QueueInv, PrintTestPage
    <2>4. QED
      BY <2>1, <2>2, <2>3
  <1>3. /\ state \in Seq(States) /\ Len(state) = Len(jobs)
        /\ created \in Seq(Nat) /\ Len(created) = Len(jobs)
        /\ told \in 0..Len(jobs) /\ jobs \in Seq(SentJob) /\ Len(jobs) \in Nat
    BY DEF QueueInv, QueueTypeOK, PrepareInv, JobTypeOK
  <1>4. /\ state' \in Seq(States) /\ Len(state') = Len(jobs')
        /\ created' \in Seq(Nat) /\ Len(created') = Len(jobs')
        /\ told' \in 0..Len(jobs')
    <2>1. CASE UNCHANGED jobs
      BY <1>1, <1>3, <2>1 DEF Taken
    <2>2. ASSUME NEW sent \in SentJob, jobs' = Append(jobs, sent)
          PROVE  <1>4!:
      <3>1. Len(jobs') = Len(jobs) + 1 /\ Len(jobs') # Len(jobs)
        BY <1>3, <2>2
      <3> DEFINE last == IF created = << >> THEN 1 ELSE Last(created)
      <3>2. PICK time \in {last, last + 1}:
              state' = Append(state, "Pending") /\ created' = Append(created, time)
        BY <1>1, <3>1 DEF Taken
      <3>3. last \in Nat
        <4>1. created # << >> => Last(created) \in Nat
          BY <1>3 DEF Last
        <4>2. QED
          BY <4>1
      <3>4. time \in Nat /\ "Pending" \in States
        BY <3>3 DEF States
      <3>5. /\ state' \in Seq(States) /\ Len(state') = Len(state) + 1
            /\ created' \in Seq(Nat) /\ Len(created') = Len(created) + 1
        BY <1>3, <3>2, <3>4
      <3>6. QED
        BY <1>1, <1>3, <3>1, <3>5
    <2>3. QED
      BY <1>2, <2>1, <2>2
  <1>5. QueueTypeOK'
    BY <1>1, <1>4 DEF QueueInv, QueueTypeOK
  <1>6. ASSUME NEW i \in DOMAIN rows
        PROVE  RowOK(rows[i])'
    <2>1. PICK row: row = rows[i]
      OBVIOUS
    <2>2. RowOK(row)
      BY <2>1 DEF QueueInv, RowsInv
    <2>3. RowOK(row)'
      <3>1. told' \in Nat /\ told <= told'
        BY <1>1, <1>3
      <3>2. QED
        BY <1>2, <1>3, <2>2, <3>1, RowStays
    <2>4. QED
      BY <1>1, <2>1, <2>3
  <1>7. RowsInv'
    BY <1>1, <1>6 DEF QueueInv, RowsInv, Increasing
  <1>8. ViewInv'
    BY <1>1 DEF QueueInv, ViewInv, FiltersExact, CountsAnnounced, RowOf
  <1>9. QED
    BY <1>5, <1>7, <1>8

LEMMA JobMovesQueues ==
    ASSUME QueueInv, NEW id \in Job, JobMoves(id)
    PROVE  QueueTypeOK' /\ RowsInv' /\ ViewInv'
  <1>1. UNCHANGED <<jobVars, created, told, rows, view, count>>
    BY DEF JobMoves
  <1>2. UNCHANGED <<jobs, printer>>
    BY <1>1 DEF jobVars, printing
  <1>3. /\ state \in Seq(States) /\ Len(state) = Len(jobs) /\ jobs \in Seq(SentJob)
        /\ id \in DOMAIN state
    BY DEF QueueInv, QueueTypeOK, PrepareInv, JobTypeOK, Job
  <1>4. PICK new \in States: state' = [state EXCEPT ![id] = new]
    BY DEF JobMoves, HoldJob, ReleaseJob, CancelJob, Processes, Completes, States
  <1>5. state' \in Seq(States) /\ Len(state') = Len(state)
    BY <1>3, <1>4, ExceptSeq
  <1>6. QueueTypeOK'
    BY <1>1, <1>2, <1>3, <1>5 DEF QueueInv, QueueTypeOK
  <1>7. ASSUME NEW i \in DOMAIN rows
        PROVE  RowOK(rows[i])'
    <2>1. PICK row: row = rows[i]
      OBVIOUS
    <2>2. RowOK(row)
      BY <2>1 DEF QueueInv, RowsInv
    <2>3. told \in 0..Len(jobs) /\ told \in Nat /\ told <= told
      BY <1>3 DEF QueueInv, QueueTypeOK
    <2>4. RowOK(row)'
      BY <1>1, <1>2, <1>3, <2>2, <2>3, RowStays
    <2>5. QED
      BY <1>1, <2>1, <2>4
  <1>8. RowsInv'
    BY <1>1, <1>7 DEF QueueInv, RowsInv, Increasing
  <1>9. ViewInv'
    BY <1>1 DEF QueueInv, ViewInv, FiltersExact, CountsAnnounced, RowOf
  <1>10. QED
    BY <1>6, <1>8, <1>9

\* One row is new and its job's, and the others stay their jobs'.
LEMMA RowsGoOn ==
    ASSUME QueueInv, UNCHANGED <<jobs, printer>>, told' \in Nat, told <= told',
           NEW list \in Seq(Row), Increasing(list), rows' = list,
           NEW row, RowOK(row)',
           \A i \in DOMAIN list: list[i] = row \/ \E k \in DOMAIN rows:
                                                    list[i] = rows[k]
    PROVE  RowsInv'
  <1>1. told \in 0..Len(jobs) /\ jobs \in Seq(SentJob)
    BY DEF QueueInv, QueueTypeOK, PrepareInv, JobTypeOK
  <1>2. ASSUME NEW other, RowOK(other)
        PROVE  RowOK(other)'
    BY <1>1, <1>2, RowStays
  <1>3. ASSUME NEW i \in DOMAIN list
        PROVE  RowOK(list[i])'
    <2>1. CASE list[i] = row
      BY <2>1
    <2>2. CASE list[i] # row
      <3>1. PICK k \in DOMAIN rows: list[i] = rows[k]
        BY <2>2
      <3>2. PICK other: other = list[i]
        OBVIOUS
      <3>3. RowOK(other)
        BY <3>1, <3>2 DEF QueueInv, RowsInv
      <3>4. RowOK(other)'
        BY <1>2, <3>3
      <3>5. QED
        BY <3>2, <3>4
    <2>3. QED
      BY <2>1, <2>2
  <1>4. QED
    BY <1>3 DEF RowsInv, Increasing

\* A Printer accepts a job's row by the printer it has, so that a row that
\* takes its former one's place changes no count.
LEMMA ReplacedQueues ==
    ASSUME QueueInv, UNCHANGED <<jobs, printer, state, created, told, count>>,
           NEW row \in Row, HasRow(rows, row.id),
           RowOf(rows, row.id).printer = row.printer,
           RowOK(row)', RowChanges(Replaced(row), row.id)
    PROVE  QueueTypeOK' /\ RowsInv' /\ ViewInv'
  <1>1. /\ rows \in Seq(Row) /\ view \in [Filter -> Seq(Nat)]
        /\ Increasing(rows) /\ FiltersExact /\ told \in 0..Len(jobs)
        /\ jobs \in Seq(SentJob)
    BY DEF QueueInv, QueueTypeOK, RowsInv, ViewInv, PrepareInv, JobTypeOK
  <1>2. row.id \in Nat
    BY DEF Row
  <1>3. PICK list \in Seq(Row): list = Replaced(row)
    BY <1>1, RowReplaced
  <1>4. /\ Increasing(list) /\ OneChanges(rows, list, row.id)
        /\ HasRow(list, row.id) /\ RowOf(list, row.id) = row
        /\ \A i \in DOMAIN list: list[i] = row \/ \E k \in DOMAIN rows:
                                                    list[i] = rows[k]
    BY <1>1, <1>3, RowReplaced
  <1>5. /\ rows' = list /\ view' \in [Filter -> Seq(Nat)] /\ FiltersExact'
        /\ \A filter \in Filter:
             (row.id \in Accepted(filter, list) <=> row.id \in Accepted(filter, rows))
               => Len(view'[filter]) = Len(view[filter])
    BY <1>1, <1>2, <1>3, <1>4, RowChangesShows
  <1>6. QueueTypeOK'
    BY <1>3, <1>5 DEF QueueInv, QueueTypeOK
  <1>7. RowsInv'
    <2>1. told \in Nat /\ told <= told'
      BY <1>1
    <2>2. QED
      BY <1>4, <1>5, <2>1, RowsGoOn
  <1>8. CountsAnnounced'
    <2>1. ASSUME NEW p \in Printer
          PROVE  count'[p] = Len(view'[p])
      <3>1. row.id \in Accepted(p, list) <=> row.id \in Accepted(p, rows)
        BY <1>1, <1>4, AcceptedIs DEF FilterAcceptsRow
      <3>2. Len(view'[p]) = Len(view[p])
        BY <1>5, <3>1 DEF Filter
      <3>3. QED
        BY <3>2 DEF QueueInv, ViewInv, CountsAnnounced
    <2>2. QED
      BY <2>1 DEF CountsAnnounced
  <1>9. QED
    BY <1>5, <1>6, <1>7, <1>8 DEF ViewInv

LEMMA CountedQueues ==
    ASSUME view' \in [Filter -> Seq(Nat)], CountChanged
    PROVE  count' \in [Filter -> Nat] /\ CountsAnnounced'
  <1>1. \A filter \in Filter: Len(view'[filter]) \in Nat
    OBVIOUS
  <1>2. QED
    BY <1>1 DEF CountChanged, CountsAnnounced, Filter

LEMMA JobCreatedQueues ==
    ASSUME QueueInv, JobCreated
    PROVE  QueueTypeOK' /\ RowsInv' /\ ViewInv'
  <1> world.garbage \subseteq BOOLEAN
    BY SettingsAssumption DEF QueueInv, PrepareInv, JobTypeOK
  <1>1. PICK landscape \in BOOLEAN:
        /\ told < Len(jobs) /\ told' = told + 1 /\ CountChanged
        /\ RowChanges(Append(rows, NewRow(told + 1, landscape)), told + 1)
        /\ UNCHANGED <<jobs, printer, state, created>>
    BY DEF JobCreated, jobVars, printing
  <1>2. /\ rows \in Seq(Row) /\ view \in [Filter -> Seq(Nat)]
        /\ Increasing(rows) /\ FiltersExact /\ told \in 0..Len(jobs)
        /\ jobs \in Seq(SentJob) /\ Len(jobs) \in Nat
    BY DEF QueueInv, QueueTypeOK, RowsInv, ViewInv, PrepareInv, JobTypeOK
  <1>3. PICK id: id = told + 1
    OBVIOUS
  <1>4. id \in Nat /\ id \in 1..Len(jobs) /\ told \in Nat
    BY <1>1, <1>2, <1>3
  <1>5. PICK p \in Printer: p = jobs[id].printer
    <2>1. jobs[id] \in SentJob
      BY <1>2, <1>4
    <2>2. QED
      BY <2>1 DEF SentJob
  <1>6. PICK row:
          row = [id |-> id, printer |-> p, color |-> 0, quality |-> 0,
                 duplex |-> 0, twoSided |-> FALSE,
                 copies |-> printer[p].copies, landscape |-> landscape,
                 ranges |-> 0, state |-> "Pending", time |-> 0,
                 known |-> FALSE, moved |-> FALSE, shrunk |-> FALSE]
    OBVIOUS
  <1>7. row = NewRow(told + 1, landscape)
    BY <1>3, <1>5, <1>6 DEF NewRow
  <1>8. row \in Row /\ row.id = id
    <2>1. printer[p].copies \in Copies
      BY DEF QueueInv, PrepareInv, JobTypeOK, AnyPrinter
    <2>2. QED
      BY <1>4, <1>6, <2>1, OptionFacts DEF Row, States
  <1>9. ASSUME NEW i \in DOMAIN rows
        PROVE  rows[i].id < row.id
    <2>1. rows[i].id \in 1..told
      BY DEF QueueInv, RowsInv, RowOK
    <2>2. QED
      BY <1>3, <1>4, <1>8, <2>1
  <1>10. PICK list \in Seq(Row): list = Append(rows, row)
    <2>1. Append(rows, row) \in Seq(Row)
      BY <1>2, <1>8, AppendProperties
    <2>2. QED
      BY <2>1
  <1>11. /\ Increasing(list) /\ OneChanges(rows, list, id)
         /\ \A i \in DOMAIN list: list[i] = row \/ \E k \in DOMAIN rows:
                                                     list[i] = rows[k]
    BY <1>2, <1>8, <1>9, <1>10, RowAppended
  <1>12. RowChanges(list, id)
    BY <1>1, <1>3, <1>7, <1>10
  <1>13. rows' = list /\ view' \in [Filter -> Seq(Nat)] /\ FiltersExact'
    BY <1>2, <1>4, <1>11, <1>12, RowChangesShows
  <1>14. RowOK(row)'
    <2>1. row.id \in 1..told'
      BY <1>1, <1>3, <1>4, <1>8
    <2>2. row.printer = jobs'[row.id].printer /\ row.printer = p
      BY <1>1, <1>5, <1>6
    <2>3. /\ printer[p].colors \in Seq(Color)
          /\ printer[p].qualities \in Seq(AnyQuality)
          /\ Listed(printer[p])
      BY DEF QueueInv, PrepareInv, JobTypeOK, AnyPrinter, PrinterInv
    <2>4. Len(printer[p].colors) > 0 /\ Len(printer[p].qualities) > 0
      BY <2>3 DEF Listed, Range
    <2>5. PlacesInRange(row)'
      BY <1>1, <1>6, <2>2, <2>3, <2>4 DEF PlacesInRange
    <2>6. ~row.known
      BY <1>6
    <2>7. QED
      BY <2>1, <2>2, <2>5, <2>6 DEF RowOK
  <1>15. RowsInv'
    <2>1. told' \in Nat /\ told <= told'
      BY <1>1, <1>4
    <2>2. QED
      BY <1>1, <1>11, <1>13, <1>14, <2>1, RowsGoOn
  <1>16. count' \in [Filter -> Nat] /\ CountsAnnounced'
    BY <1>1, <1>13, CountedQueues
  <1>17. told' \in 0..Len(jobs')
    BY <1>1, <1>3, <1>4
  <1>18. QueueTypeOK'
    BY <1>1, <1>10, <1>13, <1>16, <1>17 DEF QueueInv, QueueTypeOK
  <1>19. QED
    BY <1>13, <1>15, <1>16, <1>18 DEF ViewInv

LEMMA JobCompletedQueues ==
    ASSUME QueueInv, NEW id \in Job, JobCompleted(id)
    PROVE  QueueTypeOK' /\ RowsInv' /\ ViewInv'
  <1>1. /\ HasRow(rows, id) /\ CountChanged
        /\ RowChanges(Without(id), id)
        /\ UNCHANGED <<jobs, printer, state, created, told>>
    BY DEF JobCompleted, Without, jobVars, printing
  <1>2. /\ rows \in Seq(Row) /\ view \in [Filter -> Seq(Nat)]
        /\ Increasing(rows) /\ FiltersExact /\ told \in 0..Len(jobs)
        /\ jobs \in Seq(SentJob) /\ Len(jobs) \in Nat
    BY DEF QueueInv, QueueTypeOK, RowsInv, ViewInv, PrepareInv, JobTypeOK
  <1>3. id \in Nat
    BY <1>2 DEF Job
  <1>4. PICK list: list = Without(id)
    OBVIOUS
  <1>5. /\ list \in Seq(Row) /\ Increasing(list) /\ OneChanges(rows, list, id)
        /\ \A i \in DOMAIN list: \E k \in DOMAIN rows: list[i] = rows[k]
    BY <1>1, <1>2, <1>3, <1>4, RowRemoved
  <1>6. rows' = list /\ view' \in [Filter -> Seq(Nat)] /\ FiltersExact'
    <2>1. RowChanges(list, id)
      BY <1>1, <1>4
    <2>2. QED
      BY <1>2, <1>3, <1>5, <2>1, RowChangesShows
  <1>7. RowsInv'
    <2>1. told' \in Nat /\ told <= told'
      BY <1>1, <1>2
    <2>2. PICK i \in DOMAIN rows: rows[i].id = id
      BY <1>1 DEF HasRow
    <2>3. PICK row: row = rows[i]
      OBVIOUS
    <2>4. RowOK(row)
      BY <2>3 DEF QueueInv, RowsInv
    <2>5. RowOK(row)'
      BY <1>1, <1>2, <2>1, <2>4, RowStays
    <2>6. QED
      BY <1>1, <1>5, <1>6, <2>1, <2>5, RowsGoOn
  <1>8. count' \in [Filter -> Nat] /\ CountsAnnounced'
    BY <1>1, <1>6, CountedQueues
  <1>9. QueueTypeOK'
    BY <1>1, <1>5, <1>6, <1>8 DEF QueueInv, QueueTypeOK
  <1>10. QED
    BY <1>6, <1>7, <1>8, <1>9 DEF ViewInv

LEMMA JobStateQueues ==
    ASSUME QueueInv, NEW id \in Job, JobState(id)
    PROVE  QueueTypeOK' /\ RowsInv' /\ ViewInv'
  <1>1. /\ HasRow(rows, id)
        /\ RowChanges(Replaced([RowOf(rows, id) EXCEPT !.state = state[id]]), id)
        /\ UNCHANGED <<jobs, printer, state, created, told, count>>
    BY DEF JobState, jobVars, printing
  <1>2. /\ rows \in Seq(Row) /\ Increasing(rows) /\ told \in 0..Len(jobs)
        /\ jobs \in Seq(SentJob) /\ Len(jobs) \in Nat
        /\ state \in Seq(States) /\ Len(state) = Len(jobs)
    BY DEF QueueInv, QueueTypeOK, RowsInv, PrepareInv, JobTypeOK
  <1>3. PICK old \in Row: old = RowOf(rows, id)
    BY <1>1, <1>2, RowHad
  <1>4. old.id = id /\ \E i \in DOMAIN rows: old = rows[i]
    BY <1>1, <1>2, <1>3, RowHad
  <1>5. RowOK(old)
    BY <1>4 DEF QueueInv, RowsInv
  <1>6. state[id] \in States
    BY <1>2 DEF Job
  <1>7. PICK row: row = [old EXCEPT !.state = state[id]]
    OBVIOUS
  <1>8. /\ row \in Row /\ row.id = old.id /\ row.printer = old.printer
        /\ row.color = old.color /\ row.quality = old.quality
        /\ row.duplex = old.duplex /\ row.twoSided = old.twoSided
        /\ row.copies = old.copies /\ row.landscape = old.landscape
        /\ row.ranges = old.ranges /\ row.known = old.known
        /\ row.moved = old.moved /\ row.shrunk = old.shrunk
    BY <1>6, <1>7 DEF Row
  <1>9. RowOK(row)
    <2>1. PlacesInRange(old) => PlacesInRange(row)
      BY <1>8 DEF PlacesInRange
    <2>2. ColorOf(row) = ColorOf(old) /\ QualityOf(row) = QualityOf(old)
          /\ ModeOf(row) = ModeOf(old)
      BY <1>8 DEF ColorOf, QualityOf, ModeOf
    <2>3. /\ row.id = old.id /\ row.printer = old.printer
          /\ row.twoSided = old.twoSided
      BY <1>8
    <2>4. ShowsChosen(old) => ShowsChosen(row)
      BY <2>2, <2>3, ChosenIs
    <2>5. ShowsSent(old) => ShowsSent(row)
      BY <1>8, <2>4 DEF ShowsSent
    <2>6. QED
      BY <1>5, <1>8, <2>1, <2>5 DEF RowOK
  <1>10. RowOK(row)'
    <2>1. told' \in Nat /\ told <= told'
      BY <1>1, <1>2
    <2>2. QED
      BY <1>1, <1>2, <1>9, <2>1, RowStays
  <1>11. RowChanges(Replaced(row), row.id)
    BY <1>1, <1>3, <1>4, <1>7, <1>8
  <1>12. HasRow(rows, row.id) /\ RowOf(rows, row.id).printer = row.printer
    BY <1>1, <1>3, <1>4, <1>8
  <1>13. QED
    BY <1>1, <1>8, <1>10, <1>11, <1>12, ReplacedQueues

\* The place loadAttributes finds is one that fits, or the old one.
PlaceIn(I, old) == IF I = {} THEN old
                   ELSE (CHOOSE i \in I: \A j \in I: j <= i) - 1

LEMMA PlaceIs ==
    ASSUME NEW n \in Nat, NEW I \in SUBSET (1..n), NEW old \in Int, NEW place,
           place = PlaceIn(I, old)
    PROVE  /\ place \in Int
           /\ I = {} => place = old
           /\ I # {} => \E k \in I: place = k - 1 /\ place \in 0..n - 1
  <1>1. CASE I = {}
    BY <1>1 DEF PlaceIn
  <1>2. CASE I # {}
    <2>1. (CHOOSE i \in I: \A j \in I: j <= i) \in I
      BY <1>2, LastIsOne
    <2>2. PICK k \in 1..n: k \in I /\ k = CHOOSE i \in I: \A j \in I: j <= i
      BY <2>1
    <2>3. place = k - 1
      BY <1>2, <2>2 DEF PlaceIn
    <2>4. k - 1 \in Int /\ k - 1 \in 0..n - 1
      OBVIOUS
    <2>5. QED
      BY <1>2, <2>2, <2>3, <2>4
  <1>3. QED
    BY <1>1, <1>2

PlaceOfOne(list, value, old) == PlaceOf(list, LAMBDA x: x = value, old)
PlaceNamed(list, name, old) == PlaceOf(list, LAMBDA x: x.name = name, old)

\* What a value's place in a list shows.
LEMMA ValueIsFound ==
    ASSUME NEW S, NEW list \in Seq(S), NEW value, NEW old \in Int, NEW place,
           place = PlaceOfOne(list, value, old)
    PROVE  /\ place \in Int
           /\ place = old \/ place \in 0..Len(list) - 1
           /\ value \in Range(list) =>
                \A otherwise: At(list, place, otherwise) = value
  <1> DEFINE I == {i \in DOMAIN list: list[i] = value}
  <1>1. place = PlaceIn(I, old)
    BY DEF PlaceOfOne, PlaceOf, PlaceIn
  <1>2. /\ DOMAIN list = 1..Len(list) /\ I \subseteq DOMAIN list
        /\ \A i \in I: list[i] = value
    OBVIOUS
  <1>3. value \in Range(list) => I # {}
    BY DEF Range
  <1> HIDE DEF I
  <1>4. /\ place \in Int
        /\ I = {} => place = old
        /\ I # {} => \E k \in I: place = k - 1 /\ place \in 0..Len(list) - 1
    <2>1. PICK n \in Nat: n = Len(list)
      OBVIOUS
    <2>2. PICK J: J = I
      OBVIOUS
    <2>3. J \in SUBSET (1..n)
      BY <1>2, <2>1, <2>2
    <2>4. place = PlaceIn(J, old)
      BY <1>1, <2>2
    <2>5. /\ place \in Int
          /\ J = {} => place = old
          /\ J # {} => \E k \in J: place = k - 1 /\ place \in 0..n - 1
      BY <2>3, <2>4, PlaceIs
    <2>6. QED
      BY <2>1, <2>2, <2>5
  <1>5. ASSUME I # {}, NEW otherwise
        PROVE  At(list, place, otherwise) = value
    <2>1. PICK k \in 1..Len(list): k \in I /\ place = k - 1
      BY <1>2, <1>4, <1>5
    <2>2. At(list, k - 1, otherwise) = list[k]
      BY <1>2, AtPlace
    <2>3. QED
      BY <1>2, <2>1, <2>2
  <1>6. QED
    BY <1>3, <1>4, <1>5

LEMMA NameIsFound ==
    ASSUME NEW S, NEW list \in Seq(S), NEW name, NEW old \in Int, NEW place,
           place = PlaceNamed(list, name, old)
    PROVE  /\ place \in Int
           /\ place = old \/ place \in 0..Len(list) - 1
           /\ \A x \in Range(list): x.name = name =>
                \A otherwise: At(list, place, otherwise).name = name
  <1> DEFINE I == {i \in DOMAIN list: list[i].name = name}
  <1>1. place = PlaceIn(I, old)
    BY DEF PlaceNamed, PlaceOf, PlaceIn
  <1>2. /\ DOMAIN list = 1..Len(list) /\ I \subseteq DOMAIN list
        /\ \A i \in I: list[i].name = name
    OBVIOUS
  <1>3. \A x \in Range(list): x.name = name => I # {}
    BY DEF Range
  <1> HIDE DEF I
  <1>4. /\ place \in Int
        /\ I = {} => place = old
        /\ I # {} => \E k \in I: place = k - 1 /\ place \in 0..Len(list) - 1
    <2>1. PICK n \in Nat: n = Len(list)
      OBVIOUS
    <2>2. PICK J: J = I
      OBVIOUS
    <2>3. J \in SUBSET (1..n)
      BY <1>2, <2>1, <2>2
    <2>4. place = PlaceIn(J, old)
      BY <1>1, <2>2
    <2>5. /\ place \in Int
          /\ J = {} => place = old
          /\ J # {} => \E k \in J: place = k - 1 /\ place \in 0..n - 1
      BY <2>3, <2>4, PlaceIs
    <2>6. QED
      BY <2>1, <2>2, <2>5
  <1>5. ASSUME I # {}, NEW otherwise
        PROVE  At(list, place, otherwise).name = name
    <2>1. PICK k \in 1..Len(list): k \in I /\ place = k - 1
      BY <1>2, <1>4, <1>5
    <2>2. At(list, k - 1, otherwise) = list[k]
      BY <1>2, AtPlace
    <2>3. QED
      BY <1>2, <2>1, <2>2
  <1>6. QED
    BY <1>3, <1>4, <1>5

\* The names of the qualities a job was given.
NamesGiven(quality) ==
    LET qualities == {quality[o]: o \in Option} \ {NoQuality}
    IN  IF qualities = {} THEN {NoQuality.name} ELSE {q.name: q \in qualities}

\* The quality that is read has one of them.
LEMMA QualityIsRead ==
    ASSUME NEW quality \in [Option -> AnyQuality]
    PROVE  QualityRead(quality) \in NamesGiven(quality)
  <1> DEFINE n == Len(QualityOptions)
             has == {i \in DOMAIN QualityOptions:
                       quality[QualityOptions[i]] # NoQuality}
             last == CHOOSE i \in has: \A j \in has: j <= i
             qualities == {quality[o]: o \in Option} \ {NoQuality}
  <1>1. n \in Nat /\ DOMAIN QualityOptions = 1..n
        /\ \A i \in 1..n: QualityOptions[i] \in Option
    BY SettingsAssumption
  <1>2. QualityRead(quality) = IF has = {} THEN NoQuality.name
                               ELSE quality[QualityOptions[last]].name
    BY DEF QualityRead
  <1>3. NamesGiven(quality) = IF qualities = {} THEN {NoQuality.name}
                              ELSE {q.name: q \in qualities}
    BY DEF NamesGiven
  <1>4. CASE has = {}
    <2>1. ASSUME NEW q \in qualities
          PROVE  FALSE
      <3>1. PICK o \in Option: quality[o] = q /\ q # NoQuality
        OBVIOUS
      <3>2. PICK i \in DOMAIN QualityOptions: QualityOptions[i] = o
        BY DEF Option, Range
      <3>3. QED
        BY <1>4, <3>1, <3>2
    <2>2. qualities = {}
      BY <2>1
    <2>3. QED
      BY <1>2, <1>3, <1>4, <2>2
  <1>5. CASE has # {}
    <2>1. has \in SUBSET (1..n)
      BY <1>1
    <2>2. \A k \in has: quality[QualityOptions[k]] \in qualities
      BY <1>1
    <2> HIDE DEF has
    <2>3. last \in has
      BY <1>1, <1>5, <2>1, LastIsOne
    <2>4. PICK q \in qualities: q = quality[QualityOptions[last]]
      BY <2>2, <2>3
    <2>5. QualityRead(quality) = q.name
      BY <1>2, <1>5, <2>4
    <2> HIDE DEF qualities, last
    <2>6. qualities # {} /\ q.name \in {x.name: x \in qualities}
      OBVIOUS
    <2>7. QED
      BY <1>3, <2>5, <2>6
  <1>6. QED
    BY <1>4, <1>5

\* What is read of a job that CUPS has, and what is taken when it is not read.
LEMMA AnswerIs ==
    ASSUME QueueInv, NEW id \in Job, NEW fails \in BOOLEAN,
           NEW a, a = Attributes(Answer(id, fails))
    PROVE  /\ a.ranges \in Ranges /\ a.time \in Nat
           /\ a.copies \in Copies /\ a.landscape \in BOOLEAN
           /\ ~fails => /\ a.color = jobs[id].color
                        /\ a.duplex = jobs[id].duplex
                        /\ a.quality = QualityRead(jobs[id].quality)
                        /\ a.copies = jobs[id].copies
                        /\ a.landscape <=> jobs[id].landscape /\ BlankIsTrue
                        /\ a.ranges = RangesRead(jobs[id].ranges)
  <1>1. /\ jobs \in Seq(SentJob) /\ created \in Seq(Nat)
        /\ Len(created) = Len(jobs) /\ id \in DOMAIN jobs
    BY DEF QueueInv, QueueTypeOK, PrepareInv, JobTypeOK, Job
  <1>2. jobs[id] \in SentJob /\ created[id] \in Nat
    BY <1>1
  <1>3. jobs[id].ranges \in Ranges /\ jobs[id].copies \in Copies
    BY <1>2 DEF SentJob
  <1>4. RangesRead(jobs[id].ranges) \in Ranges
    BY <1>3, OptionFacts DEF RangesRead
  <1>5. CASE fails
    <2> Answer(id, fails) = {}
      BY <1>5 DEF Answer
    <2>1. a = [color |-> "", duplex |-> "", quality |-> "", copies |-> 1,
               landscape |-> FALSE, ranges |-> 0, time |-> 0]
      BY Zenon DEF Attributes
    <2>2. PICK none, no: /\ a = [color |-> none, duplex |-> none, quality |-> none,
                                 copies |-> 1, landscape |-> no,
                                 ranges |-> 0, time |-> 0]
                         /\ no = FALSE
      BY <2>1, Zenon
    <2>3. a.ranges = 0 /\ a.time = 0 /\ a.copies = 1 /\ a.landscape = no
      BY <2>2
    <2>4. 0 \in Nat /\ 0 \in Ranges /\ 1 \in Copies
      BY OptionFacts
    <2>5. no \in BOOLEAN
      BY <2>2, Zenon
    <2>6. QED
      BY <1>5, <2>3, <2>4, <2>5
  <1>6. CASE ~fails
    <2> PICK landscape \in BOOLEAN:
              landscape = (jobs[id].landscape /\ BlankIsTrue)
      OBVIOUS
    <2>1. PICK read: read =
            [color |-> jobs[id].color, duplex |-> jobs[id].duplex,
             quality |-> jobs[id].quality, copies |-> jobs[id].copies,
             landscape |-> landscape, ranges |-> RangesRead(jobs[id].ranges),
             time |-> created[id]]
      OBVIOUS
    <2>2. Answer(id, fails) = {read}
      BY <1>6, <2>1 DEF Answer
    <2>3. (CHOOSE r \in {read}: TRUE) = read /\ {read} # {}
      OBVIOUS
    <2>4. Attributes({read}) =
            [color |-> read.color, duplex |-> read.duplex,
             quality |-> QualityRead(read.quality),
             copies |-> read.copies, landscape |-> read.landscape,
             ranges |-> read.ranges, time |-> read.time]
      BY <2>3, Zenon DEF Attributes
    <2>5. /\ a.color = read.color /\ a.duplex = read.duplex
          /\ a.quality = QualityRead(read.quality) /\ a.copies = read.copies
          /\ a.landscape = read.landscape /\ a.ranges = read.ranges
          /\ a.time = read.time
      BY <2>2, <2>4
    <2>6. /\ read.color = jobs[id].color /\ read.duplex = jobs[id].duplex
          /\ read.quality = jobs[id].quality /\ read.copies = jobs[id].copies
          /\ read.landscape = landscape /\ read.time = created[id]
          /\ read.ranges = RangesRead(jobs[id].ranges)
      BY <2>1
    <2>7. QED
      BY <1>2, <1>3, <1>4, <2>5, <2>6
  <1>7. QED
    BY <1>5, <1>6

\* A row whose attributes are read is its job's, and shows what the job has
\* if they were answered.
ReadRow(old, id, fails) ==
    [LoadAttributes(old, Attributes(Answer(id, fails)))
       EXCEPT !.state = IF fails THEN @ ELSE state[id],
              !.known = ~fails, !.moved = FALSE]

LEMMA RowRead ==
    ASSUME QueueInv, NEW id \in Job, NEW fails \in BOOLEAN,
           NEW old \in Row, old.id = id, RowOK(old), NEW row,
           row = ReadRow(old, id, fails)
    PROVE  row \in Row /\ row.id = id /\ row.printer = old.printer /\ RowOK(row)
  <1>1. /\ jobs \in Seq(SentJob) /\ state \in Seq(States)
        /\ Len(state) = Len(jobs) /\ id \in DOMAIN jobs
        /\ printer \in [Printer -> AnyPrinter]
    BY DEF QueueInv, QueueTypeOK, PrepareInv, JobTypeOK, Job
  <1>2. /\ old.id \in Nat /\ old.printer \in Printer /\ old.color \in Int
        /\ old.quality \in Int /\ old.duplex \in Int /\ old.twoSided \in BOOLEAN
        /\ old.state \in States /\ old.shrunk \in BOOLEAN
    BY DEF Row
  <1>3. PICK p \in AnyPrinter: p = printer[old.printer]
    BY <1>1, <1>2
  <1>4. /\ p.colors \in Seq(Color) /\ p.qualities \in Seq(AnyQuality)
        /\ p.modes \in Seq(Mode)
    BY DEF AnyPrinter
  <1>5. PICK a: a = Attributes(Answer(id, fails))
    OBVIOUS
  <1>6. /\ a.ranges \in Ranges /\ a.time \in Nat
        /\ a.copies \in Copies /\ a.landscape \in BOOLEAN
        /\ ~fails => /\ a.color = jobs[id].color
                     /\ a.duplex = jobs[id].duplex
                     /\ a.quality = QualityRead(jobs[id].quality)
                     /\ a.copies = jobs[id].copies
                     /\ a.landscape <=> jobs[id].landscape /\ BlankIsTrue
                     /\ a.ranges = RangesRead(jobs[id].ranges)
    BY <1>5, AnswerIs
  <1>7. PICK mode: mode = PpdChoiceToDuplexMode(a.duplex)
    OBVIOUS
  <1>8. PICK color: color = PlaceOfOne(p.colors, a.color, old.color)
    OBVIOUS
  <1>9. /\ color \in Int
        /\ color = old.color \/ color \in 0..Len(p.colors) - 1
        /\ a.color \in Range(p.colors) =>
             \A otherwise: At(p.colors, color, otherwise) = a.color
    BY <1>2, <1>4, <1>8, ValueIsFound
  <1>10. PICK duplex: duplex = PlaceOfOne(p.modes, mode, old.duplex)
    OBVIOUS
  <1>11. /\ duplex \in Int
         /\ duplex = old.duplex \/ duplex \in 0..Len(p.modes) - 1
         /\ mode \in Range(p.modes) =>
              \A otherwise: At(p.modes, duplex, otherwise) = mode
    BY <1>2, <1>4, <1>10, ValueIsFound
  <1>12. PICK quality: quality = PlaceNamed(p.qualities, a.quality, old.quality)
    OBVIOUS
  <1>13. /\ quality \in Int
         /\ quality = old.quality \/ quality \in 0..Len(p.qualities) - 1
         /\ \A x \in Range(p.qualities): x.name = a.quality =>
              \A otherwise: At(p.qualities, quality, otherwise).name = a.quality
    BY <1>2, <1>4, <1>12, NameIsFound
  <1>14. PICK twoSided \in BOOLEAN:
           twoSided = IF mode \in Range(p.modes) THEN mode # "none" ELSE old.twoSided
    BY <1>2
  <1>15. PICK new \in States: new = IF fails THEN old.state ELSE state[id]
    BY <1>1, <1>2
  <1>16. LoadAttributes(old, a) =
           [old EXCEPT !.color = color, !.duplex = duplex, !.twoSided = twoSided,
                       !.quality = quality, !.copies = a.copies,
                       !.landscape = a.landscape, !.ranges = a.ranges,
                       !.time = a.time]
    BY <1>3, <1>7, <1>8, <1>10, <1>12, <1>14
    DEF LoadAttributes, PlaceOfOne, PlaceNamed
  <1>17. PICK read: read =
           [old EXCEPT !.color = color, !.duplex = duplex, !.twoSided = twoSided,
                       !.quality = quality, !.copies = a.copies,
                       !.landscape = a.landscape, !.ranges = a.ranges,
                       !.time = a.time]
    OBVIOUS
  <1>18. /\ read \in Row /\ read.id = id /\ read.printer = old.printer
         /\ read.color = color /\ read.quality = quality /\ read.duplex = duplex
         /\ read.twoSided = twoSided
         /\ read.copies = a.copies /\ read.landscape = a.landscape
         /\ read.ranges = a.ranges /\ read.shrunk = old.shrunk
    BY <1>6, <1>9, <1>11, <1>13, <1>17 DEF Row
  <1>19. PICK known \in BOOLEAN, unmoved \in BOOLEAN:
           known = ~fails /\ unmoved = FALSE
    BY Zenon
  <1>20. row = [read EXCEPT !.state = new, !.known = known, !.moved = unmoved]
    BY <1>5, <1>15, <1>16, <1>17, <1>18, <1>19 DEF Row, ReadRow
  <1>21. /\ row \in Row /\ row.id = read.id /\ row.printer = read.printer
         /\ row.color = read.color /\ row.quality = read.quality
         /\ row.duplex = read.duplex /\ row.twoSided = read.twoSided
         /\ row.copies = read.copies /\ row.landscape = read.landscape
         /\ row.ranges = read.ranges /\ row.shrunk = read.shrunk
         /\ row.known = known
    BY <1>18, <1>19, <1>20 DEF Row
  <1>22. /\ row.id = id /\ row.printer = old.printer
         /\ row.color = color /\ row.quality = quality /\ row.duplex = duplex
         /\ row.copies = a.copies /\ row.landscape = a.landscape
         /\ row.ranges = a.ranges /\ row.shrunk = old.shrunk
    BY <1>18, <1>21
  <1>23. (row.twoSided <=> twoSided) /\ (row.known <=> ~fails)
    BY <1>18, <1>19, <1>21
  <1>24. PlacesInRange(old) => PlacesInRange(row)
    BY <1>3, <1>9, <1>11, <1>13, <1>22 DEF PlacesInRange
  <1>25. ASSUME ~fails
         PROVE  ShowsSent(row)
    <2>1. PICK sent \in SentJob: sent = jobs[id]
      BY <1>1
    <2>2. /\ a.color = sent.color /\ a.duplex = sent.duplex
          /\ a.quality = QualityRead(sent.quality)
          /\ a.ranges = RangesRead(sent.ranges)
      BY <1>6, <1>25, <2>1
    <2>3. old.printer # NoPrinter
      BY <1>2, OptionFacts
    <2>4. /\ ColorOf(row) = At(p.colors, color, NoColor)
          /\ QualityOf(row) = At(p.qualities, quality, NoQuality)
          /\ ModeOf(row) = At(p.modes, duplex, "none")
      BY <1>3, <1>22, <2>3 DEF ColorOf, QualityOf, ModeOf
    <2>5. sent.color \in Range(p.colors) => ColorOf(row) = sent.color
      BY <1>9, <2>2, <2>4
    <2>6. mode \in Range(p.modes) => ModeOf(row) = mode
      BY <1>11, <2>4
    <2>7. mode \in Range(p.modes) => (row.twoSided <=> mode # "none")
      BY <1>14, <1>23
    <2>8. PICK names: names = NamesGiven(sent.quality)
      OBVIOUS
    <2>9. a.quality \in names
      <3>1. sent.quality \in [Option -> AnyQuality]
        BY DEF SentJob
      <3>2. QED
        BY <2>2, <2>8, <3>1, QualityIsRead
    <2>10. names \subseteq {q.name: q \in Range(p.qualities)}
             => QualityOf(row).name \in names
      <3>1. SUFFICES ASSUME names \subseteq {q.name: q \in Range(p.qualities)}
                     PROVE  QualityOf(row).name \in names
        OBVIOUS
      <3>2. PICK x \in Range(p.qualities): x.name = a.quality
        BY <2>9, <3>1
      <3>3. QualityOf(row).name = a.quality
        BY <1>13, <2>4, <3>2
      <3>4. QED
        BY <2>9, <3>3
    <2>11. PpdChoiceToDuplexMode(sent.duplex) = mode
      BY <1>7, <2>2
    <2>12. row.id = id /\ printer[row.printer] = p
      BY <1>3, <1>22
    <2>13. Chosen(sent, p.colors, p.modes, p.qualities, ColorOf(row),
                  QualityOf(row), ModeOf(row), row.twoSided)
      BY <2>5, <2>6, <2>7, <2>8, <2>10, <2>11, Zenon DEF Chosen, NamesGiven
    <2>14. row.ranges = IF sent.ranges = 1 THEN 0 ELSE sent.ranges
      <3>1. sent.ranges \in Ranges /\ sent.ranges \in Nat
        BY OptionFacts DEF SentJob
      <3>2. RangesRead(sent.ranges) = IF sent.ranges = 1 THEN 0 ELSE sent.ranges
        BY <3>1 DEF RangesRead
      <3>3. QED
        BY <1>22, <2>2, <3>2
    <2>15. row.copies = sent.copies /\ (row.landscape <=> sent.landscape /\ BlankIsTrue)
      BY <1>6, <1>22, <1>25, <2>1
    <2>16. QED
      BY <2>1, <2>12, <2>13, <2>14, <2>15, ChosenIs DEF ShowsSent
  <1>26. RowOK(row)
    BY <1>22, <1>23, <1>24, <1>25 DEF RowOK
  <1>27. QED
    BY <1>21, <1>22, <1>26

LEMMA UpdateJobQueues ==
    ASSUME QueueInv, NEW id \in Job, NEW fails \in BOOLEAN, UpdateJob(id, fails)
    PROVE  QueueTypeOK' /\ RowsInv' /\ ViewInv'
  <1>1. /\ rows \in Seq(Row) /\ Increasing(rows) /\ told \in 0..Len(jobs)
        /\ jobs \in Seq(SentJob) /\ Len(jobs) \in Nat
    BY DEF QueueInv, QueueTypeOK, RowsInv, PrepareInv, JobTypeOK
  <1>2. HasRow(rows, id) /\ UNCHANGED <<jobs, printer, state, created, told, count>>
    BY DEF UpdateJob, jobVars, printing
  <1>3. PICK old \in Row: old = RowOf(rows, id)
    BY <1>1, <1>2, RowHad
  <1>4. old.id = id /\ \E i \in DOMAIN rows: old = rows[i]
    BY <1>1, <1>2, <1>3, RowHad
  <1>5. RowOK(old)
    BY <1>4 DEF QueueInv, RowsInv
  <1>6. PICK row: row = ReadRow(old, id, fails)
    OBVIOUS
  <1>7. row \in Row /\ row.id = id /\ row.printer = old.printer /\ RowOK(row)
    BY <1>4, <1>5, <1>6, RowRead
  <1>8. RowChanges(Replaced(row), row.id)
    BY <1>3, <1>6, <1>7 DEF UpdateJob, ReadRow
  <1>9. RowOK(row)'
    <2>1. told' \in Nat /\ told <= told'
      BY <1>1, <1>2
    <2>2. QED
      BY <1>1, <1>2, <1>7, <2>1, RowStays
  <1>10. HasRow(rows, row.id) /\ RowOf(rows, row.id).printer = row.printer
    BY <1>2, <1>3, <1>7
  <1>11. QED
    BY <1>2, <1>7, <1>8, <1>9, <1>10, ReplacedQueues

\* Rows that change in nothing a filter looks at are shown as before.
LEMMA KeptIsExact ==
    ASSUME NEW filter, NEW shown \in Seq(Nat),
           NEW old \in Seq(Row), Increasing(old), NEW list \in Seq(Row),
           DOMAIN list = DOMAIN old,
           \A i \in DOMAIN old: /\ list[i].id = old[i].id
                                /\ list[i].printer = old[i].printer
                                /\ list[i].state = old[i].state
                                /\ list[i].time = old[i].time,
           Exact(filter, shown, old)
    PROVE  Increasing(list) /\ Exact(filter, shown, list)
  <1>1. Increasing(list)
    BY DEF Increasing
  <1>2. \A i \in DOMAIN old:
          FilterAcceptsRow(filter, list[i]) <=> FilterAcceptsRow(filter, old[i])
    BY DEF FilterAcceptsRow
  <1>3. Accepted(filter, list) = Accepted(filter, old)
    BY <1>2 DEF Accepted
  <1>4. Ids(list) = Ids(old)
    BY DEF Ids
  <1>5. ASSUME NEW id \in Ids(old)
        PROVE  \E i \in DOMAIN old: RowOf(old, id) = old[i] /\ RowOf(list, id) = list[i]
    <2>1. PICK i \in DOMAIN old: old[i].id = id
      BY <1>5 DEF Ids
    <2>2. RowOf(old, id) = old[i]
      BY <2>1, RowFound
    <2>3. i \in DOMAIN list /\ list[i].id = id
      BY <2>1
    <2>4. RowOf(list, id) = list[i]
      BY <1>1, <2>3, RowFound
    <2>5. QED
      BY <2>2, <2>4
  <1>6. ASSUME NEW a \in Ids(old), NEW b \in Ids(old)
        PROVE  Before(filter, RowOf(list, a), RowOf(list, b)) <=>
                 Before(filter, RowOf(old, a), RowOf(old, b))
    <2>1. PICK i \in DOMAIN old: RowOf(old, a) = old[i] /\ RowOf(list, a) = list[i]
      BY <1>5
    <2>2. PICK j \in DOMAIN old: RowOf(old, b) = old[j] /\ RowOf(list, b) = list[j]
      BY <1>5
    <2>3. QED
      BY <2>1, <2>2 DEF Before, LessThan
  <1>7. Order(filter, list) = Order(filter, old)
    BY <1>4, <1>6 DEF Order
  <1>8. QED
    BY <1>1, <1>3, <1>7 DEF Exact

KeptRow(old, p, new) ==
    IF old.printer # p \/ SameLists(printer[p], new) THEN old
    ELSE [old EXCEPT !.moved = TRUE,
                     !.shrunk = @ \/ \E f \in Fields:
                                       Len(new[f]) < Len(printer[p][f])]

\* When a printer's lists are replaced its rows' places still are in range if
\* no list became shorter, and what other rows show stays.
LEMMA RowIsKept ==
    ASSUME QueueInv, NEW p \in Printer, NEW new \in AnyPrinter,
           printer' = [printer EXCEPT ![p] = new], UNCHANGED <<jobs, told>>,
           NEW old \in Row, RowOK(old), NEW row, row = KeptRow(old, p, new)
    PROVE  /\ row \in Row /\ RowOK(row)'
           /\ row.id = old.id /\ row.printer = old.printer
           /\ row.state = old.state /\ row.time = old.time
  <1>1. printer \in [Printer -> AnyPrinter] /\ old.printer \in Printer
    BY DEF QueueInv, PrepareInv, JobTypeOK, Row
  <1>2. CASE old.printer # p \/ SameLists(printer[p], new)
    <2>1. row = old
      BY <1>2 DEF KeptRow
    <2>2. /\ printer'[old.printer].colors = printer[old.printer].colors
          /\ printer'[old.printer].qualities = printer[old.printer].qualities
          /\ printer'[old.printer].modes = printer[old.printer].modes
      BY <1>1, <1>2 DEF SameLists, Fields
    <2>3. PlacesInRange(old) => PlacesInRange(old)'
      BY <2>2 DEF PlacesInRange
    <2>4. ColorOf(old)' = ColorOf(old) /\ QualityOf(old)' = QualityOf(old)
          /\ ModeOf(old)' = ModeOf(old)
      BY <2>2 DEF ColorOf, QualityOf, ModeOf
    <2>5. ShowsChosen(old) => ShowsChosen(old)'
      <3>1. ShowsChosen(old)' <=>
              Chosen(jobs'[old.id], printer'[old.printer].colors,
                     printer'[old.printer].modes, printer'[old.printer].qualities,
                     ColorOf(old)', QualityOf(old)', ModeOf(old)', old.twoSided)
        BY DEF ShowsChosen, Chosen
      <3>2. QED
        BY <2>2, <2>4, <3>1, ChosenIs
    <2>6. ShowsSent(old) => ShowsSent(old)'
      BY <2>5 DEF ShowsSent
    <2>7. RowOK(old)'
      BY <2>3, <2>6 DEF RowOK
    <2>8. QED
      BY <2>1, <2>7
  <1>3. CASE old.printer = p /\ ~SameLists(printer[p], new)
    <2>1. PICK shrinks \in BOOLEAN:
            shrinks <=> \E f \in Fields: Len(new[f]) < Len(printer[p][f])
      OBVIOUS
    <2>2. PICK shrunk \in BOOLEAN: shrunk = (old.shrunk \/ shrinks)
      OBVIOUS
    <2>3. row = [old EXCEPT !.moved = TRUE, !.shrunk = shrunk]
      BY <1>3, <2>1, <2>2 DEF KeptRow, Row
    <2>4. /\ row \in Row /\ row.id = old.id /\ row.printer = old.printer
          /\ row.state = old.state /\ row.time = old.time
          /\ row.color = old.color /\ row.quality = old.quality
          /\ row.duplex = old.duplex /\ row.known = old.known
          /\ row.copies = old.copies /\ row.landscape = old.landscape
          /\ row.ranges = old.ranges
      BY <2>3 DEF Row
    <2>5. row.moved = TRUE /\ row.shrunk = shrunk
      BY <2>3 DEF Row
    <2>6. ASSUME ~row.shrunk
          PROVE  PlacesInRange(row)'
      <3>1. ~old.shrunk /\ ~shrinks
        BY <2>2, <2>5, <2>6
      <3>2. PlacesInRange(old)
        BY <3>1 DEF RowOK
      <3>3. /\ printer[p] \in AnyPrinter /\ printer'[p] = new
            /\ printer'[row.printer] = new /\ old.printer = p
        BY <1>1, <1>3, <2>4
      <3>4. /\ Len(new.colors) \in Nat /\ Len(new.qualities) \in Nat
            /\ Len(new.modes) \in Nat
            /\ Len(printer[p].colors) \in Nat /\ Len(printer[p].qualities) \in Nat
            /\ Len(printer[p].modes) \in Nat
        BY <3>3 DEF AnyPrinter
      <3>5. /\ ~(Len(new.colors) < Len(printer[p].colors))
            /\ ~(Len(new.qualities) < Len(printer[p].qualities))
            /\ ~(Len(new.modes) < Len(printer[p].modes))
        BY <2>1, <3>1 DEF Fields
      <3>6. /\ old.color \in 0..Len(printer[p].colors) - 1
            /\ old.quality \in 0..Len(printer[p].qualities) - 1
            /\ old.duplex = 0 \/ old.duplex \in 0..Len(printer[p].modes) - 1
        BY <3>2, <3>3 DEF PlacesInRange
      <3>7. old.color \in 0..Len(new.colors) - 1
        BY <3>4, <3>5, <3>6
      <3>8. old.quality \in 0..Len(new.qualities) - 1
        BY <3>4, <3>5, <3>6
      <3>9. old.duplex = 0 \/ old.duplex \in 0..Len(new.modes) - 1
        BY <3>4, <3>5, <3>6
      <3>10. QED
        BY <2>4, <3>3, <3>7, <3>8, <3>9 DEF PlacesInRange
    <2>7. RowOK(row)'
      <3>1. row.id \in 1..told /\ row.printer = jobs[row.id].printer
        BY <2>4 DEF RowOK
      <3>2. row.known => ShowsSent(row)'
        BY <2>4, <2>5 DEF RowOK, ShowsSent
      <3>3. QED
        BY <2>6, <3>1, <3>2 DEF RowOK
    <2>8. QED
      BY <2>4, <2>7
  <1>4. QED
    BY <1>2, <1>3

LEMMA PrinterLoadedQueues ==
    ASSUME QueueInv, NEW p \in Printer, NEW fails \in BOOLEAN,
           PrinterLoaded(p, fails)
    PROVE  QueueTypeOK' /\ RowsInv' /\ ViewInv'
  <1>1. /\ rows \in Seq(Row) /\ view \in [Filter -> Seq(Nat)]
        /\ Increasing(rows) /\ FiltersExact /\ CountsAnnounced
        /\ printer \in [Printer -> AnyPrinter]
    BY DEF QueueInv, QueueTypeOK, RowsInv, ViewInv, PrepareInv, JobTypeOK
  <1>2. PICK new \in AnyPrinter: new = Loaded(server[p], fails)
    BY LoadedIsListed DEF QueueInv, PrepareInv, JobTypeOK, PrinterInv
  <1>3. /\ printer' = [printer EXCEPT ![p] = new]
        /\ UNCHANGED <<jobs, state, created, told, view, count>>
    BY <1>2 DEF PrinterLoaded, Load
  <1>4. printer'[p] = new
    BY <1>1, <1>3
  <1>5. rows' = [i \in DOMAIN rows |-> KeptRow(rows[i], p, new)]
    BY <1>4 DEF PrinterLoaded, KeptRow
  <1>6. PICK list: list = rows'
    OBVIOUS
  <1>7. Len(rows) \in Nat /\ DOMAIN rows = 1..Len(rows) /\ DOMAIN list = DOMAIN rows
    BY <1>1, <1>5, <1>6
  <1>8. ASSUME NEW i \in DOMAIN rows
        PROVE  /\ list[i] \in Row /\ RowOK(list[i])'
               /\ list[i].id = rows[i].id /\ list[i].printer = rows[i].printer
               /\ list[i].state = rows[i].state /\ list[i].time = rows[i].time
    <2>1. PICK old \in Row: old = rows[i]
      BY <1>1
    <2>2. RowOK(old)
      BY <2>1 DEF QueueInv, RowsInv
    <2>3. PICK row: row = KeptRow(old, p, new)
      OBVIOUS
    <2>4. row = list[i]
      BY <1>5, <1>6, <2>1, <2>3
    <2>5. /\ row \in Row /\ RowOK(row)'
          /\ row.id = old.id /\ row.printer = old.printer
          /\ row.state = old.state /\ row.time = old.time
      BY <1>3, <2>2, <2>3, RowIsKept
    <2>6. RowOK(list[i])'
      BY <2>4, <2>5
    <2>7. QED
      BY <2>1, <2>4, <2>5, <2>6
  <1>9. list \in Seq(Row)
    <2>1. list = [i \in 1..Len(rows) |-> list[i]]
      BY <1>5, <1>6, <1>7
    <2>2. \A i \in 1..Len(rows): list[i] \in Row
      BY <1>7, <1>8
    <2>3. QED
      BY <1>7, <2>1, <2>2
  <1>10. Increasing(list)
    BY <1>1, <1>7, <1>8 DEF Increasing
  <1>11. QueueTypeOK'
    BY <1>3, <1>6, <1>9 DEF QueueInv, QueueTypeOK
  <1>12. RowsInv'
    <2>1. \A i \in DOMAIN list: RowOK(list[i])'
      BY <1>7, <1>8
    <2>2. QED
      BY <1>6, <1>10, <2>1 DEF RowsInv, Increasing
  <1>13. FiltersExact'
    <2>1. ASSUME NEW filter \in Filter
          PROVE  /\ Range(view[filter]) = {list[i].id: i \in {k \in DOMAIN list:
                                             FilterAcceptsRow(filter, list[k])}}
                 /\ \A i, j \in DOMAIN view[filter]: i < j =>
                      Before(filter, RowOf(list, view[filter][i]),
                                     RowOf(list, view[filter][j]))
      <3>1. PICK shown \in Seq(Nat): shown = view[filter]
        BY <1>1
      <3>2. Exact(filter, shown, rows)
        BY <1>1, <3>1, ExactIs DEF FiltersExact
      <3>3. Exact(filter, shown, list)
        BY <1>1, <1>7, <1>8, <1>9, <3>2, KeptIsExact
      <3>4. QED
        BY <1>9, <3>1, <3>3, ExactIs
    <2>2. QED
      BY <1>3, <1>6, <2>1 DEF FiltersExact
  <1>14. CountsAnnounced'
    BY <1>1, <1>3 DEF CountsAnnounced
  <1>15. QED
    BY <1>11, <1>12, <1>13, <1>14 DEF ViewInv

-----------------------------------------------------------------------------
(* The theorems *)

LEMMA QueueStep ==
    ASSUME QueueInv, [Next]_vars
    PROVE  QueueInv'
  <1>1. PrepareInv'
    BY PreparesStep DEF QueueInv
  <1>2. world.fails \in SUBSET BOOLEAN
    BY SettingsAssumption DEF QueueInv, PrepareInv, JobTypeOK
  <1>3. CASE Chooses
    <2>1. UNCHANGED <<queueVars, jobs, printer>>
      BY <1>3 DEF Chooses, SetPrinter, SetColorModel, SetQuality, SetDuplexMode,
                  SetLandscape, SetPrintRange, SetCopies, CreateJob, Choose, printing
    <2>2. QED
      BY <1>1, <2>1, StillQueues DEF QueueInv
  <1>4. CASE Prints
    BY <1>1, <1>4, PrintsQueues DEF QueueInv
  <1>5. CASE Administers
    <2>1. UNCHANGED <<queueVars, jobs, printer>>
      BY <1>5 DEF Administers, SetData, SetDefaultColorModel, SetDefaultPrintQuality,
                  SetDefaultDuplexMode, Administer, printing
    <2>2. QED
      BY <1>1, <2>1, StillQueues DEF QueueInv
  <1>6. ASSUME NEW p \in Printer, NEW fails \in world.fails, PrinterLoaded(p, fails)
        PROVE  QueueInv'
    BY <1>1, <1>2, <1>6, PrinterLoadedQueues DEF QueueInv
  <1>7. CASE JobCreated
    BY <1>1, <1>7, JobCreatedQueues DEF QueueInv
  <1>8. ASSUME NEW id \in Job
        PROVE  /\ JobMoves(id) => QueueInv'
               /\ JobState(id) => QueueInv'
               /\ JobCompleted(id) => QueueInv'
               /\ \A fails \in world.fails: UpdateJob(id, fails) => QueueInv'
    BY <1>1, <1>2, JobMovesQueues, JobStateQueues, JobCompletedQueues,
       UpdateJobQueues DEF QueueInv
  <1>9. CASE UNCHANGED vars
    <2>1. UNCHANGED <<queueVars, jobs, printer>>
      BY <1>9 DEF vars, jobVars, printing
    <2>2. QED
      BY <1>1, <2>1, StillQueues DEF QueueInv
  <1>10. QED
    BY <1>3, <1>4, <1>5, <1>6, <1>7, <1>8, <1>9 DEF Next

LEMMA QueueInvariant == Spec => []QueueInv
  <1>1. Init => QueueInv
    BY InitQueues
  <1>2. QueueInv /\ [Next]_vars => QueueInv'
    BY QueueStep
  <1>3. QED
    BY <1>1, <1>2, PTL DEF Spec

\* The printers, the destinations, the job, CUPS' jobs, the rows and what the
\* filters show and announce always are of their types.
THEOREM QueueTypes == Spec => []TypeOK
  <1>1. QueueInv => TypeOK
    BY DEF QueueInv, PrepareInv, QueueTypeOK, TypeOK
  <1>2. QED
    BY <1>1, QueueInvariant, PTL

\* A row whose attributes were read shows the copies, the orientation and the
\* ranges CUPS was given for the job, but all pages for a single range; and, as
\* long as its printer has the lists they were read with, the colour model, the
\* mode and a name of the qualities CUPS was given, if these lists have them
\* (printerjob.cpp:148-209, backend_cups.cpp:444-571, ippclient.cpp:1060-1070).
THEOREM QueueShowsWhatWasSent == Spec => []QueueShowsSent
  <1>1. QueueInv => QueueShowsSent
    BY DEF QueueInv, RowsInv, RowOK, QueueShowsSent
  <1>2. QED
    BY <1>1, QueueInvariant, PTL

\* The roles of a row are looked up in range in the lists of a printer that is
\* loaded, unless a list became shorter (jobmodel.cpp:245-303).
THEOREM RolesAreInRange == Spec => []RolesInRange
  <1>1. ASSUME QueueInv, NEW i \in DOMAIN rows, printer[rows[i].printer].loaded,
               ~rows[i].shrunk
        PROVE  DataInRange(rows[i])
    <2>1. PICK row \in Row: row = rows[i]
      BY <1>1 DEF QueueInv, QueueTypeOK
    <2>2. RowOK(row)
      BY <1>1, <2>1 DEF QueueInv, RowsInv
    <2>3. PlacesInRange(row)
      BY <1>1, <2>1, <2>2 DEF RowOK
    <2>4. PICK p \in Printer: p = row.printer
      BY DEF Row
    <2>5. printer[p].modes \in Seq(Mode) /\ Listed(printer[p]) /\ printer[p].loaded
      BY <1>1, <2>1, <2>4 DEF QueueInv, PrepareInv, JobTypeOK, AnyPrinter, PrinterInv
    <2>6. Len(printer[p].modes) \in Nat /\ Len(printer[p].modes) > 0
      BY <2>5 DEF Listed
    <2>7. 0 \in 0..Len(printer[p].modes) - 1
      BY <2>6
    <2>8. DataInRange(row)
      BY <2>3, <2>4, <2>7 DEF PlacesInRange, DataInRange
    <2>9. QED
      BY <2>1, <2>8
  <1>2. QueueInv => RolesInRange
    BY <1>1 DEF RolesInRange
  <1>3. QED
    BY <1>2, QueueInvariant, PTL

\* Each filter shows the rows it accepts and no other, each once and in its
\* order, whatever signals and reads came before (jobmodel.cpp:90-205,
\* 463-531).
THEOREM FiltersAreExact == Spec => []FiltersExact
  <1>1. QueueInv => FiltersExact
    BY DEF QueueInv, ViewInv
  <1>2. QED
    BY <1>1, QueueInvariant, PTL

\* The count a Printer's filter announced last is the number of its jobs
\* (jobmodel.cpp:419-427).
THEOREM CountsAreAnnounced == Spec => []CountsAnnounced
  <1>1. QueueInv => CountsAnnounced
    BY DEF QueueInv, ViewInv
  <1>2. QED
    BY <1>1, QueueInvariant, PTL

===============================================================================
