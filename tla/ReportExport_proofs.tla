------------------------- MODULE ReportExport_proofs -------------------------
(***************************************************************************)
(* Proofs about module ReportExport, for reports with any number of fields *)
(* whatever their keys: none is lost when repeated ones are numbered, and  *)
(* no attribute takes another one's name.                                  *)
(***************************************************************************)
EXTENDS ReportExport, Extremes, TLAPS

\* What names are made of.
Part == STRING \cup {"", "unnamed"} \cup {ToString(n) : n \in Nat}
Attribute == [name : Seq(Part), value : Value, original : SUBSET Key]

Types ==
    /\ report \in Reports
    /\ phase \in {"numbering", "recording", "naming", "emitted"}
    /\ at \in 1..Len(report.keys) + 1
    /\ DOMAIN fields \subseteq Key
    /\ \A k \in DOMAIN fields : fields[k] \in Value
    /\ left \subseteq DOMAIN fields
    /\ attributes \in Seq(Attribute)
    /\ \A i \in DOMAIN attributes : attributes[i].original \subseteq DOMAIN fields

\* There are more suffixes than names.
Sizes ==
    /\ IsFiniteSet(DOMAIN fields) /\ IsFiniteSet(used)
    /\ phase = "numbering" => Cardinality(DOMAIN fields) <= at - 1
    /\ Cardinality(DOMAIN fields) <= Len(report.keys) + 2
    /\ phase \in {"numbering", "recording"} => left = {} /\ used = {} /\ attributes = <<>>
    /\ Cardinality(used) + Cardinality(left) <= Len(report.keys) + 2

\* used is the set of the names.
Used == used = {attributes[i].name : i \in DOMAIN attributes}

\* How field i came to have the key k.
Made(k, i) ==
    \/ /\ k = report.keys[i]
       /\ \A j \in 1..i - 1 : report.keys[j] # report.keys[i]
    \/ /\ report.keys[i] \in DOMAIN fields
       /\ \E n \in Nat : /\ n >= 2 /\ k = With(report.keys[i], n)
                         /\ \A m \in 2..n - 1 : With(report.keys[i], m) \in DOMAIN fields
       /\ report.keys[i].numbers = <<>> => \E j \in 1..i - 1 : report.keys[j] = report.keys[i]

\* While fields are numbered each has one key.
KeysMade ==
    phase = "numbering" =>
        /\ \A k \in DOMAIN fields : \E i \in 1..at - 1 : fields[k] = <<"report", i>>
        /\ \A i \in 1..at - 1 : \E k \in DOMAIN fields : fields[k] = <<"report", i>>
        /\ \A k, l \in DOMAIN fields : fields[k] = fields[l] => k = l
        /\ \A k \in DOMAIN fields, i \in 1..at - 1 :
              fields[k] = <<"report", i>> => Made(k, i)

\* By .original_key or by its name an attribute tells its key.
Tells(a, k) == a.original = {k} \/ (a.original = {} /\ Spelled(k, a.name))

Told ==
    phase \in {"naming", "emitted"} =>
        /\ \A i \in DOMAIN attributes : \E k \in DOMAIN fields \ left :
              /\ ~secretField(k) /\ Tells(attributes[i], k)
              /\ attributes[i].value = fields[k]
        /\ \A k \in DOMAIN fields \ left :
              ~secretField(k) => \E i \in DOMAIN attributes : Tells(attributes[i], k)
        /\ \A i, j \in DOMAIN attributes, k \in DOMAIN fields :
              Tells(attributes[i], k) /\ Tells(attributes[j], k) => i = j

IInv ==
    /\ Types /\ Sizes /\ Used /\ KeysMade /\ RepeatedFieldsKept /\ NamesUnique /\ Told
    /\ phase = "emitted" => left = {}

-----------------------------------------------------------------------------
(* Keys and names *)

LEMMA ReportFacts ==
    ASSUME Types
    PROVE  /\ report \in Report /\ report.keys \in Seq(Key)
           /\ Len(report.keys) \in Nat /\ Len(report.keys) + 2 <= Len(Xs) /\ Len(Xs) \in Nat
           /\ at \in Nat
           /\ at <= Len(report.keys) => report.keys[at] \in Key
           /\ \A i \in 1..at - 1 : report.keys[i] \in Key
<1>1. report \in Report /\ Len(report.keys) + 2 <= Len(Xs)
  BY ReportsAssumption DEF Types
<1>2. report.keys \in Seq(Key)
  BY <1>1 DEF Report
<1>3. Len(Xs) \in Nat
  BY ReportsAssumption
<1> QED
  BY <1>1, <1>2, <1>3 DEF Types

LEMMA PublishKeys ==
    /\ CallID \in Key /\ CSeq \in Key /\ CallID # CSeq
    /\ CallID.numbers = <<>> /\ CSeq.numbers = <<>>
<1>1. <<>> \in Seq(Nat)
  OBVIOUS
<1> QED
  BY <1>1, KeysAssumption DEF CallID, CSeq, Key

LEMMA WithNumber ==
    ASSUME NEW key \in Key, NEW n \in Nat
    PROVE  /\ With(key, n) \in Key
           /\ With(key, n).word = key.word
           /\ With(key, n).numbers = Append(key.numbers, n)
           /\ key.numbers \in Seq(Nat)
           /\ Len(With(key, n).numbers) = Len(key.numbers) + 1
           /\ With(key, n).numbers # <<>>
           /\ With(key, n) # key
           /\ Front(With(key, n).numbers) = key.numbers
<1>1. key.numbers \in Seq(Nat) /\ key.word \in {Words[i] : i \in DOMAIN Words}
  BY DEF Key
<1>2. /\ With(key, n).word = key.word
      /\ With(key, n).numbers = Append(key.numbers, n)
  BY DEF With, Key
<1>3. /\ Append(key.numbers, n) \in Seq(Nat)
      /\ Len(Append(key.numbers, n)) = Len(key.numbers) + 1
      /\ Len(key.numbers) \in Nat
  BY <1>1
<1>4. Front(Append(key.numbers, n)) = key.numbers
  BY <1>1, <1>3 DEF Front
<1>5. With(key, n) \in Key
  BY <1>1, <1>3 DEF With, Key
<1> QED
  BY <1>1, <1>2, <1>3, <1>4, <1>5

LEMMA WithDiffers ==
    ASSUME NEW key \in Key, NEW m \in Nat, NEW n \in Nat, With(key, m) = With(key, n)
    PROVE  m = n
<1>1. Append(key.numbers, m) = Append(key.numbers, n) /\ key.numbers \in Seq(Nat)
  BY WithNumber
<1>2. /\ Append(key.numbers, m)[Len(key.numbers) + 1] = m
      /\ Append(key.numbers, n)[Len(key.numbers) + 1] = n
  BY <1>1
<1> QED
  BY <1>1, <1>2

\* There is a first number that is free, and it is taken.
LEMMA FirstFree ==
    ASSUME Types, IsFiniteSet(DOMAIN fields), NEW key \in Key, key \in DOMAIN fields
    PROVE  \E n \in Nat : /\ n >= 2
                          /\ Numbered(key) = With(key, n) /\ With(key, n) \notin DOMAIN fields
                          /\ \A m \in 2..n - 1 : With(key, m) \in DOMAIN fields
<1> DEFINE c == Cardinality(DOMAIN fields)
           T == {n \in 2..c + 2 : With(key, n) \notin DOMAIN fields}
           f == [n \in 2..c + 2 |-> With(key, n)]
<1>1. c \in Nat
  BY FS_CardinalityType
<1>2. T # {}
  <2> SUFFICES ASSUME T = {} PROVE FALSE
    OBVIOUS
  <2>1. f \in [2..c + 2 -> DOMAIN fields]
    OBVIOUS
  <2>2. 2 \in Int /\ c + 2 \in Int /\ Cardinality(DOMAIN fields) <= (c + 2) - 2
    BY <1>1
  <2>3. PICK m, n \in 2..c + 2 : m # n /\ f[m] = f[n]
    <3> HIDE DEF f, T, c
    <3> QED
      BY <2>1, <2>2, Pigeons
  <2>4. m \in Nat /\ n \in Nat /\ With(key, m) = With(key, n)
    BY <2>3
  <2> QED
    BY <2>3, <2>4, WithDiffers
<1>3. PICK i \in T : \A j \in T : i <= j
  <2>1. T \subseteq Nat
    BY <1>1
  <2> QED
    BY <1>2, <2>1, Least
<1>4. \A m \in 2..i - 1 : With(key, m) \in DOMAIN fields
  BY <1>1, <1>3
<1> DEFINE n == CHOOSE n \in 2..c + 2 : /\ With(key, n) \notin DOMAIN fields
                                        /\ \A m \in 2..n - 1 : With(key, m) \in DOMAIN fields
<1>5. /\ n \in 2..c + 2 /\ With(key, n) \notin DOMAIN fields
      /\ \A m \in 2..n - 1 : With(key, m) \in DOMAIN fields
  BY <1>3, <1>4
<1>6. Numbered(key) = With(key, n)
  BY DEF Numbered
<1>7. n \in Nat /\ n >= 2
  BY <1>1, <1>5
<1> QED
  BY <1>5, <1>6, <1>7

LEMMA StringsAreParts == \A s \in Seq(STRING) : s \in Seq(Part)
<1> SUFFICES ASSUME NEW s \in Seq(STRING) PROVE s \in Seq(Part)
  OBVIOUS
<1>1. Len(s) \in Nat /\ s \in [1..Len(s) -> STRING]
  OBVIOUS
<1>2. s \in [1..Len(s) -> Part]
  BY <1>1 DEF Part
<1> QED
  BY <1>1, <1>2

LEMMA NamesOfParts ==
    ASSUME NEW key \in Key
    PROVE  normalizeFieldKey(key) \in Seq(Part)
<1> DEFINE numbers == [i \in 1..2 * Len(key.numbers) - 1 |->
                       IF i % 2 = 1 THEN ToString(key.numbers[(i + 1) \div 2]) ELSE ""]
           parts == Normal[key.word] \o numbers
<1>1. key.numbers \in Seq(Nat) /\ Len(key.numbers) \in Nat
  BY DEF Key
<1>2. Normal[key.word] \in Seq(Part)
  BY KeysAssumption, StringsAreParts DEF Key
<1>3. numbers \in Seq(Part)
  <2>1. \A i \in 1..2 * Len(key.numbers) - 1 : numbers[i] \in Part
    <3> SUFFICES ASSUME NEW i \in 1..2 * Len(key.numbers) - 1 PROVE numbers[i] \in Part
      OBVIOUS
    <3>1. "" \in Part
      BY DEF Part
    <3>2. CASE i % 2 = 1
      <4>1. (i + 1) \div 2 \in 1..Len(key.numbers)
        BY <1>1, <3>2
      <4>2. key.numbers[(i + 1) \div 2] \in Nat
        BY <1>1, <4>1
      <4> QED
        BY <3>2, <4>2 DEF Part
    <3>3. CASE i % 2 # 1
      BY <3>1, <3>3
    <3> QED
      BY <3>2, <3>3
  <2>2. CASE key.numbers = <<>>
    <3>1. 1..2 * Len(key.numbers) - 1 = 1..0
      BY <2>2
    <3> HIDE DEF numbers
    <3>2. numbers \in [1..0 -> Part]
      BY <2>1, <3>1 DEF numbers
    <3> QED
      BY <3>2
  <2>3. CASE key.numbers # <<>>
    <3>1. 2 * Len(key.numbers) - 1 \in Nat
      BY <1>1, <2>3
    <3>2. numbers \in [1..2 * Len(key.numbers) - 1 -> Part]
      BY <2>1
    <3> HIDE DEF numbers
    <3> QED
      BY <3>1, <3>2
  <2> QED
    BY <2>2, <2>3
<1>4. parts \in Seq(Part)
  <2> HIDE DEF numbers
  <2> QED
    BY <1>2, <1>3
<1>5. <<"unnamed">> \in Seq(Part)
  <2>1. "unnamed" \in Part
    BY DEF Part
  <2> QED
    BY <2>1
<1>6. normalizeFieldKey(key) = IF parts = <<>> THEN <<"unnamed">> ELSE parts
  BY DEF normalizeFieldKey
<1> QED
  BY <1>4, <1>5, <1>6

\* There is a suffix that makes a new name, and it is taken.
LEMMA UnusedIsNew ==
    ASSUME NEW base \in Seq(Part), IsFiniteSet(used), Cardinality(used) <= Len(Xs)
    PROVE  Unused(base) \notin used /\ Unused(base) \in Seq(Part)
<1> DEFINE c == Len(Xs)
           T == {n \in 0..c : Candidate(base, n) \notin used}
           f == [n \in 0..c |-> Candidate(base, n)]
<1>1. c \in Nat /\ Xs \in Seq(STRING)
  BY ReportsAssumption
<1>2. \A n \in 0..c : Candidate(base, n) \in Seq(Part)
  <2> HIDE DEF T, f
  <2>0. Xs \in Seq(Part)
    BY <1>1, StringsAreParts
  <2>1. \A n \in 1..c : Xs[n] \in Part
    BY <2>0
  <2> QED
    BY <1>1, <2>1 DEF Candidate
<1>3. \A m, n \in 0..c : Candidate(base, m) = Candidate(base, n) => m = n
  <2> SUFFICES ASSUME NEW m \in 0..c, NEW n \in 0..c,
                      Candidate(base, m) = Candidate(base, n)
               PROVE  m = n
    OBVIOUS
  <2>1. CASE m = 0 \/ n = 0
    <3>1. \A x : Append(base, x) # base
      <4> SUFFICES ASSUME NEW x, Append(base, x) = base PROVE FALSE
        OBVIOUS
      <4>1. Len(Append(base, x)) = Len(base) + 1 /\ Len(base) \in Nat
        OBVIOUS
      <4> QED
        BY <4>1
    <3> QED
      BY <2>1, <3>1 DEF Candidate
  <2>2. CASE m # 0 /\ n # 0
    <3>1. Append(base, Xs[m]) = Append(base, Xs[n])
      BY <2>2 DEF Candidate
    <3>2. /\ Append(base, Xs[m])[Len(base) + 1] = Xs[m]
          /\ Append(base, Xs[n])[Len(base) + 1] = Xs[n]
      OBVIOUS
    <3>3. m \in DOMAIN Xs /\ n \in DOMAIN Xs
      BY <1>1, <2>2
    <3> QED
      BY <3>1, <3>2, <3>3, ReportsAssumption
  <2> QED
    BY <2>1, <2>2
<1>4. T # {}
  <2> SUFFICES ASSUME T = {} PROVE FALSE
    OBVIOUS
  <2>1. f \in [0..c -> used]
    OBVIOUS
  <2>2. Cardinality(used) \in Nat /\ Cardinality(used) <= c - 0 /\ 0 \in Int /\ c \in Int
    BY <1>1, FS_CardinalityType
  <2>4. PICK m, n \in 0..c : m # n /\ f[m] = f[n]
    <3> HIDE DEF f, T, c
    <3> QED
      BY <2>1, <2>2, Pigeons
  <2> QED
    BY <1>3, <2>4
<1>5. PICK i \in T : \A j \in T : i <= j
  <2>1. T \subseteq Nat
    BY <1>1
  <2> QED
    BY <1>4, <2>1, Least
<1>6. \A m \in 0..i - 1 : Candidate(base, m) \in used
  BY <1>1, <1>5
<1> DEFINE n == CHOOSE n \in 0..c : /\ Candidate(base, n) \notin used
                                    /\ \A m \in 0..n - 1 : Candidate(base, m) \in used
<1>7. n \in 0..c /\ Candidate(base, n) \notin used
  BY <1>5, <1>6
<1> QED
  BY <1>2, <1>7 DEF Unused

LEMMA BareFirst ==
    ASSUME NEW key \in Key, NEW n \in Nat
    PROVE  Before(key, With(key, n))
<1>1. /\ With(key, n).word = key.word /\ key.numbers \in Seq(Nat)
      /\ With(key, n).numbers = Append(key.numbers, n)
  BY WithNumber
<1>2. /\ Len(Append(key.numbers, n)) = Len(key.numbers) + 1 /\ Len(key.numbers) \in Nat
      /\ SubSeq(Append(key.numbers, n), 1, Len(key.numbers))
           = SubSeq(key.numbers, 1, Len(key.numbers))
  BY <1>1
<1>3. Append(key.numbers, n) # key.numbers
  BY <1>2
<1>4. IsStrictPrefix(key.numbers, Append(key.numbers, n))
  BY <1>2, <1>3 DEF IsStrictPrefix, IsPrefix
<1> QED
  BY <1>1, <1>4 DEF Before

LEMMA LowerFirst ==
    ASSUME NEW key \in Key, NEW m \in Nat, NEW n \in Nat, m < n
    PROVE  Before(With(key, m), With(key, n))
<1> DEFINE c == Len(key.numbers)
           k == With(key, m).numbers
           l == With(key, n).numbers
<1>1. /\ With(key, m).word = key.word /\ With(key, n).word = key.word
      /\ key.numbers \in Seq(Nat)
      /\ k = Append(key.numbers, m) /\ l = Append(key.numbers, n)
  BY WithNumber
<1>2. c + 1 \in DOMAIN k \cap DOMAIN l /\ k[c + 1] = m /\ l[c + 1] = n
  BY <1>1
<1>3. \A j \in 1..(c + 1) - 1 : k[j] = l[j]
  BY <1>1
<1> QED
  BY <1>1, <1>2, <1>3 DEF Before

LEMMA TellsOne ==
    ASSUME NEW a, NEW k \in Key, NEW l \in Key, Tells(a, k), Tells(a, l)
    PROVE  k = l
<1>1. CASE a.original = {}
  <2>1. /\ k.word \in Plain /\ l.word \in Plain /\ k.numbers = <<>> /\ l.numbers = <<>>
        /\ Normal[k.word] = Normal[l.word]
    BY <1>1 DEF Tells, Spelled
  <2>2. k.word = l.word
    BY <2>1, KeysAssumption
  <2> QED
    BY <2>1, <2>2 DEF Key
<1>2. CASE a.original # {}
  BY <1>2 DEF Tells
<1> QED
  BY <1>1, <1>2

-----------------------------------------------------------------------------
(* The steps *)

LEMMA InitInv == Init => IInv
<1> SUFFICES ASSUME Init PROVE IInv
  OBVIOUS
<1>1. report \in Report /\ report.keys \in Seq(Key)
  BY ReportsAssumption DEF Init, Report
<1>2. DOMAIN fields = {} /\ at = 1 /\ Len(report.keys) \in Nat
  BY <1>1 DEF Init
<1>3. Types
  BY <1>2 DEF Init, Types
<1>4. Sizes
  BY <1>2, FS_EmptySet DEF Init, Sizes
<1>5. Used /\ KeysMade /\ RepeatedFieldsKept /\ NamesUnique /\ Told
  BY <1>2 DEF Init, Used, KeysMade, RepeatedFieldsKept, NamesUnique, Told
<1> QED
  BY <1>3, <1>4, <1>5 DEF Init, IInv

\* The key a field is given is new, and later than those of the same field before it.
LEMMA NewKey ==
    ASSUME Types, Sizes, KeysMade, phase = "numbering", at <= Len(report.keys),
           NEW new, new = Numbered(report.keys[at])
    PROVE  /\ new \in Key /\ new \notin DOMAIN fields
           /\ new.word = report.keys[at].word
           /\ new = report.keys[at] \/ Front(new.numbers) = report.keys[at].numbers
           /\ Made(new, at)
           /\ \A i \in 1..at - 1, k \in DOMAIN fields :
                 report.keys[i] = report.keys[at] /\ fields[k] = <<"report", i>> =>
                     Before(k, new)
<1> DEFINE key == report.keys[at]
<1>1. key \in Key /\ (\A i \in 1..at - 1 : report.keys[i] \in Key) /\ at \in Nat
  BY ReportFacts
<1>2. /\ \A k \in DOMAIN fields : \E i \in 1..at - 1 : fields[k] = <<"report", i>>
      /\ \A i \in 1..at - 1 : \E k \in DOMAIN fields : fields[k] = <<"report", i>>
      /\ \A k \in DOMAIN fields, i \in 1..at - 1 : fields[k] = <<"report", i>> => Made(k, i)
  BY DEF KeysMade
\* A field whose key has come before finds it taken.
<1>3. \A i \in 1..at - 1 : report.keys[i] = key => key \in DOMAIN fields
  BY <1>2 DEF Made
<1>4. CASE key \notin DOMAIN fields
  <2>1. new = key
    BY <1>4 DEF Numbered
  <2>2. \A i \in 1..at - 1 : report.keys[i] # key
    BY <1>3, <1>4
  <2> QED
    BY <1>1, <1>4, <2>1, <2>2 DEF Made
<1>5. CASE key \in DOMAIN fields
  <2>1. PICK n \in Nat : /\ n >= 2
                         /\ new = With(key, n) /\ With(key, n) \notin DOMAIN fields
                         /\ \A m \in 2..n - 1 : With(key, m) \in DOMAIN fields
    BY <1>1, <1>5, FirstFree DEF Sizes
  <2>2. /\ new \in Key /\ new.word = key.word /\ Front(new.numbers) = key.numbers
    BY <1>1, <2>1, WithNumber
  <2>3. key.numbers = <<>> => \E j \in 1..at - 1 : report.keys[j] = key
    <3> SUFFICES ASSUME key.numbers = <<>>
                 PROVE  \E j \in 1..at - 1 : report.keys[j] = key
      OBVIOUS
    <3>1. PICK i \in 1..at - 1 : Made(key, i)
      BY <1>2, <1>5
    <3>2. \A m \in Nat : With(report.keys[i], m).numbers # <<>>
      BY <1>1, WithNumber
    <3> QED
      BY <3>1, <3>2 DEF Made
  <2>4. Made(new, at)
    BY <1>5, <2>1, <2>3 DEF Made
  <2>5. \A i \in 1..at - 1, k \in DOMAIN fields :
          report.keys[i] = key /\ fields[k] = <<"report", i>> => Before(k, new)
    <3> SUFFICES ASSUME NEW i \in 1..at - 1, NEW k \in DOMAIN fields,
                        report.keys[i] = key, fields[k] = <<"report", i>>
                 PROVE  Before(k, new)
      OBVIOUS
    <3>1. Made(k, i)
      BY <1>2
    <3>2. CASE k = key
      BY <1>1, <2>1, <3>2, BareFirst
    <3>3. CASE k # key
      <4>1. PICK m \in Nat : /\ m >= 2 /\ k = With(key, m)
                             /\ \A o \in 2..m - 1 : With(key, o) \in DOMAIN fields
        BY <3>1, <3>3 DEF Made
      <4>2. m # n /\ n \notin 2..m - 1
        BY <2>1, <4>1
      <4>3. m < n
        BY <2>1, <4>2
      <4> QED
        BY <1>1, <2>1, <4>1, <4>3, LowerFirst
    <3> QED
      BY <3>2, <3>3
  <2> QED
    BY <2>1, <2>2, <2>4, <2>5
<1> QED
  BY <1>4, <1>5

LEMMA KeptUnchanged ==
    ASSUME RepeatedFieldsKept, report' = report, at' = at, fields' = fields,
           phase' = "numbering" <=> phase = "numbering"
    PROVE  RepeatedFieldsKept'
<1>1. \A i \in 1..at - 1 : KeysOf(<<"report", i>>)' = KeysOf(<<"report", i>>)
  BY DEF KeysOf
<1>2. \A i \in 1..at' - 1 :
        LET keys == KeysOf(<<"report", i>>)'
            replaced == /\ phase' # "numbering"
                        /\ report'.keys[i] \in {CallID, CSeq}
                        /\ \A j \in 1..i - 1 : report'.keys[j] # report'.keys[i]
        IN Cardinality(keys) = IF replaced THEN 0 ELSE 1
  BY <1>1 DEF RepeatedFieldsKept
<1>3. \A i \in 1..at' - 1 : \A k \in KeysOf(<<"report", i>>)' :
        /\ k.word = report'.keys[i].word
        /\ k = report'.keys[i] \/ Front(k.numbers) = report'.keys[i].numbers
  BY <1>1 DEF RepeatedFieldsKept
<1>4. \A i, j \in 1..at' - 1 :
        i < j /\ report'.keys[i] = report'.keys[j] =>
            \A k \in KeysOf(<<"report", i>>)', l \in KeysOf(<<"report", j>>)' : Before(k, l)
  <2>1. \A i, j \in 1..at - 1 :
          i < j /\ report.keys[i] = report.keys[j] =>
              \A k \in KeysOf(<<"report", i>>), l \in KeysOf(<<"report", j>>) : Before(k, l)
    BY DEF RepeatedFieldsKept
  <2>2. \A i, j \in 1..at - 1 :
          i < j /\ report.keys[i] = report.keys[j] =>
              \A k \in KeysOf(<<"report", i>>)', l \in KeysOf(<<"report", j>>)' : Before(k, l)
    BY <1>1, <2>1
  <2> QED
    BY <2>2
<1> QED
  BY <1>2, <1>3, <1>4 DEF RepeatedFieldsKept

LEMMA AddFieldInv == ASSUME IInv, AddField PROVE IInv'
<1> DEFINE new == Numbered(report.keys[at])
<1>1. /\ Types /\ Sizes /\ Used /\ KeysMade /\ RepeatedFieldsKept /\ NamesUnique
      /\ phase = "numbering" /\ at <= Len(report.keys) /\ at' = at + 1
      /\ report' = report /\ phase' = phase /\ left' = left /\ used' = used
      /\ attributes' = attributes
  BY DEF IInv, AddField
<1>2. /\ new \in Key /\ new \notin DOMAIN fields
      /\ new.word = report.keys[at].word
      /\ new = report.keys[at] \/ Front(new.numbers) = report.keys[at].numbers
      /\ Made(new, at)
      /\ \A i \in 1..at - 1, k \in DOMAIN fields :
            report.keys[i] = report.keys[at] /\ fields[k] = <<"report", i>> => Before(k, new)
  <2> HIDE DEF new
  <2>1. new = Numbered(report.keys[at])
    BY DEF new
  <2> QED
    BY <1>1, <2>1, NewKey
<1>3. /\ at \in Nat /\ at \in 1..Len(report.keys) /\ Len(report.keys) \in Nat
      /\ 1..at' - 1 = 1..at /\ report.keys[at] \in Key
      /\ at \in 1..at /\ \A i : i \in 1..at <=> i = at \/ i \in 1..at - 1
  BY <1>1, ReportFacts DEF Types
<1> HIDE DEF new
<1>4. /\ DOMAIN fields' = DOMAIN fields \cup {new}
      /\ fields'[new] = <<"report", at>>
      /\ \A k \in DOMAIN fields : fields'[k] = fields[k]
  BY <1>2 DEF AddField, new
<1>5. Types'
  <2>1. <<"report", at>> \in Value
    BY <1>3 DEF Value
  <2>2. /\ attributes' \in Seq(Attribute)
        /\ \A i \in DOMAIN attributes' : attributes'[i].original \subseteq DOMAIN fields'
    BY <1>1, <1>4 DEF Types
  <2>3. at' \in 1..Len(report'.keys) + 1
    BY <1>1, <1>3
  <2>4. DOMAIN fields' \subseteq Key /\ \A k \in DOMAIN fields' : fields'[k] \in Value
    BY <1>1, <1>2, <1>4, <2>1 DEF Types
  <2> QED
    BY <1>1, <1>4, <2>2, <2>3, <2>4 DEF Types
<1>6. Sizes'
  <2>1. /\ IsFiniteSet(DOMAIN fields')
        /\ Cardinality(DOMAIN fields') = Cardinality(DOMAIN fields) + 1
        /\ Cardinality(DOMAIN fields) \in Nat
    BY <1>1, <1>2, <1>4, FS_AddElement, FS_CardinalityType DEF Sizes
  <2> QED
    BY <1>1, <1>3, <2>1 DEF Sizes
<1>7. Used' /\ NamesUnique'
  BY <1>1 DEF Used, NamesUnique
<1>8. KeysMade'
  <2>1. /\ \A k \in DOMAIN fields : \E i \in 1..at - 1 : fields[k] = <<"report", i>>
        /\ \A i \in 1..at - 1 : \E k \in DOMAIN fields : fields[k] = <<"report", i>>
        /\ \A k, l \in DOMAIN fields : fields[k] = fields[l] => k = l
        /\ \A k \in DOMAIN fields, i \in 1..at - 1 :
              fields[k] = <<"report", i>> => Made(k, i)
    BY <1>1 DEF KeysMade
  <2>2. \A k, i : Made(k, i) => Made(k, i)'
    BY <1>1, <1>4 DEF Made
  <2>3. \A k \in DOMAIN fields' : \E i \in 1..at : fields'[k] = <<"report", i>>
    <3>1. \E i \in 1..at : fields'[new] = <<"report", i>>
      BY <1>3, <1>4
    <3>2. \A k \in DOMAIN fields : \E i \in 1..at : fields'[k] = <<"report", i>>
      BY <1>3, <1>4, <2>1
    <3> QED
      BY <1>4, <3>1, <3>2
  <2>4. \A i \in 1..at : \E k \in DOMAIN fields' : fields'[k] = <<"report", i>>
    <3>1. \A i \in 1..at - 1 : \E k \in DOMAIN fields' : fields'[k] = <<"report", i>>
      BY <1>4, <2>1
    <3>2. \E k \in DOMAIN fields' : fields'[k] = <<"report", at>>
      BY <1>4
    <3> QED
      BY <1>3, <3>1, <3>2
  <2>5. \A k \in DOMAIN fields : fields[k] # <<"report", at>>
    BY <1>3, <2>1
  <2>6. \A k, l \in DOMAIN fields' : fields'[k] = fields'[l] => k = l
    BY <1>4, <2>1, <2>5
  <2>7. \A k \in DOMAIN fields', i \in 1..at' - 1 :
          fields'[k] = <<"report", i>> => Made(k, i)'
    <3> SUFFICES ASSUME NEW k \in DOMAIN fields', NEW i \in 1..at,
                        fields'[k] = <<"report", i>>
                 PROVE  Made(k, i)
      BY <1>3, <2>2
    <3>1. CASE k = new
      BY <1>2, <1>4, <3>1
    <3>2. CASE k # new
      BY <1>3, <1>4, <2>1, <2>5, <3>2
    <3> QED
      BY <3>1, <3>2
  <2> QED
    BY <1>3, <2>3, <2>4, <2>6, <2>7 DEF KeysMade
<1>9. RepeatedFieldsKept'
  <2>1. \A k \in DOMAIN fields : fields[k] # <<"report", at>>
    BY <1>1, <1>3 DEF KeysMade
  <2>2. {k \in DOMAIN fields' : fields'[k] = <<"report", at>>} = {new}
    BY <1>4, <2>1
  <2>3. \A i \in 1..at - 1 : {k \in DOMAIN fields' : fields'[k] = <<"report", i>>}
                               = KeysOf(<<"report", i>>)
    BY <1>3, <1>4 DEF KeysOf
  <2>4. \A i \in 1..at - 1 :
          LET keys == KeysOf(<<"report", i>>) IN
          /\ Cardinality(keys) = 1
          /\ \A k \in keys :
                /\ k.word = report.keys[i].word
                /\ k = report.keys[i] \/ Front(k.numbers) = report.keys[i].numbers
    BY <1>1 DEF RepeatedFieldsKept
  <2>5. \A i \in 1..at :
          LET keys == {k \in DOMAIN fields' : fields'[k] = <<"report", i>>} IN
          /\ Cardinality(keys) = 1
          /\ \A k \in keys :
                /\ k.word = report.keys[i].word
                /\ k = report.keys[i] \/ Front(k.numbers) = report.keys[i].numbers
    <3> SUFFICES ASSUME NEW i \in 1..at
                 PROVE  LET keys == {k \in DOMAIN fields' : fields'[k] = <<"report", i>>} IN
                        /\ Cardinality(keys) = 1
                        /\ \A k \in keys :
                              /\ k.word = report.keys[i].word
                              /\ \/ k = report.keys[i]
                                 \/ Front(k.numbers) = report.keys[i].numbers
      OBVIOUS
    <3>1. CASE i = at
      BY <1>2, <2>2, <3>1, FS_Singleton
    <3>2. CASE i # at
      <4>1. i \in 1..at - 1
        BY <1>3, <3>2
      <4> QED
        BY <2>3, <2>4, <4>1
    <3> QED
      BY <3>1, <3>2
  <2>6. \A i, j \in 1..at :
          i < j /\ report.keys[i] = report.keys[j] =>
              \A k \in {m \in DOMAIN fields' : fields'[m] = <<"report", i>>},
                 l \in {m \in DOMAIN fields' : fields'[m] = <<"report", j>>} : Before(k, l)
    <3> SUFFICES ASSUME NEW i \in 1..at, NEW j \in 1..at, i < j,
                        report.keys[i] = report.keys[j],
                        NEW k \in {m \in DOMAIN fields' : fields'[m] = <<"report", i>>},
                        NEW l \in {m \in DOMAIN fields' : fields'[m] = <<"report", j>>}
                 PROVE  Before(k, l)
      OBVIOUS
    <3>1. i \in 1..at - 1
      BY <1>3
    <3>2. k \in KeysOf(<<"report", i>>) /\ k \in DOMAIN fields /\ fields[k] = <<"report", i>>
      BY <2>3, <3>1 DEF KeysOf
    <3>3. CASE j = at
      <4>1. l = new
        BY <2>2, <3>3
      <4>2. report.keys[i] = report.keys[at]
        BY <3>3
      <4> QED
        BY <1>2, <3>1, <3>2, <4>1, <4>2
    <3>4. CASE j # at
      <4>1. j \in 1..at - 1
        BY <1>3, <3>4
      <4>2. l \in KeysOf(<<"report", j>>)
        BY <2>3, <4>1
      <4> QED
        BY <1>1, <3>1, <3>2, <4>1, <4>2 DEF RepeatedFieldsKept
    <3> QED
      BY <3>3, <3>4
  <2>7. \A i \in 1..at : KeysOf(<<"report", i>>)'
                           = {k \in DOMAIN fields' : fields'[k] = <<"report", i>>}
    BY DEF KeysOf
  <2>8. \A i \in 1..at' - 1 :
          /\ Cardinality(KeysOf(<<"report", i>>)') = 1
          /\ \A k \in KeysOf(<<"report", i>>)' :
                /\ k.word = report'.keys[i].word
                /\ k = report'.keys[i] \/ Front(k.numbers) = report'.keys[i].numbers
    <3>1. \A i \in 1..at :
            /\ Cardinality(KeysOf(<<"report", i>>)') = 1
            /\ \A k \in KeysOf(<<"report", i>>)' :
                  /\ k.word = report.keys[i].word
                  /\ k = report.keys[i] \/ Front(k.numbers) = report.keys[i].numbers
      BY <2>5, <2>7
    <3> QED
      BY <1>1, <1>3, <3>1
  <2>9. \A i, j \in 1..at' - 1 :
          i < j /\ report'.keys[i] = report'.keys[j] =>
              \A k \in KeysOf(<<"report", i>>)', l \in KeysOf(<<"report", j>>)' : Before(k, l)
    <3>1. \A i, j \in 1..at :
            i < j /\ report.keys[i] = report.keys[j] =>
                \A k \in KeysOf(<<"report", i>>)', l \in KeysOf(<<"report", j>>)' : Before(k, l)
      BY <2>6, <2>7
    <3> QED
      BY <1>1, <1>3, <3>1
  <2>10. phase' = "numbering"
    BY <1>1
  <2> QED
    BY <2>8, <2>9, <2>10 DEF RepeatedFieldsKept
<1>10. Told' /\ (phase' = "emitted" => left' = {})
  BY <1>1 DEF Told
<1> QED
  BY <1>5, <1>6, <1>7, <1>8, <1>9, <1>10 DEF IInv

LEMMA AddPublishInv == ASSUME IInv, AddPublish PROVE IInv'
<1>1. /\ Types /\ Sizes /\ Used /\ KeysMade /\ RepeatedFieldsKept /\ NamesUnique
      /\ phase = "numbering" /\ phase' = "recording" /\ at > Len(report.keys) /\ at' = at
      /\ report' = report /\ left' = left /\ used' = used /\ attributes' = attributes
  BY DEF IInv, AddPublish
<1>2. /\ at \in Nat /\ Len(report.keys) \in Nat /\ at = Len(report.keys) + 1
      /\ \A i \in 1..at - 1 : report.keys[i] \in Key
  BY <1>1, ReportFacts DEF Types
<1>3. /\ DOMAIN fields' = DOMAIN fields \cup {CallID, CSeq}
      /\ fields'[CallID] = <<"publish", "Call-ID">>
      /\ fields'[CSeq] = <<"publish", "CSeq">>
      /\ \A k \in DOMAIN fields \ {CallID, CSeq} : fields'[k] = fields[k]
  BY PublishKeys DEF AddPublish
<1>4. Types'
  <2>1. <<"publish", "Call-ID">> \in Value /\ <<"publish", "CSeq">> \in Value
    BY DEF Value
  <2>2. DOMAIN fields' \subseteq Key /\ \A k \in DOMAIN fields' : fields'[k] \in Value
    BY <1>1, <1>3, <2>1, PublishKeys DEF Types
  <2>3. /\ attributes' \in Seq(Attribute)
        /\ \A i \in DOMAIN attributes' : attributes'[i].original \subseteq DOMAIN fields'
    BY <1>1, <1>3 DEF Types
  <2> QED
    BY <1>1, <1>3, <2>2, <2>3 DEF Types
<1>5. Sizes'
  <2>0. IsFiniteSet(DOMAIN fields)
    BY <1>1 DEF Sizes
  <2>1. /\ IsFiniteSet(DOMAIN fields \cup {CallID})
        /\ Cardinality(DOMAIN fields \cup {CallID}) <= Cardinality(DOMAIN fields) + 1
        /\ Cardinality(DOMAIN fields) \in Nat
        /\ Cardinality(DOMAIN fields \cup {CallID}) \in Nat
    <3>1. /\ IsFiniteSet(DOMAIN fields \cup {CallID})
          /\ Cardinality(DOMAIN fields \cup {CallID}) =
               IF CallID \in DOMAIN fields THEN Cardinality(DOMAIN fields)
               ELSE Cardinality(DOMAIN fields) + 1
      BY <2>0, FS_AddElement
    <3> QED
      BY <2>0, <3>1, FS_CardinalityType
  <2>2. DOMAIN fields' = (DOMAIN fields \cup {CallID}) \cup {CSeq}
    BY <1>3
  <2>3. /\ IsFiniteSet(DOMAIN fields')
        /\ Cardinality(DOMAIN fields') <= Cardinality(DOMAIN fields \cup {CallID}) + 1
        /\ Cardinality(DOMAIN fields') \in Nat
    <3> DEFINE S == DOMAIN fields \cup {CallID}
    <3>1. IsFiniteSet(S) /\ Cardinality(S) \in Nat /\ DOMAIN fields' = S \cup {CSeq}
      BY <2>1, <2>2
    <3> HIDE DEF S
    <3>2. /\ IsFiniteSet(S \cup {CSeq})
          /\ Cardinality(S \cup {CSeq}) =
               IF CSeq \in S THEN Cardinality(S) ELSE Cardinality(S) + 1
      BY <3>1, FS_AddElement
    <3>3. IsFiniteSet(DOMAIN fields') /\ Cardinality(DOMAIN fields') \in Nat
          /\ Cardinality(DOMAIN fields') <= Cardinality(S) + 1
      BY <3>1, <3>2, FS_CardinalityType
    <3> QED
      BY <3>3 DEF S
  <2> QED
    BY <1>1, <1>2, <2>1, <2>3 DEF Sizes
<1>6. Used' /\ NamesUnique' /\ KeysMade' /\ Told' /\ (phase' = "emitted" => left' = {})
  BY <1>1 DEF Used, NamesUnique, KeysMade, Told
\* Only the first of the fields called so is replaced.
<1>7. RepeatedFieldsKept'
  <2> DEFINE Replaced(i) == /\ report.keys[i] \in {CallID, CSeq}
                            /\ \A j \in 1..i - 1 : report.keys[j] # report.keys[i]
  <2>1. \A i \in 1..at - 1 : \A k \in DOMAIN fields :
          fields[k] = <<"report", i>> => (k \in {CallID, CSeq} <=> Replaced(i))
    <3> SUFFICES ASSUME NEW i \in 1..at - 1, NEW k \in DOMAIN fields,
                        fields[k] = <<"report", i>>
                 PROVE  k \in {CallID, CSeq} <=> Replaced(i)
      OBVIOUS
    <3>1. Made(k, i)
      BY <1>1 DEF KeysMade
    <3>2. CASE k = report.keys[i] /\ \A j \in 1..i - 1 : report.keys[j] # report.keys[i]
      BY <3>2
    <3>3. CASE /\ \E n \in Nat : k = With(report.keys[i], n)
               /\ report.keys[i].numbers = <<>> =>
                     \E j \in 1..i - 1 : report.keys[j] = report.keys[i]
      <4>1. k.numbers # <<>>
        BY <1>2, <3>3, WithNumber
      <4> QED
        BY <3>3, <4>1, PublishKeys
    <3> QED
      BY <3>1, <3>2, <3>3 DEF Made
  <2>2. \A i \in 1..at - 1 : {k \in DOMAIN fields' : fields'[k] = <<"report", i>>}
                               = KeysOf(<<"report", i>>) \ {CallID, CSeq}
    BY <1>3 DEF KeysOf
  <2>3. \A i \in 1..at - 1 : Cardinality(KeysOf(<<"report", i>>) \ {CallID, CSeq})
                                = IF Replaced(i) THEN 0 ELSE 1
    <3> SUFFICES ASSUME NEW i \in 1..at - 1
                 PROVE  Cardinality(KeysOf(<<"report", i>>) \ {CallID, CSeq})
                          = IF Replaced(i) THEN 0 ELSE 1
      OBVIOUS
    <3>1. PICK k \in DOMAIN fields : fields[k] = <<"report", i>>
      BY <1>1 DEF KeysMade
    <3>2. KeysOf(<<"report", i>>) = {k}
      BY <1>1, <3>1 DEF KeysMade, KeysOf
    <3>3. CASE Replaced(i)
      <4>1. KeysOf(<<"report", i>>) \ {CallID, CSeq} = {}
        BY <2>1, <3>1, <3>2, <3>3
      <4> QED
        BY <3>3, <4>1, FS_EmptySet
    <3>4. CASE ~Replaced(i)
      <4>1. KeysOf(<<"report", i>>) \ {CallID, CSeq} = {k}
        BY <2>1, <3>1, <3>2, <3>4
      <4> QED
        BY <3>4, <4>1, FS_Singleton
    <3> QED
      BY <3>3, <3>4
  <2>4. \A i \in 1..at - 1 :
          LET keys == {k \in DOMAIN fields' : fields'[k] = <<"report", i>>} IN
          /\ Cardinality(keys) = IF Replaced(i) THEN 0 ELSE 1
          /\ \A k \in keys :
                /\ k.word = report.keys[i].word
                /\ k = report.keys[i] \/ Front(k.numbers) = report.keys[i].numbers
    BY <1>1, <2>2, <2>3 DEF RepeatedFieldsKept
  <2>5. \A i, j \in 1..at - 1 :
          i < j /\ report.keys[i] = report.keys[j] =>
              \A k \in {m \in DOMAIN fields' : fields'[m] = <<"report", i>>},
                 l \in {m \in DOMAIN fields' : fields'[m] = <<"report", j>>} : Before(k, l)
    BY <1>1, <2>2 DEF RepeatedFieldsKept
  <2>6. \A i \in 1..at - 1 : KeysOf(<<"report", i>>)'
                               = {k \in DOMAIN fields' : fields'[k] = <<"report", i>>}
    BY DEF KeysOf
  <2>7. \A i \in 1..at' - 1 :
          /\ Cardinality(KeysOf(<<"report", i>>)') = IF Replaced(i) THEN 0 ELSE 1
          /\ \A k \in KeysOf(<<"report", i>>)' :
                /\ k.word = report'.keys[i].word
                /\ k = report'.keys[i] \/ Front(k.numbers) = report'.keys[i].numbers
    BY <1>1, <2>4, <2>6
  <2>8. \A i, j \in 1..at' - 1 :
          i < j /\ report'.keys[i] = report'.keys[j] =>
              \A k \in KeysOf(<<"report", i>>)', l \in KeysOf(<<"report", j>>)' : Before(k, l)
    <3>1. \A i, j \in 1..at - 1 :
            i < j /\ report.keys[i] = report.keys[j] =>
                \A k \in KeysOf(<<"report", i>>)', l \in KeysOf(<<"report", j>>)' : Before(k, l)
      BY <2>5, <2>6
    <3> QED
      BY <1>1, <3>1
  <2>9. \A i : Replaced(i) <=> /\ phase' # "numbering"
                              /\ report'.keys[i] \in {CallID, CSeq}
                              /\ \A j \in 1..i - 1 : report'.keys[j] # report'.keys[i]
    BY <1>1
  <2> HIDE DEF Replaced
  <2> QED
    BY <2>7, <2>8, <2>9 DEF RepeatedFieldsKept
<1> QED
  BY <1>4, <1>5, <1>6, <1>7 DEF IInv

\* Recording touches nothing of the rest.
LEMMA RecordMetricInv == ASSUME IInv, RecordMetric PROVE IInv'
<1>1. /\ Types /\ Sizes /\ Used /\ KeysMade /\ RepeatedFieldsKept /\ NamesUnique /\ Told
      /\ phase = "recording" /\ phase' = phase /\ left' = left
      /\ at' = at /\ report' = report /\ fields' = fields
      /\ used' = used /\ attributes' = attributes
  BY DEF IInv, RecordMetric
<1>2. Types' /\ Sizes' /\ Used' /\ NamesUnique' /\ KeysMade' /\ Told'
  BY <1>1 DEF Types, Sizes, Used, NamesUnique, KeysMade, Told
<1>3. RepeatedFieldsKept'
  BY <1>1, KeptUnchanged
<1> QED
  BY <1>1, <1>2, <1>3 DEF IInv

LEMMA MetricsRecordedInv == ASSUME IInv, MetricsRecorded PROVE IInv'
<1>1. /\ Types /\ Sizes /\ Used /\ KeysMade /\ RepeatedFieldsKept /\ NamesUnique
      /\ phase = "recording" /\ phase' = "naming" /\ left' = DOMAIN fields /\ at' = at
      /\ report' = report /\ fields' = fields /\ used' = used /\ attributes' = attributes
  BY DEF IInv, MetricsRecorded
<1>2. Types'
  BY <1>1 DEF Types
<1>3. Sizes'
  BY <1>1, FS_EmptySet, FS_CardinalityType DEF Sizes
<1>4. Used' /\ NamesUnique' /\ KeysMade'
  BY <1>1 DEF Used, NamesUnique, KeysMade
<1>5. RepeatedFieldsKept'
  BY <1>1, KeptUnchanged
<1>6. Told'
  BY <1>1 DEF Told, Sizes
<1> QED
  BY <1>1, <1>2, <1>3, <1>4, <1>5, <1>6 DEF IInv

LEMMA SkipSecretInv == ASSUME IInv, NEW k \in left, SkipSecret(k) PROVE IInv'
<1>1. /\ Types /\ Sizes /\ Used /\ KeysMade /\ RepeatedFieldsKept /\ NamesUnique /\ Told
      /\ phase = "naming" /\ secretField(k) /\ left' = left \ {k}
      /\ phase' = phase /\ at' = at /\ report' = report /\ fields' = fields
      /\ used' = used /\ attributes' = attributes
  BY DEF IInv, SkipSecret
<1>2. Types'
  BY <1>1 DEF Types
<1>3. IsFiniteSet(left)
  BY <1>1, FS_Subset DEF Types, Sizes
<1>4. Sizes'
  <2>1. Cardinality(left \ {k}) = Cardinality(left) - 1 /\ Cardinality(left) \in Nat
    BY <1>3, FS_RemoveElement, FS_CardinalityType
  <2>2. Cardinality(used) \in Nat
    BY <1>1, FS_CardinalityType DEF Sizes
  <2>3. Len(report.keys) \in Nat
    BY <1>1, ReportFacts
  <2> QED
    BY <1>1, <2>1, <2>2, <2>3 DEF Sizes
<1>5. Used' /\ NamesUnique' /\ KeysMade'
  BY <1>1 DEF Used, NamesUnique, KeysMade
<1>6. RepeatedFieldsKept'
  BY <1>1, KeptUnchanged
<1>7. Told'
  <2>1. DOMAIN fields \ left \subseteq DOMAIN fields' \ left'
    BY <1>1
  <2>2. \A l \in DOMAIN fields' \ left' : l = k \/ l \in DOMAIN fields \ left
    BY <1>1
  <2>3. \A i \in DOMAIN attributes : \E l \in DOMAIN fields \ left :
           /\ ~secretField(l) /\ Tells(attributes[i], l)
           /\ attributes[i].value = fields[l]
    BY <1>1 DEF Told
  <2>4. \A l \in DOMAIN fields \ left :
           ~secretField(l) => \E i \in DOMAIN attributes : Tells(attributes[i], l)
    BY <1>1 DEF Told
  <2>5. \A i, j \in DOMAIN attributes, l \in DOMAIN fields :
           Tells(attributes[i], l) /\ Tells(attributes[j], l) => i = j
    BY <1>1 DEF Told
  <2> QED
    BY <1>1, <2>1, <2>2, <2>3, <2>4, <2>5 DEF Told, Tells
<1> QED
  BY <1>1, <1>2, <1>4, <1>5, <1>6, <1>7 DEF IInv

LEMMA NameInv == ASSUME IInv, NEW k \in left, Name(k) PROVE IInv'
<1> DEFINE normalized == Unused(normalizeFieldKey(k))
           new == [name |-> normalized, value |-> fields[k],
                   original |-> IF Spelled(k, normalized) THEN {} ELSE {k}]
<1>1. /\ Types /\ Sizes /\ Used /\ KeysMade /\ RepeatedFieldsKept /\ NamesUnique /\ Told
      /\ phase = "naming" /\ ~secretField(k) /\ left' = left \ {k}
      /\ phase' = phase /\ at' = at /\ report' = report /\ fields' = fields
      /\ used' = used \cup {normalized} /\ attributes' = Append(attributes, new)
  BY DEF IInv, Name
<1>2. /\ k \in Key /\ k \in DOMAIN fields /\ fields[k] \in Value
      /\ attributes \in Seq(Attribute) /\ Len(report.keys) + 2 <= Len(Xs)
      /\ Len(report.keys) \in Nat /\ Len(Xs) \in Nat
  BY <1>1, ReportFacts DEF Types
<1>3. IsFiniteSet(left) /\ IsFiniteSet(used)
  BY <1>1, FS_Subset DEF Types, Sizes
<1>4. /\ Cardinality(left \ {k}) = Cardinality(left) - 1 /\ Cardinality(left) \in Nat
      /\ Cardinality(used) \in Nat /\ Cardinality(used) + Cardinality(left) <= Len(report.keys) + 2
  BY <1>1, <1>3, FS_RemoveElement, FS_CardinalityType DEF Sizes
<1>5. normalized \notin used /\ normalized \in Seq(Part)
  <2>1. normalizeFieldKey(k) \in Seq(Part)
    BY <1>2, NamesOfParts
  <2>2. Cardinality(used) <= Len(Xs)
    BY <1>2, <1>4
  <2> QED
    BY <1>3, <2>1, <2>2, UnusedIsNew
<1> HIDE DEF normalized
<1>6. /\ new.name = normalized /\ new.value = fields[k]
      /\ new.original = (IF Spelled(k, normalized) THEN {} ELSE {k})
  OBVIOUS
<1>7. new \in Attribute /\ new.original \subseteq {k} /\ Tells(new, k)
  <2>1. new.original \subseteq {k}
    BY <1>6
  <2>2. new \in Attribute
    BY <1>2, <1>5, <2>1 DEF Attribute
  <2>3. Tells(new, k)
    BY <1>6 DEF Tells
  <2> QED
    BY <2>1, <2>2, <2>3
<1> HIDE DEF new
<1>8. /\ attributes' \in Seq(Attribute) /\ Len(attributes) \in Nat
      /\ DOMAIN attributes = 1..Len(attributes)
      /\ DOMAIN attributes' = 1..Len(attributes) + 1
      /\ attributes'[Len(attributes) + 1] = new
      /\ \A i \in DOMAIN attributes : attributes'[i] = attributes[i]
      /\ \A i : i \in DOMAIN attributes' <=> i = Len(attributes) + 1 \/ i \in DOMAIN attributes
      /\ Len(attributes) + 1 \notin DOMAIN attributes
  BY <1>1, <1>2, <1>7
<1>9. Types'
  <2>1. \A i \in DOMAIN attributes' : attributes'[i].original \subseteq DOMAIN fields'
    BY <1>1, <1>2, <1>7, <1>8 DEF Types
  <2> QED
    BY <1>1, <1>8, <2>1 DEF Types
<1>10. Sizes'
  <2>1. IsFiniteSet(used') /\ Cardinality(used') = Cardinality(used) + 1
    BY <1>1, <1>3, <1>5, FS_AddElement
  <2> QED
    BY <1>1, <1>2, <1>4, <2>1 DEF Sizes
<1>11. Used'
  <2>1. used = {attributes[i].name : i \in DOMAIN attributes}
    BY <1>1 DEF Used
  <2>2. {attributes'[i].name : i \in DOMAIN attributes'} = used \cup {normalized}
    BY <1>6, <1>8, <2>1
  <2> QED
    BY <1>1, <2>2 DEF Used
<1>12. NamesUnique'
  <2>1. \A i \in DOMAIN attributes : attributes[i].name # normalized
    BY <1>1, <1>5 DEF Used
  <2> QED
    BY <1>1, <1>6, <1>8, <2>1 DEF NamesUnique
<1>13. KeysMade'
  BY <1>1 DEF KeysMade
<1>14. RepeatedFieldsKept'
  BY <1>1, KeptUnchanged
<1>15. Told'
  <2>1. \A i \in DOMAIN attributes : \E l \in DOMAIN fields \ left :
           /\ ~secretField(l) /\ Tells(attributes[i], l)
           /\ attributes[i].value = fields[l]
    BY <1>1 DEF Told
  <2>2. \A l \in DOMAIN fields \ left :
           ~secretField(l) => \E i \in DOMAIN attributes : Tells(attributes[i], l)
    BY <1>1 DEF Told
  <2>3. \A i, j \in DOMAIN attributes, l \in DOMAIN fields :
           Tells(attributes[i], l) /\ Tells(attributes[j], l) => i = j
    BY <1>1 DEF Told
  <2>4. DOMAIN fields \subseteq Key
    BY <1>1 DEF Types
  \* No attribute told this key, nor does the new one tell another.
  <2>5. \A i \in DOMAIN attributes : ~Tells(attributes[i], k)
    BY <1>2, <2>1, <2>4, TellsOne
  <2>6. \A l \in DOMAIN fields : Tells(new, l) => l = k
    BY <1>2, <1>7, <2>4, TellsOne
  <2>7. \A i \in DOMAIN attributes' : \E l \in DOMAIN fields \ (left \ {k}) :
           /\ ~secretField(l) /\ Tells(attributes'[i], l)
           /\ attributes'[i].value = fields[l]
    BY <1>1, <1>2, <1>6, <1>7, <1>8, <2>1
  <2>8. \A l \in DOMAIN fields \ (left \ {k}) :
           ~secretField(l) => \E i \in DOMAIN attributes' : Tells(attributes'[i], l)
    <3>1. \E i \in DOMAIN attributes' : Tells(attributes'[i], k)
      BY <1>7, <1>8
    <3>2. \A l \in DOMAIN fields \ left :
            ~secretField(l) => \E i \in DOMAIN attributes' : Tells(attributes'[i], l)
      BY <1>8, <2>2
    <3> QED
      BY <3>1, <3>2
  <2>9. \A i, j \in DOMAIN attributes', l \in DOMAIN fields :
           Tells(attributes'[i], l) /\ Tells(attributes'[j], l) => i = j
    BY <1>8, <2>3, <2>5, <2>6
  <2>10. DOMAIN fields' = DOMAIN fields /\ left' = left \ {k} /\ fields' = fields
    BY <1>1
  <2>11. \A i \in DOMAIN attributes' : \E l \in DOMAIN fields' \ left' :
           /\ ~secretField(l) /\ Tells(attributes'[i], l)
           /\ attributes'[i].value = fields'[l]
    BY <2>7, <2>10
  <2>12. \A l \in DOMAIN fields' \ left' :
           ~secretField(l) => \E i \in DOMAIN attributes' : Tells(attributes'[i], l)
    BY <2>8, <2>10
  <2> QED
    BY <2>9, <2>10, <2>11, <2>12 DEF Told
<1> QED
  BY <1>1, <1>9, <1>10, <1>11, <1>12, <1>13, <1>14, <1>15 DEF IInv

LEMMA EmitInv == ASSUME IInv, Emit PROVE IInv'
<1>1. /\ Types /\ Sizes /\ Used /\ KeysMade /\ RepeatedFieldsKept /\ NamesUnique /\ Told
      /\ phase = "naming" /\ phase' = "emitted" /\ left = {} /\ left' = left
      /\ at' = at /\ report' = report /\ fields' = fields
      /\ used' = used /\ attributes' = attributes
  BY DEF IInv, Emit
<1>2. Types' /\ Sizes' /\ Used' /\ NamesUnique' /\ KeysMade'
  BY <1>1 DEF Types, Sizes, Used, NamesUnique, KeysMade
<1>3. RepeatedFieldsKept'
  BY <1>1, KeptUnchanged
<1>4. Told'
  BY <1>1 DEF Told, Tells
<1> QED
  BY <1>1, <1>2, <1>3, <1>4 DEF IInv

LEMMA StutterInv == ASSUME IInv, UNCHANGED vars PROVE IInv'
<1>1. /\ Types /\ Sizes /\ Used /\ KeysMade /\ RepeatedFieldsKept /\ NamesUnique /\ Told
      /\ phase = "emitted" => left = {}
      /\ phase' = phase /\ left' = left
      /\ at' = at /\ report' = report /\ fields' = fields
      /\ used' = used /\ attributes' = attributes
  BY DEF IInv, vars
<1>2. Types' /\ Sizes' /\ Used' /\ NamesUnique'
  BY <1>1 DEF Types, Sizes, Used, NamesUnique
<1>3. KeysMade'
  BY <1>1 DEF KeysMade, Made
<1>4. RepeatedFieldsKept'
  BY <1>1, KeptUnchanged
<1>5. Told'
  BY <1>1 DEF Told, Tells
<1> QED
  BY <1>1, <1>2, <1>3, <1>4, <1>5 DEF IInv

-----------------------------------------------------------------------------
(* What is observed *)

\* The measurement the nth call records, and the observation it makes of a side's.
Source(n) == SourceOf(Calls[n].field)
Observation(n, side) ==
    [histogram |-> Calls[n].histogram, side |-> side, kind |-> Calls[n].kind,
     value |-> <<side, Source(n)>>, per |-> Calls[n].per]
Observations == {Observation(n, side) : n \in 1..Len(Calls), side \in Sides}

\* Of the calls and sides in D, s holds what was measured, each once.
Observes(s, D, measured) ==
    /\ s \in Seq(Observations)
    /\ \A i \in DOMAIN s : \E d \in D :
          <<d[2], Source(d[1])>> \in measured /\ s[i] = Observation(d[1], d[2])
    /\ \A d \in D : <<d[2], Source(d[1])>> \in measured =>
          \E i \in DOMAIN s : s[i] = Observation(d[1], d[2])
    /\ \A i, j \in DOMAIN s : s[i].value = s[j].value => i = j

AllOf(n) == (1..n) \X Sides

Observing ==
    /\ recorded \in 0..Len(Calls)
    /\ phase = "numbering" => recorded = 0
    /\ phase \in {"naming", "emitted"} => recorded = Len(Calls)
    /\ Observes(observed, AllOf(recorded), report.measured)

LEMMA CallsLength == Len(Calls) = 10
  BY DEF Calls

\* No measurement is recorded by two calls.
LEMMA SourcesDiffer ==
    ASSUME NEW m \in 1..Len(Calls), NEW n \in 1..Len(Calls), Source(m) = Source(n)
    PROVE  m = n
<1> DEFINE Place(source) ==
               CASE source = "MOSLQ" -> 1 [] source = "MOSCQ" -> 2
                 [] source = "RLQ" -> 3 [] source = "RCQ" -> 4
                 [] source = "PacketLoss" -> 5 [] source = "DiscardRate" -> 6
                 [] source = "RoundTripDelay" -> 7 [] source = "OneWayDelay" -> 8
                 [] source = "IAJ" -> 9 [] source = "MAJ" -> 10
<1>1. \A k \in 1..10 : k \in {1, 2, 3, 4, 5, 6, 7, 8, 9, 10}
  OBVIOUS
<1>2. \A k \in {1, 2, 3, 4, 5, 6, 7, 8, 9, 10} : Place(Source(k)) = k
  <2>1. Place(Source(1)) = 1
    <3>1. Source(1) = "MOSLQ"
      BY DEF Source, SourceOf, Calls, Call
    <3> QED
      BY <3>1
  <2>2. Place(Source(2)) = 2
    <3>1. Source(2) = "MOSCQ"
      BY DEF Source, SourceOf, Calls, Call
    <3> QED
      BY <3>1
  <2>3. Place(Source(3)) = 3
    <3>1. Source(3) = "RLQ"
      BY DEF Source, SourceOf, Calls, Call
    <3> QED
      BY <3>1
  <2>4. Place(Source(4)) = 4
    <3>1. Source(4) = "RCQ"
      BY DEF Source, SourceOf, Calls, Call
    <3> QED
      BY <3>1
  <2>5. Place(Source(5)) = 5
    <3>1. Source(5) = "PacketLoss"
      BY DEF Source, SourceOf, Calls, Call
    <3> QED
      BY <3>1
  <2>6. Place(Source(6)) = 6
    <3>1. Source(6) = "DiscardRate"
      BY DEF Source, SourceOf, Calls, Call
    <3> QED
      BY <3>1
  <2>7. Place(Source(7)) = 7
    <3>1. Source(7) = "RoundTripDelay"
      BY DEF Source, SourceOf, Calls, Call
    <3> QED
      BY <3>1
  <2>8. Place(Source(8)) = 8
    <3>1. Source(8) = "OneWayDelay"
      BY DEF Source, SourceOf, Calls, Call
    <3> QED
      BY <3>1
  <2>9. Place(Source(9)) = 9
    <3>1. Source(9) = "IAJ"
      BY DEF Source, SourceOf, Calls, Call
    <3> QED
      BY <3>1
  <2>10. Place(Source(10)) = 10
    <3>1. Source(10) = "MAJ"
      BY DEF Source, SourceOf, Calls, Call
    <3> QED
      BY <3>1
  <2> HIDE DEF Place
  <2> QED
    BY <2>1, <2>2, <2>3, <2>4, <2>5, <2>6, <2>7, <2>8, <2>9, <2>10
<1> HIDE DEF Place
<1>3. Place(Source(m)) = m /\ Place(Source(n)) = n
  BY <1>1, <1>2, CallsLength
<1> QED
  BY <1>3

\* One call for one side: what it records is new, and is recorded once.
LEMMA RecordedOnce ==
    ASSUME NEW s, NEW D, D \subseteq (1..Len(Calls)) \X Sides,
           Observes(s, D, report.measured),
           NEW n \in 1..Len(Calls), NEW side \in Sides, <<n, side>> \notin D
    PROVE  Observes(s \o Recorded(Calls[n], side), D \cup {<<n, side>>}, report.measured)
<1> DEFINE value == <<side, Source(n)>>
           o == Observation(n, side)
<1>1. Recorded(Calls[n], side) = IF value \in report.measured THEN <<o>> ELSE <<>>
  BY DEF Recorded, Observation, Source
<1>2. /\ s \in Seq(Observations) /\ Len(s) \in Nat /\ DOMAIN s = 1..Len(s)
      /\ \A i \in DOMAIN s : \E d \in D :
            <<d[2], Source(d[1])>> \in report.measured /\ s[i] = Observation(d[1], d[2])
      /\ \A d \in D : <<d[2], Source(d[1])>> \in report.measured =>
            \E i \in DOMAIN s : s[i] = Observation(d[1], d[2])
      /\ \A i, j \in DOMAIN s : s[i].value = s[j].value => i = j
  BY DEF Observes
<1>3. CASE value \notin report.measured
  <2>1. s \o Recorded(Calls[n], side) = s
    BY <1>1, <1>2, <1>3
  <2>2. \A d \in D \cup {<<n, side>>} : <<d[2], Source(d[1])>> \in report.measured => d \in D
    BY <1>3
  <2>3. \A i \in DOMAIN s : \E d \in D \cup {<<n, side>>} :
            <<d[2], Source(d[1])>> \in report.measured /\ s[i] = Observation(d[1], d[2])
    BY <1>2
  <2>4. \A d \in D \cup {<<n, side>>} : <<d[2], Source(d[1])>> \in report.measured =>
            \E i \in DOMAIN s : s[i] = Observation(d[1], d[2])
    BY <1>2, <2>2
  <2> HIDE DEF o
  <2> QED
    BY <1>2, <2>1, <2>3, <2>4 DEF Observes
<1>4. CASE value \in report.measured
  <2> DEFINE t == s \o <<o>>
  <2>1. s \o Recorded(Calls[n], side) = t
    BY <1>1, <1>4
  <2>2. o \in Observations /\ o.value = value
    BY DEF Observations, Observation
  <2> HIDE DEF o
  <2>3. /\ t \in Seq(Observations) /\ DOMAIN t = 1..Len(s) + 1 /\ t[Len(s) + 1] = o
        /\ \A i \in 1..Len(s) : t[i] = s[i]
    BY <1>2, <2>2
  <2> HIDE DEF t
  \* No other call observes this value.
  <2>4. \A i \in 1..Len(s) : s[i].value # value
    <3> SUFFICES ASSUME NEW i \in 1..Len(s), s[i].value = value PROVE FALSE
      OBVIOUS
    <3>1. PICK d \in D : s[i] = Observation(d[1], d[2])
      BY <1>2
    <3>2. PICK k \in 1..Len(Calls), l \in Sides : d = <<k, l>>
      OBVIOUS
    <3>3. s[i].value = <<l, Source(k)>>
      BY <3>1, <3>2 DEF Observation
    <3>4. l = side /\ Source(k) = Source(n)
      BY <3>3
    <3> QED
      BY <3>2, <3>4, SourcesDiffer
  <2>5. \A i \in DOMAIN t : \E d \in D \cup {<<n, side>>} :
            <<d[2], Source(d[1])>> \in report.measured /\ t[i] = Observation(d[1], d[2])
    <3>1. \A i \in 1..Len(s) : \E d \in D :
            <<d[2], Source(d[1])>> \in report.measured /\ t[i] = Observation(d[1], d[2])
      <4> SUFFICES ASSUME NEW i \in 1..Len(s)
                   PROVE  \E d \in D : <<d[2], Source(d[1])>> \in report.measured
                                        /\ t[i] = Observation(d[1], d[2])
        OBVIOUS
      <4>1. i \in DOMAIN s /\ t[i] = s[i]
        BY <1>2, <2>3
      <4> QED
        BY <1>2, <4>1
    <3>2. <<n, side>>[1] = n /\ <<n, side>>[2] = side /\ t[Len(s) + 1] = Observation(n, side)
      BY <2>3 DEF o
    <3>3. \A i \in DOMAIN t : i \in 1..Len(s) \/ i = Len(s) + 1
      BY <1>2, <2>3
    <3> QED
      BY <1>4, <3>1, <3>2, <3>3
  <2>6. \A d \in D \cup {<<n, side>>} : <<d[2], Source(d[1])>> \in report.measured =>
            \E i \in DOMAIN t : t[i] = Observation(d[1], d[2])
    <3> SUFFICES ASSUME NEW d \in D \cup {<<n, side>>},
                        <<d[2], Source(d[1])>> \in report.measured
                 PROVE  \E i \in DOMAIN t : t[i] = Observation(d[1], d[2])
      OBVIOUS
    <3>1. CASE d \in D
      BY <1>2, <2>3, <3>1
    <3>2. CASE d = <<n, side>>
      <4>1. Len(s) + 1 \in DOMAIN t
        BY <1>2, <2>3
      <4> QED
        BY <2>3, <3>2, <4>1 DEF o
    <3> QED
      BY <3>1, <3>2
  <2>7. \A i, j \in DOMAIN t : t[i].value = t[j].value => i = j
    <3> SUFFICES ASSUME NEW i \in DOMAIN t, NEW j \in DOMAIN t, t[i].value = t[j].value
                 PROVE  i = j
      OBVIOUS
    <3>1. i \in 1..Len(s) \/ i = Len(s) + 1
      BY <1>2, <2>3
    <3>2. j \in 1..Len(s) \/ j = Len(s) + 1
      BY <1>2, <2>3
    <3>3. CASE i \in 1..Len(s) /\ j \in 1..Len(s)
      BY <1>2, <2>3, <3>3
    <3>4. CASE i = Len(s) + 1 \/ j = Len(s) + 1
      BY <2>2, <2>3, <2>4, <3>1, <3>2, <3>4
    <3> QED
      BY <3>1, <3>2, <3>3, <3>4
  <2> QED
    BY <2>1, <2>3, <2>5, <2>6, <2>7 DEF Observes
<1> QED
  BY <1>3, <1>4

LEMMA InitObserving == Init => Observing
<1> SUFFICES ASSUME Init PROVE Observing
  OBVIOUS
<1>1. AllOf(0) = {} /\ 0 \in 0..Len(Calls)
  BY CallsLength DEF AllOf
<1>2. <<>> \in Seq(Observations) /\ DOMAIN <<>> = {}
  OBVIOUS
<1> QED
  BY <1>1, <1>2 DEF Init, Observing, Observes

LEMMA NextObserving == Observing /\ [Next]_vars => Observing'
<1> SUFFICES ASSUME Observing, [Next]_vars PROVE Observing'
  OBVIOUS
<1>1. CASE RecordMetric
  <2> DEFINE n == recorded + 1
             s1 == observed \o Recorded(Calls[n], "local")
             s2 == s1 \o Recorded(Calls[n], "remote")
             D1 == AllOf(recorded) \cup {<<n, "local">>}
             D2 == D1 \cup {<<n, "remote">>}
  <2>1. recorded \in Nat /\ n \in 1..Len(Calls) /\ Observes(observed, AllOf(recorded), report.measured)
    BY <1>1, CallsLength DEF RecordMetric, Observing
  <2>2. "local" \in Sides /\ "remote" \in Sides
    BY DEF Sides
  <2>3. AllOf(recorded) \subseteq (1..Len(Calls)) \X Sides /\ \A side : <<n, side>> \notin AllOf(recorded)
    BY <2>1, CallsLength DEF AllOf
  <2>4. Observes(s1, D1, report.measured)
    BY <2>1, <2>2, <2>3, RecordedOnce
  <2>5. D1 \subseteq (1..Len(Calls)) \X Sides /\ <<n, "remote">> \notin D1
    BY <2>1, <2>2, <2>3
  <2>6. Observes(s2, D2, report.measured)
    <3> HIDE DEF s1, D1, n
    <3> QED
      BY <2>1, <2>2, <2>4, <2>5, RecordedOnce
  <2>7. D2 = AllOf(n)
    <3>1. D2 \subseteq AllOf(n)
      BY <2>1, <2>2 DEF AllOf
    <3>2. AllOf(n) \subseteq D2
      <4> SUFFICES ASSUME NEW k \in 1..n, NEW side \in Sides PROVE <<k, side>> \in D2
        BY DEF AllOf
      <4>1. CASE k = n
        BY <4>1 DEF Sides
      <4>2. CASE k # n
        <5>1. k \in 1..recorded
          BY <2>1, <4>2
        <5> QED
          BY <5>1 DEF AllOf
      <4> QED
        BY <4>1, <4>2
    <3> QED
      BY <3>1, <3>2
  <2>8. observed' = s2 /\ recorded' = n /\ report' = report /\ phase' = phase /\ phase = "recording"
    BY <1>1 DEF RecordMetric
  <2> HIDE DEF s1, s2, D1, D2
  <2>9. Observes(observed', AllOf(recorded'), report'.measured)
    BY <2>6, <2>7, <2>8
  <2>10. Observes(observed, AllOf(recorded), report.measured)'
    <3> HIDE DEF n
    <3> QED
      BY <2>9 DEF Observes, AllOf
  <2>11. recorded' \in 0..Len(Calls) /\ phase' = "recording"
    BY <2>1, <2>8
  <2> QED
    BY <2>10, <2>11 DEF Observing
<1>2. ASSUME recorded' = recorded, observed' = observed, report' = report,
             phase' = "numbering" => phase = "numbering",
             phase' \in {"naming", "emitted"} =>
                phase \in {"naming", "emitted"} \/ recorded = Len(Calls)
      PROVE  Observing'
  BY <1>2 DEF Observing, Observes, AllOf
<1>3. CASE AddField \/ AddPublish \/ MetricsRecorded \/ Emit \/ UNCHANGED vars
  BY <1>2, <1>3 DEF AddField, AddPublish, MetricsRecorded, Emit, vars
<1>4. CASE \E k \in left : SkipSecret(k) \/ Name(k)
  BY <1>2, <1>4 DEF SkipSecret, Name
<1> QED
  BY <1>1, <1>3, <1>4 DEF Next

-----------------------------------------------------------------------------
(* The theorems *)

\* exportReport and Export keep the inductive invariant (main.go:256-336,
\* export.go:129-243).
THEOREM Invariance == Spec => []IInv
<1>1. IInv /\ [Next]_vars => IInv'
  BY AddFieldInv, AddPublishInv, RecordMetricInv, MetricsRecordedInv, SkipSecretInv,
     NameInv, EmitInv, StutterInv DEF Next
<1> QED
  BY <1>1, InitInv, PTL DEF Spec

\* The variables of an export have their types, and used is the set of the names that
\* were given (export.go:214-230).
THEOREM TypeCorrect == Spec => []TypeOK
<1>1. IInv /\ Observing => TypeOK
  BY DEF IInv, Types, Used, Observing, TypeOK
<1> QED
  BY <1>1, Invariance, InitObserving, NextObserving, PTL DEF Spec

\* However many fields of a report have the same key, and whatever keys with numbers
\* it has itself, each field gets a key of its own, in their order (main.go:316-336).
THEOREM FieldsKept == Spec => []RepeatedFieldsKept
<1>1. IInv => RepeatedFieldsKept
  BY DEF IInv
<1> QED
  BY <1>1, Invariance, PTL

\* No two attributes of a log record have the same name, whatever keys have the same
\* normal form (export.go:220-230).
THEOREM NamesApart == Spec => []NamesUnique
<1>1. IInv => NamesUnique
  BY DEF IInv
<1> QED
  BY <1>1, Invariance, PTL

\* Whatever a report measures (main.go:329-357, export.go:145-195): each measurement that
\* has a histogram is observed there once, on its side and in its unit, and nothing that
\* is absent is.
THEOREM EachMeasuredOnce == Spec => []MeasurementsObserved
<1> DEFINE documented == {
            <<"MOSLQ", "mos_lq", 1, "none">>, <<"MOSCQ", "mos_cq", 1, "none">>,
            <<"RLQ", "r_factor_lq", 1, "none">>, <<"RCQ", "r_factor_cq", 1, "none">>,
            <<"PacketLoss", "packet_loss", 100, "none">>,
            <<"DiscardRate", "discard_rate", 100, "none">>,
            <<"RoundTripDelay", "round_trip_delay", 1000, "none">>,
            <<"OneWayDelay", "one_way_delay", 1000, "none">>,
            <<"IAJ", "jitter", 1000, "interarrival">>,
            <<"MAJ", "jitter", 1000, "mean_absolute">>}
           Row(n) == <<Source(n), Calls[n].histogram, Calls[n].per, Calls[n].kind>>
<1>1. \A n \in 1..10 : n \in {1, 2, 3, 4, 5, 6, 7, 8, 9, 10}
  OBVIOUS
<1>2. \A n \in {1, 2, 3, 4, 5, 6, 7, 8, 9, 10} : Row(n) \in documented
  BY DEF Source, SourceOf, Calls, Call
<1>3. \A d \in documented : \E n \in 1..10 : Row(n) = d
  BY DEF Source, SourceOf, Calls, Call
<1> HIDE DEF documented
<1>4. ASSUME Observing, phase \in {"naming", "emitted"}, NEW side \in Sides,
             NEW metric \in Metrics
      PROVE  LET value == <<side, metric>>
                 of == {i \in DOMAIN observed : observed[i].value = value}
             IN /\ Cardinality(of) =
                      IF value \in report.measured /\ \E d \in documented : d[1] = metric
                      THEN 1 ELSE 0
                /\ \A i \in of :
                      LET o == observed[i] IN
                      /\ o.side = side
                      /\ <<metric, o.histogram, o.per, o.kind>> \in documented
  <2> DEFINE value == <<side, metric>>
             of == {i \in DOMAIN observed : observed[i].value = value}
             D == AllOf(Len(Calls))
  <2>1. Observes(observed, D, report.measured)
    BY <1>4 DEF Observing
  <2>2. \A d \in D : d[1] \in 1..10 /\ d[2] \in Sides
    BY CallsLength DEF AllOf
  <2>3. \A n \in 1..10, s \in Sides : <<n, s>> \in D
    BY CallsLength DEF AllOf
  <2>4. \A i \in of : \E n \in 1..10 : /\ value \in report.measured /\ Source(n) = metric
                                      /\ observed[i] = Observation(n, side)
    <3> SUFFICES ASSUME NEW i \in of
                 PROVE  \E n \in 1..10 : /\ value \in report.measured /\ Source(n) = metric
                                         /\ observed[i] = Observation(n, side)
      OBVIOUS
    <3>1. PICK d \in D : <<d[2], Source(d[1])>> \in report.measured
                           /\ observed[i] = Observation(d[1], d[2])
      BY <2>1 DEF Observes
    <3>2. observed[i].value = <<d[2], Source(d[1])>>
      BY <3>1 DEF Observation
    <3>3. d[2] = side /\ Source(d[1]) = metric
      BY <3>2
    <3> QED
      BY <2>2, <3>1, <3>3
  <2>5. \A i \in of : /\ observed[i].side = side /\ value \in report.measured
                      /\ <<metric, observed[i].histogram, observed[i].per, observed[i].kind>>
                            \in documented
    <3> SUFFICES ASSUME NEW i \in of
                 PROVE  /\ observed[i].side = side /\ value \in report.measured
                        /\ <<metric, observed[i].histogram, observed[i].per, observed[i].kind>>
                            \in documented
      OBVIOUS
    <3>1. PICK n \in 1..10 : /\ value \in report.measured /\ Source(n) = metric
                            /\ observed[i] = Observation(n, side)
      BY <2>4
    <3>2. /\ observed[i].side = side /\ observed[i].histogram = Calls[n].histogram
          /\ observed[i].per = Calls[n].per /\ observed[i].kind = Calls[n].kind
      BY <3>1 DEF Observation
    <3>3. Row(n) \in documented
      BY <1>1, <1>2
    <3> QED
      BY <3>1, <3>2, <3>3
  <2>6. \A d \in documented : d[1] = metric /\ value \in report.measured => of # {}
    <3> SUFFICES ASSUME NEW d \in documented, d[1] = metric, value \in report.measured
                 PROVE  of # {}
      OBVIOUS
    <3>1. PICK n \in 1..10 : Row(n) = d
      BY <1>3
    <3>2. Source(n) = metric
      BY <3>1
    <3>3. PICK i \in DOMAIN observed : observed[i] = Observation(n, side)
      <4>1. <<n, side>> \in D /\ <<n, side>>[1] = n /\ <<n, side>>[2] = side
        BY <2>3
      <4> QED
        BY <2>1, <3>2, <4>1 DEF Observes
    <3>4. observed[i].value = value
      BY <3>2, <3>3 DEF Observation
    <3> QED
      BY <3>3, <3>4
  <2>7. of # {} => \E d \in documented : d[1] = metric
    BY <2>5
  <2>8. \A i, j \in of : i = j
    BY <2>1 DEF Observes
  <2> HIDE DEF of, value
  <2>9. CASE of = {}
    <3>1. ~(value \in report.measured /\ \E d \in documented : d[1] = metric)
      BY <2>6, <2>9
    <3> QED
      BY <2>9, <3>1, FS_EmptySet DEF of, value
  <2>10. CASE of # {}
    <3>1. PICK i : of = {i}
      BY <2>8, <2>10
    <3>2. Cardinality(of) = 1
      BY <3>1, FS_Singleton
    <3>3. value \in report.measured /\ \E d \in documented : d[1] = metric
      BY <2>5, <2>7, <2>10
    <3> QED
      BY <2>5, <3>2, <3>3 DEF of, value
  <2> QED
    BY <2>9, <2>10
<1>5. Observing => MeasurementsObserved
  BY <1>4 DEF MeasurementsObserved, documented
<1> QED
  BY <1>5, InitObserving, NextObserving, PTL DEF Spec

\* A record gives every field that is not secret back, once, and no secret one
\* (export.go:212-243).
THEOREM FieldsReadBack == Spec => []FieldsRecoverable
<1>1. IInv => FieldsRecoverable
  <2> SUFFICES ASSUME IInv, phase = "emitted", NEW k \in DOMAIN fields
               PROVE  LET named == {i \in DOMAIN attributes : Tells(attributes[i], k)}
                      IN IF secretField(k) THEN named = {}
                         ELSE \E i \in named : named = {i} /\ attributes[i].value = fields[k]
    BY DEF FieldsRecoverable, Tells
  <2>1. /\ left = {} /\ DOMAIN fields \subseteq Key
        /\ \A i \in DOMAIN attributes : \E l \in DOMAIN fields :
              /\ ~secretField(l) /\ Tells(attributes[i], l)
              /\ attributes[i].value = fields[l]
        /\ \A l \in DOMAIN fields :
              ~secretField(l) => \E i \in DOMAIN attributes : Tells(attributes[i], l)
        /\ \A i, j \in DOMAIN attributes, l \in DOMAIN fields :
              Tells(attributes[i], l) /\ Tells(attributes[j], l) => i = j
    BY DEF IInv, Types, Told
  <2>2. \A i \in DOMAIN attributes :
          Tells(attributes[i], k) => ~secretField(k) /\ attributes[i].value = fields[k]
    BY <2>1, TellsOne
  <2>3. CASE secretField(k)
    BY <2>2, <2>3
  <2>4. CASE ~secretField(k)
    <3>1. PICK i \in DOMAIN attributes : Tells(attributes[i], k)
      BY <2>1, <2>4
    <3>2. {j \in DOMAIN attributes : Tells(attributes[j], k)} = {i}
      BY <2>1, <3>1
    <3> QED
      BY <2>2, <2>4, <3>1, <3>2
  <2> QED
    BY <2>3, <2>4
<1> QED
  BY <1>1, Invariance, PTL
=============================================================================
