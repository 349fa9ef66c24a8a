--------------------------- MODULE CodegenProofs ----------------------------
(***************************************************************************)
(* What parse_schema accepts, what the generators make of it, and that the *)
(* running binary fits its tables, for every document, every order of      *)
(* edits, builds, failures and starts, and every set of handlers.          *)
(***************************************************************************)
EXTENDS Codegen, FiniteSetTheorems, WellFoundedInduction, TLAPS

-----------------------------------------------------------------------------
(* Orders and positions.                                                   *)

\* A non-empty set of naturals has a least element.
LEMMA LeastNat ==
  ASSUME NEW S \in SUBSET Nat, S # {}
  PROVE  \E x \in S : \A y \in S : x <= y
<1> DEFINE Less == OpToRel(<, Nat)
<1>1. \A x, y \in Nat : y < x => <<y, x>> \in Less
  BY DEF OpToRel
<1>2. IsWellFoundedOn(Less, Nat)
  BY NatLessThanWellFounded
<1> HIDE DEF Less
<1>3. PICK x \in S : \A y \in S : ~ (<<y, x>> \in Less)
  BY <1>2, WFMin
<1>4. \A y \in S : ~ (y < x)
  BY <1>1, <1>3
<1> QED
  BY <1>3, <1>4

\* Of a set of positions, the n-th one is there, and it is the n-th one only.
LEMMA NthExists ==
  ASSUME NEW m \in Nat, NEW I \in SUBSET (1..m)
  PROVE  /\ Cardinality(I) \in Nat
         /\ \A n \in 1..Cardinality(I) : Nth(I, n) \in I
         /\ \A i \in I : \E n \in 1..Cardinality(I) : Nth(I, n) = i
         /\ \A n, k \in 1..Cardinality(I) : Nth(I, n) = Nth(I, k) => n = k
<1> DEFINE Upto(i) == {j \in I : j <= i}
           rank == [i \in I |-> Cardinality(Upto(i))]
           c == Cardinality(I)
<1>0. I \subseteq Int
  OBVIOUS
<1>1. IsFiniteSet(I) /\ c \in Nat
  <2>1. IsFiniteSet(1..m)
    BY FS_Interval
  <2>2. IsFiniteSet(I)
    BY <2>1, FS_Subset
  <2> QED
    BY <2>2, FS_CardinalityType
<1>2. ASSUME NEW i \in I
      PROVE  rank[i] \in 1..c
  <2>1. IsFiniteSet(Upto(i)) /\ Cardinality(Upto(i)) <= c
    BY <1>1, FS_Subset
  <2>2. i \in Upto(i)
    OBVIOUS
  <2>3. Cardinality(Upto(i)) \in Nat /\ Cardinality(Upto(i)) # 0
    BY <2>1, <2>2, FS_EmptySet, FS_CardinalityType
  <2> HIDE DEF Upto
  <2> QED
    BY <1>1, <2>1, <2>3
<1>3. ASSUME NEW i \in I, NEW j \in I, i < j
      PROVE  rank[i] # rank[j]
  <2>0. i \in Int /\ j \in Int
    BY <1>0
  <2>4. \A k \in I : k <= i => k <= j
    BY <1>0, <1>3, <2>0
  <2>5. j <= j /\ ~ (j <= i)
    BY <1>3, <2>0
  <2>1. Upto(i) \subseteq Upto(j) /\ j \in Upto(j) /\ j \notin Upto(i)
    BY <2>4, <2>5
  <2>2. IsFiniteSet(Upto(j))
    BY <1>1, FS_Subset
  <2>3. Cardinality(Upto(i)) = Cardinality(Upto(j)) => Upto(j) = Upto(i)
    <3> HIDE DEF Upto
    <3> QED
      BY <2>1, <2>2, FS_Subset
  <2> QED
    BY <2>1, <2>3
<1>4. \A i, j \in I : rank[i] = rank[j] => i = j
  <2> HIDE DEF rank
  <2>1. \A i, j \in I : i < j \/ j < i \/ i = j
    OBVIOUS
  <2> QED
    BY <1>3, <2>1
<1> DEFINE T == 1..c
<1>5. rank \in Injection(I, T)
  <2>1. rank \in [I -> T]
    <3>1. \A i \in I : rank[i] \in T
      BY <1>2
    <3> HIDE DEF T, c
    <3> QED
      BY <3>1
  <2> HIDE DEF rank
  <2> QED
    BY <1>4, <2>1 DEF Injection, IsInjective
<1>6. IsFiniteSet(T) /\ Cardinality(T) = c
  BY <1>1, FS_Interval
<1>7. \A n \in T : \E i \in I : rank[i] = n
  <2> HIDE DEF rank, T, c
  <2>1. rank \in Surjection(I, T)
    BY <1>5, <1>6, FS_Injection DEF c
  <2> QED
    BY <2>1 DEF Surjection
<1>8. \A n : Nth(I, n) = CHOOSE i \in I : Cardinality(Upto(i)) = n
  BY DEF Nth
<1>9. \A n \in T : Nth(I, n) \in I /\ rank[Nth(I, n)] = n
  <2> SUFFICES ASSUME NEW n \in T PROVE Nth(I, n) \in I /\ rank[Nth(I, n)] = n
    OBVIOUS
  <2>1. \E i \in I : Cardinality(Upto(i)) = n
    BY <1>7
  <2> HIDE DEF Upto, T, c
  <2>2. Nth(I, n) \in I /\ Cardinality(Upto(Nth(I, n))) = n
    BY <1>8, <2>1
  <2> QED
    BY <2>2
<1> HIDE DEF rank
<1>10. \A i \in I : rank[i] \in T /\ Nth(I, rank[i]) = i
  BY <1>2, <1>4, <1>9
<1> QED
  BY <1>1, <1>9, <1>10

\* What is kept of a sequence: the elements at the positions, each once.
LEMMA KeptFacts ==
  ASSUME NEW s, IsSequence(s), NEW I \in SUBSET DOMAIN s
  PROVE  /\ DOMAIN Kept(s, I) \subseteq Nat
         /\ \A n \in DOMAIN Kept(s, I) : 1..n \subseteq DOMAIN Kept(s, I)
         /\ \A n \in DOMAIN Kept(s, I) : Nth(I, n) \in I /\ Kept(s, I)[n] = s[Nth(I, n)]
         /\ \A i \in I : \E n \in DOMAIN Kept(s, I) : Nth(I, n) = i
         /\ \A n, k \in DOMAIN Kept(s, I) : Nth(I, n) = Nth(I, k) => n = k
<1> DEFINE c == Cardinality(I)
           T == 1..c
<1>1. Len(s) \in Nat /\ I \in SUBSET (1..Len(s))
  BY DEF IsSequence
<1>2. /\ c \in Nat
      /\ \A n \in T : Nth(I, n) \in I
      /\ \A i \in I : \E n \in T : Nth(I, n) = i
      /\ \A n, k \in T : Nth(I, n) = Nth(I, k) => n = k
  BY <1>1, NthExists
<1>3. Kept(s, I) = [n \in T |-> s[Nth(I, n)]]
  BY DEF Kept
<1>4. T \subseteq Nat /\ \A n \in T : 1..n \subseteq T
  BY <1>2
<1> HIDE DEF c, T
<1>5. DOMAIN Kept(s, I) = T
  BY <1>3
<1>6. \A n \in T : Kept(s, I)[n] = s[Nth(I, n)]
  BY <1>3
<1> QED
  BY <1>2, <1>4, <1>5, <1>6

-----------------------------------------------------------------------------
(* parse_schema.                                                           *)

\* The places where errors are met.
Places == {<<a, i, k, c>> : a \in Nat, i \in Nat, k \in Nat, c \in Nat}

\* Of some problems, one is met no later than the others.
LEMMA FirstMet ==
  ASSUME NEW S, S # {}, \A p \in S : p.at \in Places
  PROVE  \E p \in S : \A q \in S : NoLater(p, q)
<1>0. \A p \in S : /\ p.at[1] \in Nat /\ p.at[2] \in Nat /\ p.at[3] \in Nat
                  /\ p.at[4] \in Nat
                  /\ p.at = <<p.at[1], p.at[2], p.at[3], p.at[4]>>
  BY DEF Places
<1>1. \E p \in S : \A q \in S : p.at[1] <= q.at[1]
  <2> DEFINE N == {p.at[1] : p \in S}
  <2>1. N \in SUBSET Nat /\ N # {}
    BY <1>0
  <2>2. \E x \in N : \A y \in N : x <= y
    <3> HIDE DEF N
    <3> QED
      BY <2>1, LeastNat
  <2> QED
    BY <2>2
<1> DEFINE A == {p \in S : \A q \in S : p.at[1] <= q.at[1]}
<1>2. \E p \in A : \A q \in A : p.at[2] <= q.at[2]
  <2> DEFINE N == {p.at[2] : p \in A}
  <2>1. N \in SUBSET Nat /\ N # {}
    BY <1>0, <1>1
  <2>2. \E x \in N : \A y \in N : x <= y
    <3> HIDE DEF N
    <3> QED
      BY <2>1, LeastNat
  <2> QED
    BY <2>2
<1> DEFINE B == {p \in A : \A q \in A : p.at[2] <= q.at[2]}
<1>3. \E p \in B : \A q \in B : p.at[3] <= q.at[3]
  <2> DEFINE N == {p.at[3] : p \in B}
  <2>1. N \in SUBSET Nat /\ N # {}
    BY <1>0, <1>2
  <2>2. \E x \in N : \A y \in N : x <= y
    <3> HIDE DEF N
    <3> QED
      BY <2>1, LeastNat
  <2> QED
    BY <2>2
<1> DEFINE C == {p \in B : \A q \in B : p.at[3] <= q.at[3]}
<1>4. PICK p \in C : \A q \in C : p.at[4] <= q.at[4]
  <2> DEFINE N == {p.at[4] : p \in C}
  <2>1. N \in SUBSET Nat /\ N # {}
    BY <1>0, <1>3
  <2>2. \E x \in N : \A y \in N : x <= y
    <3> HIDE DEF N
    <3> QED
      BY <2>1, LeastNat
  <2> QED
    BY <2>2
<1>5. p \in S /\ p \in A /\ p \in B
  OBVIOUS
<1>6. ASSUME NEW q \in S
      PROVE  NoLater(p, q)
  <2>1. /\ p.at[1] \in Nat /\ p.at[2] \in Nat /\ p.at[3] \in Nat /\ p.at[4] \in Nat
        /\ q.at[1] \in Nat /\ q.at[2] \in Nat /\ q.at[3] \in Nat /\ q.at[4] \in Nat
    BY <1>0, <1>5
  <2>2. p.at[1] <= q.at[1]
    BY <1>5
  <2>3. p.at[1] = q.at[1] => p.at[2] <= q.at[2]
    <3>1. p.at[1] = q.at[1] => q \in A
      BY <1>5
    <3> QED
      BY <1>5, <3>1
  <2>4. p.at[1] = q.at[1] /\ p.at[2] = q.at[2] => p.at[3] <= q.at[3]
    <3>1. p.at[1] = q.at[1] /\ p.at[2] = q.at[2] => q \in B
      BY <1>5
    <3> QED
      BY <1>4, <3>1
  <2>5. p.at[1] = q.at[1] /\ p.at[2] = q.at[2] /\ p.at[3] = q.at[3] => p.at[4] <= q.at[4]
    <3>1. p.at[1] = q.at[1] /\ p.at[2] = q.at[2] /\ p.at[3] = q.at[3] => q \in C
      BY <1>4, <1>5
    <3> QED
      BY <1>4, <3>1
  <2> HIDE DEF A, B, C
  <2>6. CASE p.at[1] < q.at[1]
    BY <2>6 DEF NoLater
  <2>7. CASE p.at[1] = q.at[1] /\ p.at[2] < q.at[2]
    <3>1. \A c \in 1..(2-1) : p.at[c] = q.at[c]
      BY <2>7
    <3> QED
      BY <2>7, <3>1 DEF NoLater
  <2>8. CASE p.at[1] = q.at[1] /\ p.at[2] = q.at[2] /\ p.at[3] < q.at[3]
    <3>1. \A c \in 1..(3-1) : c = 1 \/ c = 2
      OBVIOUS
    <3>2. \A c \in 1..(3-1) : p.at[c] = q.at[c]
      BY <2>8, <3>1
    <3> QED
      BY <2>8, <3>2 DEF NoLater
  <2>9. CASE p.at[1] = q.at[1] /\ p.at[2] = q.at[2] /\ p.at[3] = q.at[3] /\ p.at[4] < q.at[4]
    <3>1. \A c \in 1..(4-1) : c = 1 \/ c = 2 \/ c = 3
      OBVIOUS
    <3>2. \A c \in 1..(4-1) : p.at[c] = q.at[c]
      BY <2>9, <3>1
    <3> QED
      BY <2>9, <3>2 DEF NoLater
  <2>10. CASE p.at[1] = q.at[1] /\ p.at[2] = q.at[2] /\ p.at[3] = q.at[3] /\ p.at[4] = q.at[4]
    <3>1. p.at = q.at
      BY <1>0, <1>5, <2>10
    <3> QED
      BY <3>1 DEF NoLater
  <2> QED
    BY <2>1, <2>2, <2>3, <2>4, <2>5, <2>6, <2>7, <2>8, <2>9, <2>10
<1> QED
  BY <1>5, <1>6

\* A document is a sequence of definitions that have sequences of fields.
Shaped(d) == IsSequence(d) /\ \A i \in DOMAIN d : IsSequence(d[i].fields)

LEMMA ProblemShape ==
  ASSUME NEW d, Shaped(d), NEW p \in Problems(d)
  PROVE  p.at \in Places /\ p.error \in ErrorKinds \cup {None}
<1>0. /\ \A i \in Entities(d) : i \in Nat /\ Len(d[i].fields) + 1 \in Nat
      /\ \A i \in Entities(d) : \A k \in DOMAIN d[i].fields : k \in Nat
  BY DEF Shaped, IsSequence, Entities
<1>1. CASE \E i \in Entities(d) : p = [at |-> <<1, i, 0, 0>>, error |-> "DuplicateEntity"]
  <2>1. PICK i \in Entities(d) : p = [at |-> <<1, i, 0, 0>>, error |-> "DuplicateEntity"]
    BY <1>1
  <2>2. i \in Nat
    BY <1>0
  <2>3. p.at = <<1, i, 0, 0>> /\ p.error = "DuplicateEntity"
    BY <2>1
  <2> QED
    BY <2>2, <2>3 DEF Places, ErrorKinds
<1>2. CASE p = [at |-> <<2, 0, 0, 0>>, error |-> "NoEntities"]
  BY <1>2 DEF Places, ErrorKinds
<1>3. CASE \E i \in Entities(d) : \E k \in DOMAIN d[i].fields : \E c \in 1..4 :
             p = [at |-> <<3, i, k, c>>, error |-> FieldErrors(d, d[i].fields, k)[c]]
  <2>1. PICK i \in Entities(d) : \E k \in DOMAIN d[i].fields : \E c \in 1..4 :
             p = [at |-> <<3, i, k, c>>, error |-> FieldErrors(d, d[i].fields, k)[c]]
    BY <1>3
  <2>2. PICK k \in DOMAIN d[i].fields : \E c \in 1..4 :
             p = [at |-> <<3, i, k, c>>, error |-> FieldErrors(d, d[i].fields, k)[c]]
    BY <2>1
  <2>3. PICK c \in 1..4 :
             p = [at |-> <<3, i, k, c>>, error |-> FieldErrors(d, d[i].fields, k)[c]]
    BY <2>2
  <2>4. c \in Nat /\ i \in Nat /\ k \in Nat
    BY <1>0
  <2>5. FieldErrors(d, d[i].fields, k)[c] \in ErrorKinds \cup {None}
    <3>1. c = 1 \/ c = 2 \/ c = 3 \/ c = 4
      OBVIOUS
    <3> QED
      BY <3>1 DEF FieldErrors, ErrorKinds
  <2> QED
    BY <2>3, <2>4, <2>5 DEF Places
<1>4. CASE \E i \in Entities(d) :
             p = [at |-> <<3, i, Len(d[i].fields) + 1, 0>>, error |-> "MissingId"]
  <2>1. PICK i \in Entities(d) :
          p = [at |-> <<3, i, Len(d[i].fields) + 1, 0>>, error |-> "MissingId"]
    BY <1>4
  <2> DEFINE n == Len(d[i].fields) + 1
  <2>2. i \in Nat /\ n \in Nat
    BY <1>0
  <2>3. p.at = <<3, i, n, 0>> /\ p.error = "MissingId"
    BY <2>1
  <2> HIDE DEF n
  <2>4. p.at \in Places
    BY <2>2, <2>3 DEF Places
  <2> QED
    BY <2>3, <2>4 DEF ErrorKinds
<1> QED
  BY <1>1, <1>2, <1>3, <1>4 DEF Problems

\* The error is one that was met, if any was.
LEMMA ErrorMet ==
  ASSUME NEW d, Shaped(d)
  PROVE  /\ ParseError(d) = None => Met(d) = {}
         /\ ParseError(d) # None => ParseError(d) \in ErrorKinds
<1> SUFFICES ASSUME Met(d) # {}
             PROVE  ParseError(d) \in ErrorKinds /\ ParseError(d) # None
  BY DEF ParseError
<1> DEFINE P(p) == \A q \in Met(d) : NoLater(p, q)
<1>1. \A p \in Met(d) : p.at \in Places /\ p.error \in ErrorKinds
  BY ProblemShape DEF Met
<1>2. \E p \in Met(d) : P(p)
  BY <1>1, FirstMet
<1>3. ParseError(d) = (CHOOSE p \in Met(d) : P(p)).error
  BY DEF ParseError
<1> HIDE DEF P
<1>4. (CHOOSE p \in Met(d) : P(p)) \in Met(d)
  BY <1>2
<1> QED
  BY <1>1, <1>3, <1>4, SchemaAssumption

LEMMA DocumentFacts ==
  ASSUME NEW d \in Documents
  PROVE  /\ Shaped(d)
         /\ ParseError(d) = None => ParseSchema(d) \notin {None, Own}
BY CodegenAssumption DEF Shaped

\* What a document without an error fulfils.
Accepted(d) ==
  /\ \A i, j \in Entities(d) : d[i].name = d[j].name => i = j
  /\ \A i \in Entities(d) :
       /\ HasId(d[i].fields)
       /\ \A k \in DOMAIN d[i].fields :
            LET f == d[i].fields[k]
            IN  /\ ~Repeated(d[i].fields, k)
                /\ Stored(f) /\ ~f.list => Known(d, f)
                /\ Stored(f) /\ f.list => f.type \in Scalars
                /\ Stored(f) /\ f.name = "id" => f.nonNull

LEMMA ParsedIsAccepted ==
  ASSUME NEW d, Shaped(d), ParseError(d) = None
  PROVE  Accepted(d)
<1>0. Met(d) = {}
  BY ErrorMet
<1>1. \A p \in Problems(d) : p.error = None
  BY <1>0 DEF Met
<1>2. ASSUME NEW i \in Entities(d), NEW j \in Entities(d), d[i].name = d[j].name, j < i
      PROVE  FALSE
  <2> DEFINE p == [at |-> <<1, i, 0, 0>>, error |-> "DuplicateEntity"]
  <2>1. p \in Problems(d)
    BY <1>2 DEF Problems
  <2>2. p.error # None
    BY SchemaAssumption DEF ErrorKinds
  <2> QED
    BY <1>1, <2>1, <2>2
<1>3. \A i, j \in Entities(d) : d[i].name = d[j].name => i = j
  <2>1. \A i \in Entities(d) : i \in Nat
    BY DEF Shaped, IsSequence, Entities
  <2>2. \A i, j \in Entities(d) : i < j \/ j < i \/ i = j
    BY <2>1
  <2> QED
    BY <1>2, <2>2
<1>4. ASSUME NEW i \in Entities(d)
      PROVE  HasId(d[i].fields)
  <2> SUFFICES ASSUME ~HasId(d[i].fields) PROVE FALSE
    OBVIOUS
  <2> DEFINE p == [at |-> <<3, i, Len(d[i].fields) + 1, 0>>, error |-> "MissingId"]
  <2>1. p \in Problems(d)
    BY DEF Problems
  <2>2. p.error # None
    BY SchemaAssumption DEF ErrorKinds
  <2> QED
    BY <1>1, <2>1, <2>2
<1>5. ASSUME NEW i \in Entities(d), NEW k \in DOMAIN d[i].fields, NEW c \in 1..4
      PROVE  FieldErrors(d, d[i].fields, k)[c] = None
  <2> DEFINE p == [at |-> <<3, i, k, c>>, error |-> FieldErrors(d, d[i].fields, k)[c]]
             X(n) == {[at |-> <<3, n, l, e>>, error |-> FieldErrors(d, d[n].fields, l)[e]] :
                        l \in DOMAIN d[n].fields, e \in 1..4}
  <2>0. UNION {X(n) : n \in Entities(d)} \subseteq Problems(d)
    BY DEF Problems
  <2>1. p \in Problems(d)
    <3>1. p \in X(i)
      OBVIOUS
    <3> HIDE DEF X, p
    <3> QED
      BY <2>0, <3>1
  <2> QED
    BY <1>1, <2>1
<1>6. ASSUME NEW i \in Entities(d), NEW k \in DOMAIN d[i].fields
      PROVE  LET f == d[i].fields[k]
             IN  /\ ~Repeated(d[i].fields, k)
                 /\ Stored(f) /\ ~f.list => Known(d, f)
                 /\ Stored(f) /\ f.list => f.type \in Scalars
                 /\ Stored(f) /\ f.name = "id" => f.nonNull
  <2> DEFINE e == FieldErrors(d, d[i].fields, k)
  <2>1. e[1] = None /\ e[2] = None /\ e[3] = None /\ e[4] = None
    BY <1>5
  <2>2. /\ "DuplicateField" # None /\ "UnknownType" # None
        /\ "ListNotSupported" # None /\ "NullableId" # None
    BY SchemaAssumption DEF ErrorKinds
  <2>3. ~Repeated(d[i].fields, k)
    BY <2>1, <2>2 DEF FieldErrors
  <2>4. LET f == d[i].fields[k] IN Stored(f) /\ ~f.list => Known(d, f)
    BY <2>1, <2>2 DEF FieldErrors
  <2>5. LET f == d[i].fields[k] IN Stored(f) /\ f.list => f.type \in Scalars
    BY <2>1, <2>2 DEF FieldErrors
  <2>6. LET f == d[i].fields[k] IN Stored(f) /\ f.name = "id" => f.nonNull
    BY <2>1, <2>2 DEF FieldErrors
  <2> QED
    BY <2>3, <2>4, <2>5, <2>6
<1> QED
  BY <1>3, <1>4, <1>6 DEF Accepted

-----------------------------------------------------------------------------
(* The entity model.                                                       *)

LEMMA EntityFacts ==
  ASSUME NEW d, Shaped(d), NEW i \in Entities(d)
  PROVE  LET e == ParseEntity(d, d[i])
             I == Columned(d[i])
         IN  /\ e.name = d[i].name /\ e.table = TableName[d[i].name]
             /\ Positions(e) \subseteq Nat
             /\ \A n \in Positions(e) :
                  /\ Nth(I, n) \in I
                  /\ e.fields[n] = ParsedField(d, d[i].fields[Nth(I, n)])
             /\ \A k \in I : \E n \in Positions(e) : e.fields[n] = ParsedField(d, d[i].fields[k])
             /\ \A n, m \in Positions(e) : Nth(I, n) = Nth(I, m) => n = m
<1> DEFINE e == ParseEntity(d, d[i])
           I == Columned(d[i])
           fields == Kept(d[i].fields, I)
<1>1. /\ e.name = d[i].name /\ e.table = TableName[d[i].name]
      /\ e.fields = [k \in DOMAIN fields |-> ParsedField(d, fields[k])]
  BY DEF ParseEntity, Columned
<1>2. IsSequence(d[i].fields) /\ I \in SUBSET DOMAIN d[i].fields
  BY DEF Shaped, Entities, Columned
<1> HIDE DEF I
<1>3. /\ DOMAIN fields \subseteq Nat
      /\ \A n \in DOMAIN fields : Nth(I, n) \in I /\ fields[n] = d[i].fields[Nth(I, n)]
      /\ \A k \in I : \E n \in DOMAIN fields : Nth(I, n) = k
      /\ \A n, m \in DOMAIN fields : Nth(I, n) = Nth(I, m) => n = m
  BY <1>2, KeptFacts
<1>4. Positions(e) = DOMAIN fields
  BY <1>1 DEF Positions
<1> HIDE DEF e, fields
<1>5. \A n \in Positions(e) : /\ Nth(I, n) \in I
                             /\ e.fields[n] = ParsedField(d, d[i].fields[Nth(I, n)])
  BY <1>1, <1>3, <1>4
<1>6. \A k \in I : \E n \in Positions(e) : e.fields[n] = ParsedField(d, d[i].fields[k])
  BY <1>3, <1>4, <1>5
<1> QED
  BY <1>1, <1>3, <1>4, <1>5, <1>6 DEF e, I

LEMMA SchemaFacts ==
  ASSUME NEW d, Shaped(d)
  PROVE  LET s == ParseSchema(d)
             I == Entities(d)
             J == Enums(d)
         IN  /\ DOMAIN s.entities \subseteq Nat /\ DOMAIN s.enums \subseteq Nat
             /\ \A n \in DOMAIN s.entities : 1..n \subseteq DOMAIN s.entities
             /\ \A n \in DOMAIN s.entities :
                  Nth(I, n) \in I /\ s.entities[n] = ParseEntity(d, d[Nth(I, n)])
             /\ \A i \in I : ParseEntity(d, d[i]) \in EntityRange(s)
             /\ \A n, m \in DOMAIN s.entities : Nth(I, n) = Nth(I, m) => n = m
             /\ \A n \in DOMAIN s.enums :
                  /\ Nth(J, n) \in J
                  /\ s.enums[n] = [name |-> d[Nth(J, n)].name, values |-> d[Nth(J, n)].fields]
             /\ \A n, m \in DOMAIN s.enums : Nth(J, n) = Nth(J, m) => n = m
             /\ \A k \in J : \E n \in DOMAIN s.enums : Nth(J, n) = k
             /\ \A k \in I : \E n \in DOMAIN s.entities : Nth(I, n) = k
<1> DEFINE s == ParseSchema(d)
           I == Entities(d)
           J == Enums(d)
           ents == Kept(d, I)
           ens == Kept(d, J)
<1>1. /\ s.entities = [n \in DOMAIN ents |-> ParseEntity(d, ents[n])]
      /\ s.enums = [n \in DOMAIN ens |-> [name |-> ens[n].name, values |-> ens[n].fields]]
  BY DEF ParseSchema
<1>2. IsSequence(d) /\ I \in SUBSET DOMAIN d /\ J \in SUBSET DOMAIN d
  BY DEF Shaped, Entities, Enums
<1> HIDE DEF I, J
<1>3. /\ DOMAIN ents \subseteq Nat
      /\ \A n \in DOMAIN ents : 1..n \subseteq DOMAIN ents
      /\ \A n \in DOMAIN ents : Nth(I, n) \in I /\ ents[n] = d[Nth(I, n)]
      /\ \A k \in I : \E n \in DOMAIN ents : Nth(I, n) = k
      /\ \A n, m \in DOMAIN ents : Nth(I, n) = Nth(I, m) => n = m
  BY <1>2, KeptFacts
<1>4. /\ DOMAIN ens \subseteq Nat
      /\ \A n \in DOMAIN ens : Nth(J, n) \in J /\ ens[n] = d[Nth(J, n)]
      /\ \A n, m \in DOMAIN ens : Nth(J, n) = Nth(J, m) => n = m
      /\ \A k \in J : \E n \in DOMAIN ens : Nth(J, n) = k
  BY <1>2, KeptFacts
<1> HIDE DEF s, ents, ens
<1>5. \A n \in DOMAIN s.entities : /\ Nth(I, n) \in I
                                  /\ s.entities[n] = ParseEntity(d, d[Nth(I, n)])
  BY <1>1, <1>3
<1>6. \A i \in I : \E n \in DOMAIN s.entities : s.entities[n] = ParseEntity(d, d[i])
  BY <1>1, <1>3
<1>7. \A i \in I : ParseEntity(d, d[i]) \in EntityRange(s)
  BY <1>6 DEF EntityRange
<1>8. \A n \in DOMAIN s.enums :
        /\ Nth(J, n) \in J
        /\ s.enums[n] = [name |-> d[Nth(J, n)].name, values |-> d[Nth(J, n)].fields]
  BY <1>1, <1>4
<1> QED
  BY <1>1, <1>3, <1>4, <1>5, <1>7, <1>8 DEF s, I, J

Text == [list |-> FALSE, of |-> "TEXT"]

\* A field as parse_schema makes it.
Parsed(f) ==
  /\ f.kind \in {"list", "scalar", "enum", "relation"}
  /\ f.kind \in {"scalar", "list"} => f.of \in Scalars \ {"JSONObject"}
  /\ f.kind = "relation" => PgType(f) = Text
  /\ f.is_id => ~f.nullable

LEMMA FieldFacts ==
  ASSUME NEW d, Shaped(d), Accepted(d), NEW i \in Entities(d),
         NEW k \in Columned(d[i])
  PROVE  LET f == ParsedField(d, d[i].fields[k])
         IN  /\ Parsed(f)
             /\ f.name = d[i].fields[k].name
             /\ f.column = Snake[d[i].fields[k].name]
             /\ f.is_id <=> d[i].fields[k].name = "id"
             /\ f.kind = "relation" => f.of \in NamesOf(d, Entities(d))
<1> DEFINE r == d[i].fields[k]
           f == ParsedField(d, r)
<1>1. /\ f.column = Snake[r.name] /\ f.kind = FieldKind(d, r) /\ f.of = Scalar(r.type)
      /\ f.name = r.name /\ f.nullable = ~r.nonNull
      /\ f.is_id <=> r.name = "id"
  BY DEF ParsedField
<1>2. /\ ~r.list => Known(d, r)
      /\ r.list => r.type \in Scalars
  BY DEF Accepted, Columned
<1>3. r.name = "id" => r.nonNull
  BY DEF Accepted, Columned
<1> HIDE DEF r, f
<1>4. r.type \in Scalars => Scalar(r.type) \in Scalars \ {"JSONObject"}
  BY DEF Scalar, Scalars
<1>5. f.kind \in {"list", "scalar", "enum", "relation"}
  BY <1>1 DEF FieldKind
<1>6. f.kind \in {"scalar", "list"} => f.of \in Scalars \ {"JSONObject"}
  BY <1>1, <1>2, <1>4 DEF FieldKind
<1>8. f.kind = "relation" => PgType(f) = Text
  BY DEF PgType, Holds, PgScalar, Text
<1>9. f.is_id => ~f.nullable
  BY <1>1, <1>3
<1>10. f.kind = "relation" => f.of \in NamesOf(d, Entities(d))
  <2> SUFFICES ASSUME f.kind = "relation" PROVE f.of \in NamesOf(d, Entities(d))
    OBVIOUS
  <2>1. ~r.list /\ r.type \notin Scalars /\ r.type \notin NamesOf(d, Enums(d))
    BY <1>1 DEF FieldKind
  <2>2. r.type \in NamesOf(d, Entities(d))
    BY <1>2, <2>1 DEF Known
  <2>3. Scalar(r.type) = r.type
    BY <2>1 DEF Scalar, Scalars
  <2> QED
    BY <1>1, <2>2, <2>3
<1>11. Parsed(f)
  BY <1>5, <1>6, <1>8, <1>9 DEF Parsed
<1> QED
  BY <1>1, <1>10, <1>11 DEF r, f

\* What is bound is what the column takes, and what is selected is what the read model
\* decodes, for the fields that the generators cast and for no others.
LEMMA FieldTypes ==
  ASSUME NEW f, Parsed(f)
  PROVE  /\ Placeholder(f) = PgType(f) <=> Upserted(f)
         /\ /\ GqlType(f).list = SelectType(f).list
            /\ <<GqlType(f).of, SelectType(f).of>> \in Carries
            <=> (f.kind = "list" => f.of \notin {"BigInt", "JSON"})
<1>1. \A h \in Scalars \ {"JSONObject", "BigInt"} :
        /\ <<RustScalar(h), PgScalar(h)>> \in Carries
        /\ \A p \in Carries : p[1] = RustScalar(h) => p[2] = PgScalar(h)
  <2>1. \A p, q \in Carries : p[1] = q[1] => p[2] = q[2]
    BY DEF Carries
  <2>2. ASSUME NEW h \in Scalars \ {"JSONObject", "BigInt"}
        PROVE  <<RustScalar(h), PgScalar(h)>> \in Carries
    <3>1. CASE h \in {"ID", "String", "Bytes"}
      BY <3>1 DEF RustScalar, PgScalar, Carries
    <3>2. CASE h \in {"Int", "Float", "Boolean"}
      BY <3>2 DEF RustScalar, PgScalar, Carries
    <3>3. CASE h \in {"DateTime", "JSON"}
      BY <3>3 DEF RustScalar, PgScalar, Carries
    <3> QED
      BY <3>1, <3>2, <3>3 DEF Scalars
  <2> QED
    BY <2>1, <2>2
<1>2. Holds(f) \in Scalars \ {"JSONObject"}
  BY DEF Holds, Parsed, Scalars
<1>3. /\ RustType(f).list = (f.kind = "list") /\ RustType(f).of = RustScalar(Holds(f))
      /\ PgType(f).list = (f.kind = "list") /\ PgType(f).of = PgScalar(Holds(f))
      /\ PgType(f) = [list |-> f.kind = "list", of |-> PgScalar(Holds(f))]
  BY DEF RustType, PgType
<1>4. CASE IsScalar(f, {"BigInt"})
  <2>1. f.kind = "scalar" /\ f.of = "BigInt" /\ Holds(f) = "BigInt"
    BY <1>4 DEF IsScalar, Holds
  <2>2. Placeholder(f) = PgType(f)
    BY <1>3, <1>4, <2>1 DEF Placeholder, PgScalar
  <2>3. GqlType(f) = [list |-> FALSE, of |-> "String"]
    BY <1>3, <2>1 DEF GqlType, RustScalar
  <2>4. SelectType(f) = Text
    BY <2>1 DEF SelectType, IsScalar, Text
  <2> QED
    BY <2>1, <2>2, <2>3, <2>4 DEF Text, Carries, Upserted
<1>5. CASE f.kind = "list" /\ f.of = "BigInt"
  <2>1. Holds(f) = "BigInt"
    BY <1>5 DEF Holds
  <2>2. RustType(f).of = "String" /\ PgType(f).of = "NUMERIC"
    BY <1>3, <2>1 DEF RustScalar, PgScalar
  <2>3. Placeholder(f).of = "TEXT"
    <3> DEFINE c == CHOOSE p \in Carries : p[1] = RustType(f).of
    <3>1. c \in Carries /\ c[1] = "String"
      BY <2>2 DEF Carries
    <3>2. c[2] = "TEXT"
      <4>1. \A p \in Carries : p[1] = "String" => p[2] = "TEXT"
        BY DEF Carries
      <4> HIDE DEF c
      <4> QED
        BY <3>1, <4>1
    <3>3. ~ IsScalar(f, {"BigInt"})
      BY <1>5 DEF IsScalar
    <3>4. Placeholder(f).of = c[2]
      BY <3>3 DEF Placeholder
    <3> HIDE DEF c
    <3> QED
      BY <3>2, <3>4
  <2>4. GqlType(f).of = "String" /\ SelectType(f).of = "NUMERIC"
    <3>1. GqlType(f).of = RustType(f).of
      BY <1>5 DEF GqlType
    <3>2. SelectType(f) = PgType(f)
      BY <1>5 DEF SelectType, IsScalar
    <3> QED
      BY <2>2, <3>1, <3>2
  <2>5. <<"String", "NUMERIC">> \notin Carries
    BY DEF Carries
  <2> QED
    BY <1>5, <2>2, <2>3, <2>4, <2>5 DEF Upserted
<1>6. CASE ~IsScalar(f, {"BigInt"}) /\ ~(f.kind = "list" /\ f.of = "BigInt")
  <2>1. Holds(f) # "BigInt"
    BY <1>6 DEF IsScalar, Holds, Parsed
  <2>2. <<RustScalar(Holds(f)), PgScalar(Holds(f))>> \in Carries
    BY <1>1, <1>2, <2>1
  <2>3. Placeholder(f) = PgType(f) /\ Upserted(f)
    <3> DEFINE c == CHOOSE p \in Carries : p[1] = RustType(f).of
    <3>1. c \in Carries /\ c[1] = RustType(f).of
      BY <1>3, <2>2
    <3>2. c[2] = PgScalar(Holds(f))
      BY <1>1, <1>2, <1>3, <2>1, <3>1
    <3>3. Placeholder(f) = [list |-> RustType(f).list, of |-> c[2]]
      BY <1>6 DEF Placeholder
    <3> HIDE DEF c
    <3> QED
      BY <1>3, <1>6, <3>2, <3>3 DEF Upserted
  <2>4. CASE f.kind = "scalar" /\ f.of = "JSON"
    <3>1. GqlType(f) = [list |-> FALSE, of |-> "String"] /\ SelectType(f) = Text
      BY <1>3, <2>4 DEF GqlType, SelectType, IsScalar, Text
    <3> QED
      BY <2>3, <2>4, <3>1 DEF Text, Carries
  <2>5. CASE f.kind = "list" /\ f.of = "JSON"
    <3>1. GqlType(f).of = "String"
      BY <2>5 DEF GqlType
    <3>2. SelectType(f) = PgType(f) /\ Holds(f) = "JSON"
      BY <2>5 DEF SelectType, IsScalar, Holds
    <3>3. SelectType(f).of = "JSONB"
      BY <1>3, <3>2 DEF PgScalar
    <3>4. <<"String", "JSONB">> \notin Carries
      BY DEF Carries
    <3> QED
      BY <2>3, <2>5, <3>1, <3>3, <3>4
  <2>6. CASE ~ (f.kind \in {"scalar", "list"} /\ f.of = "JSON")
    <3>1. SelectType(f) = PgType(f)
      BY <1>6, <2>6 DEF SelectType, IsScalar
    <3>2. GqlType(f) = [list |-> RustType(f).list, of |-> RustType(f).of]
      BY <2>6 DEF GqlType
    <3> QED
      BY <1>3, <1>6, <2>2, <2>3, <2>6, <3>1, <3>2
  <2> QED
    BY <2>4, <2>5, <2>6
<1> QED
  BY <1>4, <1>5, <1>6

-----------------------------------------------------------------------------
(* What the generators make of an accepted document.                       *)

\* A relation names an entity of the schema with a required id.
Resolves(S, f) ==
  f.kind = "relation" =>
    \E e \in EntityRange(S) : \E n \in Positions(e) :
      LET id == e.fields[n]
      IN  /\ e.name = f.of
          /\ id.is_id /\ ~id.nullable
          /\ IsScalar(id, {"ID"}) => PgType(id) = PgType(f)

\* What becomes of an accepted document, whatever its names.
Sound(S) ==
  /\ \A n \in DOMAIN S.entities : n \in Nat /\ 1..n \subseteq DOMAIN S.entities
  /\ \A e \in EntityRange(S) : \A k \in Positions(e) :
       Parsed(e.fields[k]) /\ Resolves(S, e.fields[k])
  /\ TablesDiffer(S) => ResolversDiffer(S)

\* The tables' columns.
Definitions(S) == UNION {TableDef(e) : e \in EntityRange(S)}

\* The fields of an entity, and what keeps its struct from compiling.
LEMMA EntitySound ==
  ASSUME NEW d, Shaped(d), Accepted(d), NEW i \in Entities(d)
  PROVE  LET e == ParseEntity(d, d[i])
         IN  /\ \A k \in Positions(e) : /\ Parsed(e.fields[k])
                                        /\ Resolves(ParseSchema(d), e.fields[k])
             /\ StructCompiles(e) <=>
                  \A k, l \in Columned(d[i]) :
                    LET f == d[i].fields[k]
                        g == d[i].fields[l]
                    IN  /\ Snake[f.name] = Snake[g.name] => f.name = g.name
                        /\ Snake[f.name] \notin Keyword
<1> DEFINE e == ParseEntity(d, d[i])
           I == Columned(d[i])
           F == [k \in I |-> ParsedField(d, d[i].fields[k])]
           name(k) == d[i].fields[k].name
<1>1. /\ Positions(e) \subseteq Nat
      /\ \A n \in Positions(e) : Nth(I, n) \in I /\ e.fields[n] = F[Nth(I, n)]
      /\ \A n, m \in Positions(e) : Nth(I, n) = Nth(I, m) => n = m
      /\ \A k \in I : \E n \in Positions(e) : e.fields[n] = F[k]
  BY EntityFacts
<1>2. \A k \in I : /\ Parsed(F[k]) /\ F[k].column = Snake[name(k)] /\ F[k].name = name(k)
                   /\ F[k].kind = "relation" => F[k].of \in NamesOf(d, Entities(d))
  BY FieldFacts
<1>3. \A k, l \in I : name(k) = name(l) => k = l
  <2>1. ASSUME NEW k \in I, NEW l \in I, name(k) = name(l), k < l
        PROVE  FALSE
    <3>1. ~Repeated(d[i].fields, l)
      BY DEF Accepted, Columned
    <3>2. k \in 1..(l-1) /\ Stored(d[i].fields[k])
      BY <2>1 DEF Columned, Shaped, IsSequence, Entities
    <3> QED
      BY <2>1, <3>1, <3>2 DEF Repeated
  <2>2. \A k, l \in I : k < l \/ l < k \/ k = l
    BY DEF Columned, Shaped, IsSequence, Entities
  <2> QED
    BY <2>1, <2>2
<1>4. ASSUME NEW k \in I
      PROVE  Resolves(ParseSchema(d), F[k])
  <2> SUFFICES ASSUME F[k].kind = "relation"
               PROVE  \E g \in EntityRange(ParseSchema(d)) : \E n \in Positions(g) :
                        LET id == g.fields[n]
                        IN  /\ g.name = F[k].of
                            /\ id.is_id /\ ~id.nullable
                            /\ IsScalar(id, {"ID"}) => PgType(id) = PgType(F[k])
    BY DEF Resolves
  <2>1. PICK j \in Entities(d) : d[j].name = F[k].of
    BY <1>2 DEF NamesOf
  <2>2. PICK l \in Columned(d[j]) : d[j].fields[l].name = "id"
    BY DEF Accepted, HasId, Columned
  <2> DEFINE g == ParseEntity(d, d[j])
             h == ParsedField(d, d[j].fields[l])
  <2>3. Parsed(h) /\ h.is_id
    BY <2>2, FieldFacts
  <2>4. g \in EntityRange(ParseSchema(d)) /\ g.name = d[j].name
    BY SchemaFacts, EntityFacts
  <2>5. PICK n \in Positions(g) : g.fields[n] = h
    BY EntityFacts
  <2> HIDE DEF g, h, F
  <2>6. PgType(F[k]) = Text
    BY <1>2 DEF Parsed
  <2>7. IsScalar(h, {"ID"}) => PgType(h) = Text
    BY DEF IsScalar, PgType, Holds, PgScalar, Text
  <2>8. ~h.nullable
    BY <2>3 DEF Parsed
  <2> QED
    BY <2>1, <2>3, <2>4, <2>5, <2>6, <2>7, <2>8
<1> HIDE DEF e, I, F, name
<1>5. \A n \in Positions(e) : Parsed(e.fields[n]) /\ Resolves(ParseSchema(d), e.fields[n])
  BY <1>1, <1>2, <1>4
<1>6. \A n \in Positions(e) : e.fields[n].column = Snake[name(Nth(I, n))]
  BY <1>1, <1>2
<1>7. ASSUME \A k, l \in I : /\ Snake[name(k)] = Snake[name(l)] => name(k) = name(l)
                            /\ Snake[name(k)] \notin Keyword
      PROVE  StructCompiles(e)
  <2>1. \A n, m \in Positions(e) : e.fields[n].column = e.fields[m].column => n = m
    BY <1>1, <1>3, <1>6, <1>7
  <2>2. \A n \in Positions(e) : e.fields[n].column \notin Keyword
    BY <1>1, <1>6, <1>7
  <2> QED
    BY <2>1, <2>2 DEF StructCompiles, Distinct
<1>8. ASSUME StructCompiles(e), NEW k \in I, NEW l \in I
      PROVE  /\ Snake[name(k)] = Snake[name(l)] => name(k) = name(l)
             /\ Snake[name(k)] \notin Keyword
  <2>1. PICK n \in Positions(e) : e.fields[n] = F[k]
    BY <1>1
  <2>2. PICK m \in Positions(e) : e.fields[m] = F[l]
    BY <1>1
  <2>3. /\ F[k].column = Snake[name(k)] /\ F[k].name = name(k)
        /\ F[l].column = Snake[name(l)] /\ F[l].name = name(l)
    BY <1>2
  <2>4. e.fields[n].column = e.fields[m].column => n = m
    BY <1>8 DEF StructCompiles, Distinct
  <2>5. e.fields[n].column \notin Keyword
    BY <1>8 DEF StructCompiles
  <2> QED
    BY <2>1, <2>2, <2>3, <2>4, <2>5
<1>9. StructCompiles(e) <=> \A k, l \in I : /\ Snake[name(k)] = Snake[name(l)] => name(k) = name(l)
                                           /\ Snake[name(k)] \notin Keyword
  BY <1>7, <1>8
<1> QED
  BY <1>5, <1>9 DEF e, I, name

\* A document that parse_schema accepts becomes a sound schema, whose files compile if
\* and only if its names do not clash.
LEMMA ParsedIsSound ==
  ASSUME NEW d \in Documents, Shaped(d), ParseError(d) = None
  PROVE  /\ Sound(ParseSchema(d))
         /\ EntitiesCompile(ParseSchema(d)) /\ GraphqlCompiles(ParseSchema(d))
            <=> RustNamesDiffer(d)
<1> DEFINE S == ParseSchema(d)
           I == Entities(d)
           J == Enums(d)
           Apart(i) == \A k, l \in Columned(d[i]) :
                         LET f == d[i].fields[k]
                             g == d[i].fields[l]
                         IN  /\ Snake[f.name] = Snake[g.name] => f.name = g.name
                             /\ Snake[f.name] \notin Keyword
<1>0. Accepted(d)
  BY ParsedIsAccepted
<1>1. /\ \A n \in DOMAIN S.entities : n \in Nat /\ 1..n \subseteq DOMAIN S.entities
      /\ \A n \in DOMAIN S.entities :
           Nth(I, n) \in I /\ S.entities[n] = ParseEntity(d, d[Nth(I, n)])
      /\ \A n, m \in DOMAIN S.entities : Nth(I, n) = Nth(I, m) => n = m
      /\ \A i \in I : \E n \in DOMAIN S.entities : Nth(I, n) = i
  BY SchemaFacts
<1>2. /\ \A n \in DOMAIN S.enums :
           /\ Nth(J, n) \in J
           /\ S.enums[n].name = d[Nth(J, n)].name /\ S.enums[n].values = d[Nth(J, n)].fields
      /\ \A n, m \in DOMAIN S.enums : Nth(J, n) = Nth(J, m) => n = m
      /\ \A j \in J : \E n \in DOMAIN S.enums : Nth(J, n) = j
  <2>1. /\ \A n \in DOMAIN S.enums :
             /\ Nth(J, n) \in J
             /\ S.enums[n] = [name |-> d[Nth(J, n)].name, values |-> d[Nth(J, n)].fields]
        /\ \A n, m \in DOMAIN S.enums : Nth(J, n) = Nth(J, m) => n = m
        /\ \A j \in J : \E n \in DOMAIN S.enums : Nth(J, n) = j
    BY SchemaFacts
  <2> HIDE DEF S, J
  <2>2. ASSUME NEW n \in DOMAIN S.enums
        PROVE  S.enums[n].name = d[Nth(J, n)].name /\ S.enums[n].values = d[Nth(J, n)].fields
    <3>1. S.enums[n] = [name |-> d[Nth(J, n)].name, values |-> d[Nth(J, n)].fields]
      BY <2>1
    <3> QED
      BY <3>1
  <2> QED
    BY <2>1, <2>2
<1>3. \A i \in I : LET e == ParseEntity(d, d[i])
                   IN  /\ e.name = d[i].name /\ e.table = TableName[d[i].name]
                       /\ StructCompiles(e) <=> Apart(i)
                       /\ \A k \in Positions(e) : Parsed(e.fields[k]) /\ Resolves(S, e.fields[k])
  BY <1>0, EntityFacts, EntitySound
<1>4. \A i, j \in I : Snake[d[i].name] = Snake[d[j].name] =>
                       TableName[d[i].name] = TableName[d[j].name]
  BY CodegenAssumption
<1>5. RustNamesDiffer(d) <=>
        /\ \A i \in I : Apart(i)
        /\ \A i \in J : \A k, l \in DOMAIN d[i].fields :
             Variant[d[i].fields[k]] = Variant[d[i].fields[l]] => k = l
        /\ \A i \in J, j \in J \cup I : d[i].name = d[j].name => i = j
  BY DEF RustNamesDiffer
<1>6. I \cap J = {}
  BY DEF Entities, Enums
<1> HIDE DEF S, I, J, Apart
<1>7. \A n \in DOMAIN S.entities :
        /\ S.entities[n].name = d[Nth(I, n)].name
        /\ S.entities[n].table = TableName[d[Nth(I, n)].name]
        /\ StructCompiles(S.entities[n]) <=> Apart(Nth(I, n))
  BY <1>1, <1>3
<1>8. \A e \in EntityRange(S) : \A k \in Positions(e) :
        Parsed(e.fields[k]) /\ Resolves(S, e.fields[k])
  BY <1>1, <1>3 DEF EntityRange
<1>9. TablesDiffer(S) => ResolversDiffer(S)
  <2>1. TablesDiffer(S) <=>
          \A n, m \in DOMAIN S.entities : S.entities[n].table = S.entities[m].table => n = m
    BY DEF TablesDiffer, Distinct
  <2>2. ResolversDiffer(S) <=>
          \A n, m \in DOMAIN S.entities :
            Snake[S.entities[n].name] = Snake[S.entities[m].name] => n = m
    BY DEF ResolversDiffer, Distinct
  <2>3. ASSUME NEW n \in DOMAIN S.entities, NEW m \in DOMAIN S.entities,
               Snake[S.entities[n].name] = Snake[S.entities[m].name]
        PROVE  S.entities[n].table = S.entities[m].table
    <3>1. Nth(I, n) \in I /\ Nth(I, m) \in I
      BY <1>1
    <3>2. Snake[d[Nth(I, n)].name] = Snake[d[Nth(I, m)].name]
      BY <1>7, <2>3
    <3> QED
      BY <1>4, <1>7, <3>1, <3>2
  <2> QED
    BY <2>1, <2>2, <2>3
<1>10. (\A e \in EntityRange(S) : StructCompiles(e)) <=> (\A i \in I : Apart(i))
  BY <1>1, <1>7 DEF EntityRange
<1>11. (\A n \in DOMAIN S.enums : EnumCompiles(S.enums[n])) <=>
         \A i \in J : \A k, l \in DOMAIN d[i].fields :
           Variant[d[i].fields[k]] = Variant[d[i].fields[l]] => k = l
  <2>1. \A n \in DOMAIN S.enums :
          EnumCompiles(S.enums[n]) <=>
            \A k, l \in DOMAIN d[Nth(J, n)].fields :
              Variant[d[Nth(J, n)].fields[k]] = Variant[d[Nth(J, n)].fields[l]] => k = l
    BY <1>2 DEF EnumCompiles, Distinct
  <2> QED
    BY <1>2, <2>1
<1>12. /\ \A n, m \in DOMAIN S.enums : S.enums[n].name = S.enums[m].name => n = m
       /\ \A n \in DOMAIN S.enums, e \in EntityRange(S) : S.enums[n].name # e.name
       <=> \A i \in J, j \in J \cup I : d[i].name = d[j].name => i = j
  <2>1. (\A n, m \in DOMAIN S.enums : S.enums[n].name = S.enums[m].name => n = m)
        <=> \A i, j \in J : d[i].name = d[j].name => i = j
    BY <1>2
  <2>2. (\A n \in DOMAIN S.enums, e \in EntityRange(S) : S.enums[n].name # e.name)
        <=> \A i \in J, j \in I : d[i].name # d[j].name
    BY <1>1, <1>2, <1>7 DEF EntityRange
  <2> QED
    BY <1>6, <2>1, <2>2
<1>13. EntitiesCompile(S) <=>
         /\ \A e \in EntityRange(S) : StructCompiles(e)
         /\ \A n \in DOMAIN S.enums : EnumCompiles(S.enums[n])
         /\ \A n, m \in DOMAIN S.enums : S.enums[n].name = S.enums[m].name => n = m
         /\ \A n \in DOMAIN S.enums, e \in EntityRange(S) : S.enums[n].name # e.name
  <2>1. Distinct([i \in DOMAIN S.enums |-> S.enums[i].name], DOMAIN S.enums) <=>
          \A n, m \in DOMAIN S.enums : S.enums[n].name = S.enums[m].name => n = m
    BY DEF Distinct
  <2>2. {S.enums[i].name : i \in DOMAIN S.enums} \cap {e.name : e \in EntityRange(S)} = {} <=>
          \A n \in DOMAIN S.enums, e \in EntityRange(S) : S.enums[n].name # e.name
    OBVIOUS
  <2> QED
    BY <2>1, <2>2 DEF EntitiesCompile
<1>14. EntitiesCompile(S) /\ GraphqlCompiles(S) <=> RustNamesDiffer(d)
  BY <1>5, <1>10, <1>11, <1>12, <1>13 DEF GraphqlCompiles
<1>15. Sound(S)
  BY <1>1, <1>8, <1>9 DEF Sound
<1> QED
  BY <1>14, <1>15 DEF S

\* Where none of its tables is there yet, the script leaves all of them, each entity
\* its own, and if the structs compile it runs.
LEMMA ScriptCreates ==
  ASSUME NEW S, Sound(S), TablesDiffer(S), NEW columns,
         \A e \in EntityRange(S) : e.table \notin TablesOf(columns)
  PROVE  /\ Created(S, columns) = Definitions(S)
         /\ (\A e \in EntityRange(S) : StructCompiles(e)) => ScriptRuns(S, columns)
<1>1. {n \in DOMAIN S.entities :
         /\ S.entities[n].table \notin TablesOf(columns)
         /\ \A m \in 1..(n-1) : S.entities[m].table # S.entities[n].table} = DOMAIN S.entities
  <2>1. ASSUME NEW n \in DOMAIN S.entities, NEW m \in 1..(n-1)
        PROVE  S.entities[m].table # S.entities[n].table
    <3>1. m \in DOMAIN S.entities /\ m # n
      BY DEF Sound
    <3> QED
      BY <3>1 DEF TablesDiffer, Distinct
  <2> QED
    BY <2>1 DEF EntityRange
<1>2. Created(S, columns) = Definitions(S)
  BY <1>1 DEF Created, Definitions, EntityRange
<1>3. ASSUME NEW e \in EntityRange(S), NEW c \in Indexed(e)
      PROVE  \E x \in Migrated(S, columns) : x.table = e.table /\ x.column = c
  <2>1. PICK k \in Positions(e) : c = e.fields[k].column
    BY <1>3 DEF Indexed
  <2>2. ColumnDef(e, e.fields[k]) \in Migrated(S, columns)
    BY <1>2 DEF Migrated, Definitions, TableDef
  <2> QED
    BY <2>1, <2>2 DEF ColumnDef
<1> QED
  BY <1>2, <1>3 DEF ScriptRuns, StructCompiles

-----------------------------------------------------------------------------
(* The type invariant.                                                     *)

Typed ==
  /\ TypeOK
  /\ doc \in Documents
  /\ handlers \in Seq(Handlers) /\ handlers # <<>>
  /\ bin # None => bin.handlers \in Seq(Handlers) /\ bin.handlers # <<>>
  /\ phase \in {"migrating", "running"} => bin # None
  /\ DOMAIN project = Paths
  /\ phase = "new" => step \in DOMAIN ScaffoldFiles

LEMMA OutputFacts ==
  /\ Len(Outputs) = 3 /\ DOMAIN Outputs = 1..3
  /\ \A i \in 1..3 : Outputs[i] \in Files
  /\ \A f \in Files : \E i \in 1..3 : f = Outputs[i]
  /\ {"entities.rs", "0001_schema.sql", "graphql.rs"} \subseteq Files
<1>1. Len(Outputs) = 3 /\ DOMAIN Outputs = 1..3
  BY DEF Outputs
<1>2. Outputs[1] = "entities.rs" /\ Outputs[2] = "0001_schema.sql" /\ Outputs[3] = "graphql.rs"
  BY DEF Outputs
<1> QED
  BY <1>1, <1>2 DEF Files

LEMMA ScaffoldFacts ==
  /\ Len(ScaffoldFiles) = 9 /\ DOMAIN ScaffoldFiles = 1..9
  /\ \A i \in 1..9 : ScaffoldFiles[i] \in Paths
  /\ \A p \in Paths : \E i \in 1..9 : p = ScaffoldFiles[i]
<1>1. Len(ScaffoldFiles) = 9 /\ DOMAIN ScaffoldFiles = 1..9
  BY DEF ScaffoldFiles
<1> QED
  BY <1>1 DEF Paths

LEMMA InitTyped == Init => Typed
<1> SUFFICES ASSUME Init PROVE Typed
  OBVIOUS
<1>1. TypeOK /\ doc \in Documents /\ DOMAIN project = Paths /\ bin = None
  BY DEF Init, TypeOK, Documents
<1>2. handlers \in Seq(Handlers) /\ handlers # <<>>
  BY CodegenAssumption DEF Init
<1>3. phase \in {"new", "idle"} /\ step \in DOMAIN ScaffoldFiles
  BY ScaffoldFacts DEF Init
<1> QED
  BY <1>1, <1>2, <1>3 DEF Typed

\* Appending the generated handler, and a handler to start with.
LEMMA HandlerFacts ==
  ASSUME NEW hs \in Seq(Handlers), hs # <<>>
  PROVE  /\ Append(hs, "generated") \in Seq(Handlers) /\ Append(hs, "generated") # <<>>
         /\ <<"generated">> \in Seq(Handlers) /\ <<"generated">> # <<>>
         /\ DOMAIN hs = 1..Len(hs) /\ Len(hs) \in Nat /\ 1 \in DOMAIN hs
         /\ \A i \in DOMAIN hs : hs[i] \in Handlers
         /\ \A i \in DOMAIN hs : i # Len(hs) => i + 1 \in DOMAIN hs
<1>1. "generated" \in Handlers
  BY DEF Handlers
<1> QED
  BY <1>1

LEMMA NextTyped == Typed /\ [Next]_vars => Typed'
<1> SUFFICES ASSUME Typed, [Next]_vars PROVE Typed'
  OBVIOUS
<1>a. TypeOK
  BY DEF Typed
<1>1. CASE RefuseNew
  BY <1>1 DEF RefuseNew, rest, Typed, TypeOK
<1>2. CASE Scaffold
  <2>1. /\ DOMAIN project' = Paths
        /\ phase' = "new" => step' \in DOMAIN ScaffoldFiles
    BY <1>2, ScaffoldFacts DEF Scaffold, Typed
  <2>2. phase' \in {"new", "idle"}
    BY <1>2 DEF Scaffold
  <2> QED
    BY <1>2, <2>1, <2>2 DEF Scaffold, rest, Typed, TypeOK
<1>3. CASE ScaffoldFails
  BY <1>3, ScaffoldFacts DEF ScaffoldFails, rest, Typed, TypeOK
<1>4. CASE BeginGenerate
  BY <1>4, OutputFacts DEF BeginGenerate, Typed, TypeOK
<1>5. CASE RefuseSchema
  BY <1>5 DEF RefuseSchema, Typed, TypeOK
<1>6. CASE WriteFile
  <2>1. phase' = "writing" => step' \in DOMAIN Outputs /\ ~whole'
    BY <1>6, OutputFacts DEF WriteFile, Typed, TypeOK
  <2>2. phase' \in {"writing", "idle"} /\ DOMAIN files' = Files
    BY <1>6 DEF WriteFile, Typed, TypeOK
  <2> QED
    BY <1>6, <2>1, <2>2 DEF WriteFile, Typed, TypeOK
<1>7. CASE WriteFails
  BY <1>7 DEF WriteFails, Typed, TypeOK
<1>8. CASE Edit
  BY <1>8 DEF Edit, Typed, TypeOK, Documents
<1>9. CASE Adopt
  <2>1. handlers' \in Seq(Handlers) /\ handlers' # <<>>
    BY <1>9, HandlerFacts DEF Adopt, Typed
  <2> QED
    BY <1>9, <2>1 DEF Adopt, Typed, TypeOK
<1>10. CASE Build
  <2>1. bin' # None => bin'.handlers \in Seq(Handlers) /\ bin'.handlers # <<>>
    BY <1>10 DEF Build, Typed
  <2> QED
    BY <1>10, <2>1 DEF Build, Typed, TypeOK
<1>11. CASE Reset
  BY <1>11 DEF Reset, Typed, TypeOK
<1>12. CASE Start
  <2>1. step' \in DOMAIN bin'.handlers
    BY <1>12, HandlerFacts DEF Start, Typed
  <2> QED
    BY <1>12, <2>1 DEF Start, Typed, TypeOK
<1>13. CASE MigrateHandler
  <2>1. phase' = "migrating" => step' \in DOMAIN bin'.handlers
    BY <1>13, HandlerFacts DEF MigrateHandler, Typed, TypeOK
  <2> QED
    BY <1>13, <2>1 DEF MigrateHandler, Typed, TypeOK
<1>14. CASE RefuseStart
  BY <1>14 DEF RefuseStart, Typed, TypeOK
<1>15. CASE Stop
  BY <1>15 DEF Stop, Typed, TypeOK
<1>16. CASE UNCHANGED vars
  BY <1>16 DEF vars, Typed, TypeOK
<1> QED
  BY <1>1, <1>2, <1>3, <1>4, <1>5, <1>6, <1>7, <1>8, <1>9, <1>10, <1>11, <1>12, <1>13,
     <1>14, <1>15, <1>16 DEF Next

LEMMA AlwaysTyped == Spec => []Typed
BY InitTyped, NextTyped, PTL DEF Spec

\* Every command, start and failure finds the project in a shape it knows.
THEOREM CodegenTyped == Spec => []TypeOK
<1>1. Typed => TypeOK
  BY DEF Typed
<1> QED
  BY <1>1, AlwaysTyped, PTL

\* A refused document is reported by its error.
LEMMA RefusalNames == Typed /\ RefuseSchema => report' \in ErrorKinds
<1> SUFFICES ASSUME Typed, RefuseSchema PROVE report' \in ErrorKinds
  OBVIOUS
<1>1. Shaped(doc)
  BY DocumentFacts DEF Typed
<1>2. ParseError(doc) # None => ParseError(doc) \in ErrorKinds
  BY <1>1, ErrorMet
<1> QED
  BY <1>2 DEF RefuseSchema

-----------------------------------------------------------------------------
(* subdex-codegen new.                                                     *)

\* Once `new` has begun to write, the directory is its own.
Scaffolding ==
  phase = "new" /\ step > 1 =>
    /\ \A p \in Paths : project[p] # "user"
    /\ \A i \in 1..(step-1) : project[ScaffoldFiles[i]] = "scaffold"

LEMMA NextScaffolding == Typed /\ Scaffolding /\ [Next]_vars => Scaffolding'
<1> SUFFICES ASSUME Typed, Scaffolding, [Next]_vars, phase' = "new", step' > 1
             PROVE  /\ \A p \in Paths : project'[p] # "user"
                    /\ \A i \in 1..(step'-1) : project'[ScaffoldFiles[i]] = "scaffold"
  BY DEF Scaffolding
<1>1. CASE Scaffold
  <2>1. step \in 1..9 /\ step' = step + 1 /\ DOMAIN project = Paths
    BY <1>1, ScaffoldFacts DEF Scaffold, Typed
  <2>2. project' = [project EXCEPT ![ScaffoldFiles[step]] = "scaffold"]
    BY <1>1 DEF Scaffold
  <2>3. \A p \in Paths : project[p] # "user"
    <3>1. CASE step = 1
      BY <1>1, <3>1 DEF Scaffold
    <3>2. CASE step > 1
      BY <1>1, <3>2 DEF Scaffold, Scaffolding
    <3> QED
      BY <2>1, <3>1, <3>2
  <2>4. \A i \in 1..(step-1) : project[ScaffoldFiles[i]] = "scaffold"
    <3>1. CASE step = 1
      BY <3>1
    <3>2. CASE step > 1
      BY <1>1, <3>2 DEF Scaffold, Scaffolding
    <3> QED
      BY <2>1, <3>1, <3>2
  <2>5. \A i \in 1..step : ScaffoldFiles[i] \in Paths
    BY <2>1, ScaffoldFacts
  <2>6. \A i \in 1..step : i = step \/ i \in 1..(step-1)
    BY <2>1
  <2>7. step' - 1 = step
    BY <2>1
  <2>8. \A i \in 1..step : project'[ScaffoldFiles[i]] = "scaffold"
    BY <2>1, <2>2, <2>4, <2>5, <2>6
  <2>9. \A p \in Paths : project'[p] # "user"
    BY <2>1, <2>2, <2>3
  <2> QED
    BY <2>7, <2>8, <2>9
<1>2. CASE ScaffoldFails
  BY <1>2 DEF ScaffoldFails
<1>3. CASE UNCHANGED vars
  BY <1>3 DEF Scaffolding, vars
<1>4. CASE ~Scaffold /\ ~ScaffoldFails /\ Next
  <2>1. phase' # "new"
    BY <1>4, Zenon DEF Next, RefuseNew, BeginGenerate, RefuseSchema, WriteFile, WriteFails, Edit,
       Adopt, Build, Reset, Start, MigrateHandler, RefuseStart, Stop
  <2> QED
    BY <2>1
<1> QED
  BY <1>1, <1>2, <1>3, <1>4

\* `new` never writes over a file of the developer's, and what it reports as
\* scaffolded is the whole project, after any number of failed attempts.
THEOREM ScaffoldsWhole == Spec => NewNeverClobbers
<1>1. Init => Scaffolding
  BY DEF Init, Scaffolding
<1>2. Spec => []Scaffolding
  BY <1>1, AlwaysTyped, NextScaffolding, PTL DEF Spec
<1> DEFINE NoneClobbered ==
             /\ \A p \in Paths : project[p] = "user" => project'[p] = "user"
             /\ report' = "scaffolded" /\ report # report' =>
                  \A p \in Paths : project'[p] = "scaffold"
<1>3. ASSUME Typed, Scaffolding, [Next]_vars
      PROVE  [NoneClobbered]_vars
  <2>1. CASE Scaffold
    <3>1. step \in 1..9 /\ DOMAIN project = Paths
      BY <1>3, <2>1, ScaffoldFacts DEF Scaffold, Typed
    <3>2. project' = [project EXCEPT ![ScaffoldFiles[step]] = "scaffold"]
      BY <2>1 DEF Scaffold
    <3>3. \A p \in Paths : project[p] # "user"
      <4>1. CASE step = 1
        BY <2>1, <4>1 DEF Scaffold
      <4>2. CASE step > 1
        BY <1>3, <2>1, <4>2 DEF Scaffold, Scaffolding
      <4> QED
        BY <3>1, <4>1, <4>2
    <3>4. ASSUME report' = "scaffolded", report # report', NEW p \in Paths
          PROVE  project'[p] = "scaffold"
      <4>1. step = 9
        BY <2>1, <3>4, ScaffoldFacts DEF Scaffold
      <4>2. \A i \in 1..(step-1) : project[ScaffoldFiles[i]] = "scaffold"
        BY <1>3, <2>1, <4>1 DEF Scaffold, Scaffolding
      <4>3. PICK i \in 1..9 : p = ScaffoldFiles[i]
        BY ScaffoldFacts
      <4>4. i = step \/ i \in 1..(step-1)
        BY <4>1
      <4> QED
        BY <3>1, <3>2, <4>2, <4>3, <4>4
    <3> QED
      BY <3>3, <3>4
  <2>2. CASE UNCHANGED vars
    BY <2>2
  <2>3. CASE ~Scaffold /\ Next
    <3>1. project' = project
      BY <2>3, Zenon DEF Next, RefuseNew, ScaffoldFails, BeginGenerate, RefuseSchema, WriteFile,
         WriteFails, Edit, Adopt, Build, Reset, Start, MigrateHandler, RefuseStart, Stop
    <3>2. report' = "scaffolded" => report = report'
      <4>1. RefuseSchema => report' # "scaffolded"
        <5>1. RefuseSchema => report' \in ErrorKinds
          BY <1>3, RefusalNames
        <5> QED
          BY <5>1 DEF ErrorKinds
      <4>2. Next /\ ~Scaffold /\ ~RefuseSchema /\ report' = "scaffolded" => report = report'
        BY DEF Next, RefuseNew, rest, ScaffoldFails, BeginGenerate, WriteFile, WriteFails, Edit,
           Adopt, Build, Reset, Start, MigrateHandler, RefuseStart, Stop
      <4> QED
        BY <2>3, <4>1, <4>2
    <3> QED
      BY <3>1, <3>2
  <2> QED
    BY <1>3, <2>1, <2>2, <2>3
<1>4. Spec => [][NoneClobbered]_vars
  BY <1>2, <1>3, AlwaysTyped, PTL DEF Spec
<1> QED
  BY <1>4 DEF NewNeverClobbers

-----------------------------------------------------------------------------
(* generate and cargo build.                                               *)

Rendered(S) == \E d \in Documents : ParseError(d) = None /\ S = ParseSchema(d)

\* The files, and those in the binary, were rendered from accepted documents; of
\* one run that wrote them all, from one document.
Renders ==
  /\ \A f \in Files : files[f] = None \/ Rendered(files[f])
  /\ phase = "writing" =>
       /\ ParseError(doc) = None
       /\ \A i \in 1..(step-1) : files[Outputs[i]] = ParseSchema(doc)
  /\ whole => ParseError(doc) = None /\ \A f \in Files : files[f] = ParseSchema(doc)
  /\ bin # None =>
       /\ \A f \in Files : bin.files[f] = None \/ Rendered(bin.files[f])
       /\ bin.whole => \A f, g \in Files : bin.files[f] = bin.files[g]
       /\ Uses(bin.handlers) => /\ \A f \in Files : bin.files[f] # None
                                /\ EntitiesCompile(bin.files["entities.rs"])

LEMMA NextRenders == Typed /\ Renders /\ [Next]_vars => Renders'
<1> SUFFICES ASSUME Typed, Renders, [Next]_vars PROVE Renders'
  OBVIOUS
<1>1. CASE BeginGenerate
  BY <1>1 DEF BeginGenerate, Renders
<1>2. CASE WriteFile
  <2>1. /\ step \in 1..3 /\ step' = step + 1 /\ ParseError(doc) = None
        /\ \A i \in 1..(step-1) : files[Outputs[i]] = ParseSchema(doc)
    BY <1>2, OutputFacts DEF WriteFile, Renders, Typed, TypeOK
  <2>2. files' = [files EXCEPT ![Outputs[step]] = ParseSchema(doc)] /\ DOMAIN files = Files
    BY <1>2 DEF WriteFile, Typed, TypeOK
  <2>3. /\ UNCHANGED <<doc, bin>> /\ ~whole
        /\ IF step = 3 THEN phase' = "idle" ELSE phase' = "writing" /\ whole' = whole
    BY <1>2, OutputFacts DEF WriteFile, Typed, TypeOK
  <2>4. Rendered(ParseSchema(doc))
    BY <2>1 DEF Rendered, Typed
  <2>5. \A f \in Files : files'[f] = None \/ Rendered(files'[f])
    BY <2>2, <2>4 DEF Renders
  <2>6. \A i \in 1..step : files'[Outputs[i]] = ParseSchema(doc)
    <3>1. \A i \in 1..step : i \in 1..3 /\ (i = step \/ i \in 1..(step-1))
      BY <2>1
    <3>2. \A i \in 1..step : Outputs[i] \in Files
      BY <3>1, OutputFacts
    <3> QED
      BY <2>1, <2>2, <3>1, <3>2
  <2>7. step = 3 => \A f \in Files : files'[f] = ParseSchema(doc)
    BY <2>6, OutputFacts
  <2>8. step' - 1 = step
    BY <2>1
  <2>9. phase' = "writing" => /\ ParseError(doc') = None
                              /\ \A i \in 1..(step'-1) : files'[Outputs[i]] = ParseSchema(doc')
    BY <2>1, <2>3, <2>6, <2>8
  <2>10. whole' => ParseError(doc') = None /\ \A f \in Files : files'[f] = ParseSchema(doc')
    BY <2>1, <2>3, <2>7
  <2> QED
    BY <2>3, <2>5, <2>9, <2>10 DEF Renders
<1>3. CASE Edit
  BY <1>3 DEF Edit, Renders
<1>4. CASE Build
  <2>1. UNCHANGED <<doc, files, whole, phase, step>> /\ phase = "idle"
    BY <1>4 DEF Build
  <2>2. CASE Compiles
    <3>1. bin' = [files |-> files, whole |-> whole, handlers |-> handlers]
      BY <1>4, <2>2 DEF Build
    <3>2. bin'.files = files /\ bin'.whole = whole /\ bin'.handlers = handlers
      BY <3>1
    <3>3. Uses(handlers) => /\ \A f \in Files : files[f] # None
                            /\ EntitiesCompile(files["entities.rs"])
      BY <2>2 DEF Compiles
    <3> QED
      BY <2>1, <3>2, <3>3 DEF Renders
  <2>3. CASE ~Compiles
    BY <1>4, <2>1, <2>3 DEF Build, Renders
  <2> QED
    BY <2>2, <2>3
<1>5. CASE UNCHANGED vars
  BY <1>5 DEF vars, Renders
<1>6. CASE RefuseNew \/ Scaffold \/ ScaffoldFails \/ RefuseSchema \/ WriteFails \/ Adopt \/ Reset
           \/ Start \/ MigrateHandler \/ RefuseStart \/ Stop
  <2>1. UNCHANGED <<doc, files, whole, bin>>
    BY <1>6, Zenon DEF RefuseNew, Scaffold, ScaffoldFails, rest, RefuseSchema, WriteFails, Adopt, Reset,
       Start, MigrateHandler, RefuseStart, Stop
  <2>2. phase' # "writing"
    BY <1>6 DEF RefuseNew, Scaffold, ScaffoldFails, RefuseSchema, WriteFails, Adopt, Reset,
       Start, MigrateHandler, RefuseStart, Stop
  <2> QED
    BY <2>1, <2>2 DEF Renders
<1> QED
  BY <1>1, <1>2, <1>3, <1>4, <1>5, <1>6 DEF Next

LEMMA AlwaysRenders == Spec => []Renders
<1>1. Init => Renders
  BY DEF Init, Renders
<1> QED
  BY <1>1, AlwaysTyped, NextRenders, PTL DEF Spec

LEMMA RenderedIsSound ==
  ASSUME NEW S, Rendered(S)
  PROVE  Sound(S) /\ S \notin {None, Own}
<1>1. PICK d \in Documents : ParseError(d) = None /\ S = ParseSchema(d)
  BY DEF Rendered
<1>2. Shaped(d) /\ ParseSchema(d) \notin {None, Own}
  BY <1>1, DocumentFacts
<1> QED
  BY <1>1, <1>2, ParsedIsSound

LEMMA BinaryIsSound ==
  ASSUME Renders, bin # None, Uses(bin.handlers), NEW f \in Files
  PROVE  Rendered(bin.files[f]) /\ Sound(bin.files[f]) /\ bin.files[f] \notin {None, Own}
<1>1. Rendered(bin.files[f])
  BY DEF Renders
<1> QED
  BY <1>1, RenderedIsSound

\* In every binary, a relation's column holds the id of an entity of the same schema,
\* for every document that parse_schema accepts.
THEOREM RelationsHeld == Spec => []RelationsResolve
<1>1. ASSUME Renders
      PROVE  RelationsResolve
  <2> DEFINE S == bin.files["0001_schema.sql"]
  <2> SUFFICES ASSUME bin # None, Uses(bin.handlers), NEW e \in EntityRange(S),
                      NEW k \in Positions(e), e.fields[k].kind = "relation"
               PROVE  \E d \in EntityRange(S) : \E n \in Positions(d) :
                        LET id == d.fields[n]
                        IN  /\ d.name = e.fields[k].of
                            /\ id.is_id /\ ~id.nullable
                            /\ IsScalar(id, {"ID"}) => PgType(id) = PgType(e.fields[k])
    BY DEF RelationsResolve
  <2>1. Sound(S)
    BY <1>1, BinaryIsSound, OutputFacts
  <2> HIDE DEF S
  <2>2. Resolves(S, e.fields[k])
    BY <2>1 DEF Sound
  <2> QED
    BY <2>2 DEF Resolves
<1> QED
  BY <1>1, AlwaysRenders, PTL

\* Whatever broke off before: the files of a whole run compile if and only if the names
\* of the document do not clash; where each entity has its own table, the migration runs
\* on an empty database and the resolvers have names of their own.
THEOREM AcceptedBuilds == Spec => AcceptedSchemaBuilds
<1> DEFINE Builds ==
      /\ Build /\ whole /\ Uses(handlers) => (report' = "built" <=> RustNamesDiffer(doc))
      /\ RefuseStart /\ TablesDiffer(bin.files["0001_schema.sql"]) => report' # "miscompiled"
      /\ Start /\ bin.whole /\ Uses(bin.handlers) /\ TablesDiffer(bin.files["graphql.rs"]) =>
           ResolversDiffer(bin.files["graphql.rs"])
<1>1. ASSUME Typed, Renders, Build, whole, Uses(handlers)
      PROVE  report' = "built" <=> RustNamesDiffer(doc)
  <2>1. ParseError(doc) = None /\ doc \in Documents /\ Shaped(doc)
    BY <1>1, DocumentFacts DEF Renders, Typed
  <2>2. \A f \in Files : files[f] = ParseSchema(doc) /\ files[f] # None
    BY <1>1, <2>1, DocumentFacts DEF Renders
  <2>3. Compiles <=> RustNamesDiffer(doc)
    BY <1>1, <2>1, <2>2, ParsedIsSound, OutputFacts DEF Compiles
  <2>4. IF Compiles THEN report' = "built" ELSE report' = "miscompiled"
    BY <1>1 DEF Build
  <2> QED
    BY <2>3, <2>4
<1>2. ASSUME Typed, Renders, RefuseStart, TablesDiffer(bin.files["0001_schema.sql"])
      PROVE  report' # "miscompiled"
  <2>1. bin # None /\ step \in DOMAIN bin.handlers
    BY <1>2 DEF RefuseStart, Typed, TypeOK
  <2>2. ASSUME ScriptFails, bin.whole, tables = {}
        PROVE  FALSE
    <3>1. Uses(bin.handlers) /\ Migration = bin.files["0001_schema.sql"]
      BY <2>1, <2>2 DEF ScriptFails, Handler, Uses, Migration
    <3>2. Sound(Migration)
      BY <1>2, <2>1, <3>1, BinaryIsSound, OutputFacts
    <3>3. EntitiesCompile(Migration)
      BY <1>2, <2>1, <2>2, <3>1, OutputFacts DEF Renders
    <3>4. \A e \in EntityRange(Migration) : e.table \notin TablesOf({})
      BY DEF TablesOf
    <3>5. ScriptRuns(Migration, {})
      BY <1>2, <3>1, <3>2, <3>3, <3>4, ScriptCreates DEF EntitiesCompile
    <3> QED
      BY <2>2, <3>5 DEF ScriptFails
  <2>3. Mismatch \/ ScriptFails
    BY <1>2 DEF RefuseStart
  <2>4. report' = IF Mismatch THEN "mismatch"
                  ELSE IF bin.whole /\ tables = {} THEN "miscompiled" ELSE "failed"
    BY <1>2 DEF RefuseStart
  <2> QED
    BY <2>2, <2>3, <2>4
<1>3. ASSUME Renders, Start, Uses(bin.handlers), TablesDiffer(bin.files["graphql.rs"])
      PROVE  ResolversDiffer(bin.files["graphql.rs"])
  <2>1. Sound(bin.files["graphql.rs"])
    BY <1>3, BinaryIsSound, OutputFacts DEF Start
  <2> QED
    BY <1>3, <2>1 DEF Sound
<1>4. Typed /\ Renders => Builds
  BY <1>1, <1>2, <1>3
<1>5. Spec => [][Builds]_vars
  BY <1>4, AlwaysTyped, AlwaysRenders, PTL DEF Spec
<1> QED
  BY <1>5 DEF AcceptedSchemaBuilds

-----------------------------------------------------------------------------
(* The binary's migrations.                                                *)

Tracked == TrackingTable("generated")

\* The generated migration is in the database as a whole or not at all, one version
\* of it; a start that got past the generated handler found, or left, its own.
Applied ==
  /\ DOMAIN applied = DOMAIN Fresh
  /\ applied[Tracked] \in {None, Own} => tables \subseteq HandwrittenColumns
  /\ applied[Tracked] \notin {None, Own} =>
       /\ Rendered(applied[Tracked])
       /\ TablesDiffer(applied[Tracked]) => Definitions(applied[Tracked]) \subseteq tables
       /\ tables \subseteq HandwrittenColumns \cup Definitions(applied[Tracked])
  /\ phase = "migrating" => \A i \in 1..(step-1) :
       bin.handlers[i] = "generated" => applied[Tracked] = bin.files["0001_schema.sql"]
  /\ phase = "running" => \A i \in DOMAIN bin.handlers :
       bin.handlers[i] = "generated" => applied[Tracked] = bin.files["0001_schema.sql"]

LEMMA TrackedFacts ==
  /\ Tracked \in DOMAIN Fresh /\ Fresh[Tracked] = None
  /\ \A h \in Handlers : TrackingTable(h) \in DOMAIN Fresh
BY CodegenAssumption DEF Tracked, Fresh, Handlers

\* One handler's migration leaves the tables and their record in step.
LEMMA MigratesWhole ==
  ASSUME OwnTablesApart, Typed, Renders, Applied, MigrateHandler
  PROVE  /\ applied'[Tracked] \in {None, Own} => tables' \subseteq HandwrittenColumns
         /\ applied'[Tracked] \notin {None, Own} =>
              /\ Rendered(applied'[Tracked])
              /\ TablesDiffer(applied'[Tracked]) => Definitions(applied'[Tracked]) \subseteq tables'
              /\ tables' \subseteq HandwrittenColumns \cup Definitions(applied'[Tracked])
         /\ \A i \in 1..step :
              bin.handlers[i] = "generated" => applied'[Tracked] = bin.files["0001_schema.sql"]
<1> DEFINE h == bin.handlers[step]
           S == bin.files["0001_schema.sql"]
<1>1. bin # None /\ step \in DOMAIN bin.handlers /\ h \in Handlers /\ step \in Nat \ {0}
  <2>1. bin # None /\ step \in DOMAIN bin.handlers
    BY DEF MigrateHandler, Typed, TypeOK
  <2>2. bin.handlers \in Seq(Handlers) /\ bin.handlers # <<>>
    BY <2>1 DEF Typed
  <2> QED
    BY <2>1, <2>2, HandlerFacts
<1>2. applied' = [applied EXCEPT ![TrackingTable(h)] = Migration] /\ tables' = Columns
  BY DEF MigrateHandler, Table, Handler
<1>3. DOMAIN applied = DOMAIN Fresh /\ TrackingTable(h) \in DOMAIN Fresh /\ Tracked \in DOMAIN Fresh
  BY <1>1, TrackedFacts DEF Applied
<1>4. applied[TrackingTable(h)] \in {None, Migration}
  BY DEF MigrateHandler, Mismatch, Table, Handler
<1>5. \A i \in 1..step : i = step \/ i \in 1..(step-1)
  BY <1>1
<1>6. \A i \in 1..(step-1) : bin.handlers[i] = "generated" => applied[Tracked] = S
  BY DEF Applied, MigrateHandler
<1>7. CASE h = "generated"
  <2>1. Migration = S /\ TrackingTable(h) = Tracked
    BY <1>7 DEF Migration, Handler, Tracked
  <2>2. Rendered(S) /\ Sound(S) /\ S \notin {None, Own}
    BY <1>1, <1>7, BinaryIsSound, OutputFacts DEF Uses
  <2>3. applied'[Tracked] = S
    BY <1>2, <1>3, <2>1
  <2>4. CASE applied[Tracked] = None
    <3>1. tables \subseteq HandwrittenColumns
      BY <2>4 DEF Applied
    <3>2. \A e \in EntityRange(S) : e.table \notin TablesOf(HandwrittenColumns)
      BY <2>2 DEF Rendered, OwnTablesApart
    <3>3. \A e \in EntityRange(S) : e.table \notin TablesOf(tables)
      BY <3>1, <3>2 DEF TablesOf
    <3>4. /\ TablesDiffer(S) => Created(S, tables) = Definitions(S)
          /\ Created(S, tables) \subseteq Definitions(S)
      BY <2>2, <3>3, ScriptCreates DEF Created, Definitions, EntityRange
    <3>5. tables' = tables \cup Created(S, tables)
      BY <1>2, <1>7, <2>1, <2>4 DEF Columns, Handler, Table, Migrated
    <3> QED
      BY <2>2, <2>3, <3>1, <3>4, <3>5
  <2>5. CASE applied[Tracked] = S
    <3>1. tables' = tables
      BY <1>2, <1>7, <2>1, <2>2, <2>5 DEF Columns, Handler, Table
    <3> QED
      BY <2>2, <2>3, <2>5, <3>1 DEF Applied
  <2> QED
    BY <1>4, <2>1, <2>4, <2>5
<1>8. CASE h # "generated"
  <2>1. Migration = Own /\ h \in DOMAIN OwnColumns
    BY <1>1, <1>8, CodegenAssumption DEF Migration, Handler
  <2>2. tables \subseteq tables' /\ tables' \subseteq tables \cup HandwrittenColumns
    BY <1>1, <1>2, <1>8, <2>1 DEF Columns, Handler, HandwrittenColumns
  <2>3. \A i \in 1..(step-1) : bin.handlers[i] = "generated" => applied[Tracked] \notin {None, Own}
    <3>1. ASSUME NEW i \in 1..(step-1), bin.handlers[i] = "generated"
          PROVE  S \notin {None, Own}
      <4>1. i \in DOMAIN bin.handlers
        BY <1>1, HandlerFacts DEF Typed
      <4> QED
        BY <1>1, <3>1, <4>1, BinaryIsSound, OutputFacts DEF Uses
    <3> QED
      BY <1>6, <3>1
  <2>4. CASE TrackingTable(h) = Tracked
    <3>1. applied'[Tracked] = Own /\ applied[Tracked] \in {None, Own}
      BY <1>2, <1>3, <1>4, <2>1, <2>4
    <3>2. tables' \subseteq HandwrittenColumns
      BY <2>2, <3>1 DEF Applied
    <3> QED
      BY <1>5, <1>8, <2>3, <3>1, <3>2
  <2>5. CASE TrackingTable(h) # Tracked
    <3>1. applied'[Tracked] = applied[Tracked]
      BY <1>2, <1>3, <2>5
    <3> QED
      BY <1>5, <1>6, <1>8, <2>2, <3>1 DEF Applied
  <2> QED
    BY <2>4, <2>5
<1> QED
  BY <1>7, <1>8

LEMMA NextApplied ==
  ASSUME OwnTablesApart
  PROVE  Typed /\ Renders /\ Applied /\ [Next]_vars => Applied'
<1> SUFFICES ASSUME Typed, Renders, Applied, [Next]_vars PROVE Applied'
  OBVIOUS
<1>1. CASE MigrateHandler
  <2>1. bin # None /\ step \in DOMAIN bin.handlers
    BY <1>1 DEF MigrateHandler, Typed, TypeOK
  <2>2. DOMAIN bin.handlers = 1..Len(bin.handlers) /\ Len(bin.handlers) \in Nat
    BY <2>1, HandlerFacts DEF Typed
  <2>3. /\ bin' = bin /\ step' = step + 1 /\ DOMAIN applied' = DOMAIN applied
        /\ IF step = Len(bin.handlers) THEN phase' = "running" ELSE phase' = "migrating"
    BY <1>1 DEF MigrateHandler
  <2>4. step' - 1 = step
    BY <2>1, <2>2, <2>3
  <2>5. \A i \in 1..step :
          bin.handlers[i] = "generated" => applied'[Tracked] = bin.files["0001_schema.sql"]
    BY <1>1, MigratesWhole
  <2>6. phase' = "running" => DOMAIN bin.handlers = 1..step
    BY <2>2, <2>3
  <2>7. /\ phase' = "migrating" => \A i \in 1..(step'-1) :
             bin'.handlers[i] = "generated" => applied'[Tracked] = bin'.files["0001_schema.sql"]
        /\ phase' = "running" => \A i \in DOMAIN bin'.handlers :
             bin'.handlers[i] = "generated" => applied'[Tracked] = bin'.files["0001_schema.sql"]
    BY <2>3, <2>4, <2>5, <2>6
  <2>8. DOMAIN applied' = DOMAIN Fresh
    BY <2>3 DEF Applied
  <2> QED
    BY <1>1, <2>7, <2>8, MigratesWhole DEF Applied
<1>2. CASE Reset
  BY <1>2, TrackedFacts DEF Reset, Applied
<1>3. CASE Start
  <2>1. phase' = "migrating" /\ step' = 1 /\ UNCHANGED <<tables, applied, bin>>
    BY <1>3 DEF Start
  <2> QED
    BY <2>1 DEF Applied
<1>4. CASE UNCHANGED vars
  BY <1>4 DEF vars, Applied
<1>5. CASE RefuseNew \/ Scaffold \/ ScaffoldFails \/ BeginGenerate \/ RefuseSchema \/ WriteFile
           \/ WriteFails \/ Edit \/ Adopt \/ Build \/ RefuseStart \/ Stop
  <2>1. UNCHANGED <<tables, applied>>
    BY <1>5, Zenon DEF RefuseNew, Scaffold, ScaffoldFails, rest, BeginGenerate, RefuseSchema, WriteFile,
       WriteFails, Edit, Adopt, Build, RefuseStart, Stop
  <2>2. phase' \notin {"migrating", "running"}
    BY <1>5 DEF RefuseNew, Scaffold, ScaffoldFails, BeginGenerate, RefuseSchema, WriteFile,
       WriteFails, Edit, Adopt, Build, RefuseStart, Stop
  <2> QED
    BY <2>1, <2>2 DEF Applied
<1> QED
  BY <1>1, <1>2, <1>3, <1>4, <1>5 DEF Next

LEMMA AlwaysApplied ==
  ASSUME OwnTablesApart
  PROVE  Spec => []Applied
<1>1. Init => Applied
  BY TrackedFacts DEF Init, Applied
<1> QED
  BY <1>1, AlwaysTyped, AlwaysRenders, NextApplied, PTL DEF Spec

\* In its own tables, whatever others there are, an entity's upsert and resolver fit if
\* and only if all of its fields are cast.
LEMMA SoundFits ==
  ASSUME NEW S, Sound(S), TablesDiffer(S), NEW own, NEW columns,
         Definitions(S) \subseteq columns, columns \subseteq own \cup Definitions(S),
         \A e \in EntityRange(S) : e.table \notin TablesOf(own),
         NEW e \in EntityRange(S), StructCompiles(e)
  PROVE  /\ UpsertFits(e, columns) <=> \A k \in Positions(e) : Upserted(e.fields[k])
         /\ ReadFits(e, columns) <=> \A k \in Positions(e) : Served(e.fields[k])
<1>1. ASSUME NEW c \in columns, c.table = e.table
      PROVE  \E k \in Positions(e) : c = ColumnDef(e, e.fields[k])
  <2>1. c \notin own
    BY <1>1 DEF TablesOf
  <2>2. PICK g \in EntityRange(S) : c \in TableDef(g)
    BY <2>1 DEF Definitions
  <2>3. PICK k \in Positions(g) : c = ColumnDef(g, g.fields[k])
    BY <2>2 DEF TableDef
  <2>4. c.table = g.table
    BY <2>3 DEF ColumnDef
  <2>5. g = e
    BY <1>1, <2>4 DEF TablesDiffer, Distinct, EntityRange
  <2> QED
    BY <2>3, <2>5
<1>2. ASSUME NEW k \in Positions(e), NEW type
      PROVE  (\E c \in columns : c.table = e.table /\ c.column = e.fields[k].column /\ c.type = type)
             <=> type = PgType(e.fields[k])
  <2>1. ColumnDef(e, e.fields[k]) \in columns
    BY DEF Definitions, TableDef
  <2>2. \A n \in Positions(e) : /\ ColumnDef(e, e.fields[n]).table = e.table
                                /\ ColumnDef(e, e.fields[n]).column = e.fields[n].column
                                /\ ColumnDef(e, e.fields[n]).type = PgType(e.fields[n])
    BY DEF ColumnDef
  <2>3. \A n \in Positions(e) : e.fields[n].column = e.fields[k].column => n = k
    BY DEF StructCompiles, Distinct
  <2> QED
    BY <1>1, <2>1, <2>2, <2>3
<1>3. \A k \in Positions(e) :
        LET f == e.fields[k]
        IN  /\ Placeholder(f) = PgType(f) <=> Upserted(f)
            /\ /\ GqlType(f).list = SelectType(f).list
               /\ <<GqlType(f).of, SelectType(f).of>> \in Carries
               <=> (f.kind = "list" => f.of \notin {"BigInt", "JSON"})
  BY FieldTypes DEF Sound
<1>4. \A c \in columns : c.table = e.table =>
        \E k \in Positions(e) : e.fields[k].column = c.column
  BY <1>1 DEF ColumnDef
<1>5. UpsertFits(e, columns) <=> \A k \in Positions(e) : Upserted(e.fields[k])
  <2>1. \A k \in Positions(e) :
          (\E c \in columns : /\ c.table = e.table /\ c.column = e.fields[k].column
                              /\ c.type = Placeholder(e.fields[k]))
          <=> Upserted(e.fields[k])
    BY <1>2, <1>3
  <2> QED
    BY <1>4, <2>1 DEF UpsertFits
<1>6. ReadFits(e, columns) <=> \A k \in Positions(e) : Served(e.fields[k])
  <2>1. \A k \in Positions(e) :
          \E c \in columns : /\ c.table = e.table /\ c.column = e.fields[k].column
                             /\ c.type = PgType(e.fields[k])
    BY <1>2
  <2> QED
    BY <1>3, <2>1 DEF ReadFits, Served
<1> QED
  BY <1>5, <1>6

\* A process that got past its migrations writes and reads its entities, but for those
\* with a field that is not cast, whichever binary created the tables, wherever generate,
\* build or migrations broke off, if no handwritten table has an entity's name.
THEOREM RunningFits ==
  ASSUME OwnTablesApart
  PROVE  Spec => []RunningFitsTables
<1>1. ASSUME Typed, Renders, Applied, phase = "running", bin.whole, Uses(bin.handlers),
             TablesDiffer(bin.files["0001_schema.sql"])
      PROVE  /\ \A e \in EntityRange(bin.files["entities.rs"]) :
                  UpsertFits(e, tables) <=> \A k \in Positions(e) : Upserted(e.fields[k])
             /\ \A e \in EntityRange(bin.files["graphql.rs"]) :
                  ReadFits(e, tables) <=> \A k \in Positions(e) : Served(e.fields[k])
  <2> DEFINE S == bin.files["0001_schema.sql"]
  <2>1. bin # None
    BY <1>1 DEF Typed
  <2>2. Rendered(S) /\ Sound(S) /\ S \notin {None, Own} /\ TablesDiffer(S)
    BY <1>1, <2>1, BinaryIsSound, OutputFacts
  <2>3. bin.files["entities.rs"] = S /\ bin.files["graphql.rs"] = S
    BY <1>1, <2>1, OutputFacts DEF Renders
  <2>4. applied[Tracked] = S
    BY <1>1 DEF Applied, Uses
  <2>5. Definitions(S) \subseteq tables /\ tables \subseteq HandwrittenColumns \cup Definitions(S)
    BY <1>1, <2>2, <2>4 DEF Applied
  <2>6. \A e \in EntityRange(S) : e.table \notin TablesOf(HandwrittenColumns)
    BY <2>2 DEF Rendered, OwnTablesApart
  <2>7. \A e \in EntityRange(S) : StructCompiles(e)
    BY <1>1, <2>1, <2>3 DEF Renders, EntitiesCompile
  <2> HIDE DEF S
  <2>8. \A e \in EntityRange(S) :
          /\ UpsertFits(e, tables) <=> \A k \in Positions(e) : Upserted(e.fields[k])
          /\ ReadFits(e, tables) <=> \A k \in Positions(e) : Served(e.fields[k])
    BY <2>2, <2>5, <2>6, <2>7, SoundFits
  <2> QED
    BY <2>3, <2>8
<1>2. Typed /\ Renders /\ Applied => RunningFitsTables
  BY <1>1 DEF RunningFitsTables
<1> QED
  BY <1>2, AlwaysTyped, AlwaysRenders, AlwaysApplied, PTL
=============================================================================
