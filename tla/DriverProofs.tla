---------------------------- MODULE DriverProofs ----------------------------
(***************************************************************************)
(* Theorems about the command lines of the drivers, and their proofs.      *)
(*                                                                         *)
(* The loop of the compilers' parser keeps LineInv: what it has parsed is  *)
(* what the line reads as, and it waits for a value exactly when the next  *)
(* argument reads as one.  For the second the number of options in a row   *)
(* before the next argument has to exist and to be one only (RunCounted,   *)
(* RunIsOne).  That nothing else gets lost follows from the first; what a  *)
(* driver asks for depends on the flags alone, whatever the parser made of *)
(* them.                                                                   *)
(*                                                                         *)
(* The loops of ar's parser keep ArInv: the first operands of the line are *)
(* the command and the archive that have been parsed (HeadRead), and what  *)
(* is behind the archive are its members.                                  *)
(***************************************************************************)
EXTENDS CommandLine, Archive, SequenceTheorems, FiniteSetTheorems, TLAPS

\* Before an argument stands one number of options in a row.
LEMMA RunIsOne ==
    ASSUME NEW options, NEW args, NEW i \in Nat, NEW m \in 0..(i - 1), NEW n \in 0..(i - 1),
           OptionsBefore(options, args, i, m), OptionsBefore(options, args, i, n)
    PROVE  m = n
<1>1. ASSUME NEW k \in 0..(i - 1), NEW l \in 0..(i - 1), k < l,
             OptionsBefore(options, args, i, k), OptionsBefore(options, args, i, l)
      PROVE  FALSE
  <2>1. i - k - 1 \in (i - l)..(i - 1) /\ k # i - 1
      BY <1>1
  <2> QED
      BY <1>1, <2>1 DEF OptionsBefore
<1> QED
    BY <1>1

\* How an argument reads depends on those before it only.
LEMMA LocalRun ==
    ASSUME NEW options, NEW S, NEW s \in Seq(S), NEW a \in S,
           NEW i \in 1..(Len(s) + 1), NEW n \in 0..(i - 1)
    PROVE  OptionsBefore(options, Append(s, a), i, n) <=> OptionsBefore(options, s, i, n)
<1>1. \A j \in 1..(i - 1) : Append(s, a)[j] = s[j]
    BY AppendProperties
<1> QED
    BY <1>1 DEF OptionsBefore

\* So whether it is a value.
LEMMA LocalValue ==
    ASSUME NEW options, NEW S, NEW s \in Seq(S), NEW a \in S, NEW i \in 1..(Len(s) + 1)
    PROVE  IsValue(options, Append(s, a), i) <=> IsValue(options, s, i)
BY LocalRun DEF IsValue

\* A value stands after an option.
LEMMA ValueHasOption ==
    ASSUME NEW options, NEW s, NEW i \in Nat, IsValue(options, s, i)
    PROVE  i - 1 >= 1 /\ s[i - 1] \in options
<1>1. PICK n \in 0..(i - 1) : n % 2 = 1 /\ OptionsBefore(options, s, i, n)
    BY DEF IsValue
<1>2. n >= 1
    BY <1>1
<1> QED
    BY <1>1, <1>2 DEF OptionsBefore

\* An option makes the row before the next argument longer, another
\* argument ends it.
LEMMA NextRun ==
    ASSUME NEW options, NEW S, NEW s \in Seq(S), NEW a \in S, NEW n \in 0..Len(s),
           OptionsBefore(options, s, Len(s) + 1, n)
    PROVE  /\ a \in options => OptionsBefore(options, Append(s, a), Len(s) + 2, n + 1)
           /\ a \notin options => OptionsBefore(options, Append(s, a), Len(s) + 2, 0)
<1>1. Append(s, a)[Len(s) + 1] = a /\ \A j \in 1..Len(s) : Append(s, a)[j] = s[j]
    BY AppendProperties
<1>2. CASE a \in options
    BY <1>1, <1>2 DEF OptionsBefore
<1>3. CASE a \notin options
    BY <1>1, <1>3 DEF OptionsBefore
<1> QED
    BY <1>2, <1>3

\* The next argument is a value after an option that is none itself.
LEMMA NextValue ==
    ASSUME NEW options, NEW S, NEW s \in Seq(S), NEW a \in S, NEW n \in 0..Len(s),
           OptionsBefore(options, s, Len(s) + 1, n)
    PROVE  IsValue(options, Append(s, a), Len(s) + 2)
             <=> a \in options /\ ~ IsValue(options, s, Len(s) + 1)
<1>1. IsValue(options, s, Len(s) + 1) <=> n % 2 = 1
    BY RunIsOne DEF IsValue
<1>2. CASE a \in options
  <2>1. OptionsBefore(options, Append(s, a), Len(s) + 2, n + 1) /\ n + 1 \in 0..(Len(s) + 1)
      BY <1>2, NextRun
  <2>2. IsValue(options, Append(s, a), Len(s) + 2) <=> (n + 1) % 2 = 1
      BY <2>1, RunIsOne DEF IsValue
  <2> QED
      BY <1>1, <1>2, <2>2
<1>3. CASE a \notin options
  <2>1. OptionsBefore(options, Append(s, a), Len(s) + 2, 0)
      BY <1>3, NextRun
  <2>2. ~ IsValue(options, Append(s, a), Len(s) + 2)
      BY <2>1, RunIsOne DEF IsValue
  <2> QED
      BY <1>3, <2>2
<1> QED
    BY <1>2, <1>3

----------------------------------------------------------------------------
\* What can be entered in a field: an argument, or what it carries.
Entry == Arguments \cup {Carried(a) : a \in Arguments}

\* What has been parsed, with the option that waits for its value.
ParsedArgs ==
  [list : [Fields -> Seq(Entry)], compileOnly : BOOLEAN, shared : BOOLEAN,
   output : Arguments \cup {""}, option : ValueOptions \cup {""}]

LineTypeOK == line \in Seq(Arguments) /\ parsed \in ParsedArgs

\* The options in a row at the end of the line can be counted.
RunCounted == \E n \in 0..Len(line) : OptionsBefore(ValueOptions, line, Len(line) + 1, n)

\* The parser waits for a value exactly when the next argument reads as one,
\* and then for that of the last argument.
WaitsForValue ==
  /\ parsed.option # "" <=> IsValue(ValueOptions, line, Len(line) + 1)
  /\ parsed.option # "" => Len(line) > 0 /\ parsed.option = line[Len(line)]

\* Every entry is that of an argument.
AllPlaced(args, list) ==
  \A f \in Fields : \A q \in 1..Len(list[f]) :
    \E i \in 1..Len(args) : ReadField(args, i) = f /\ Cardinality(Read(args, i, f)) = q

LineInv ==
  /\ LineTypeOK /\ RunCounted /\ WaitsForValue /\ ParsedAsItReads
  /\ AllPlaced(line, parsed.list)

\* Before the first argument nothing is read and nothing parsed.
LEMMA LineInvInit == LineInit => LineInv
<1> SUFFICES ASSUME LineInit PROVE LineInv
    OBVIOUS
<1>1. line = <<>> /\ Len(line) = 0
    BY DEF LineInit
<1>2. parsed.list = [f \in Fields |-> <<>>] /\ parsed.output = "" /\ parsed.option = ""
    BY DEF LineInit, Nothing
<1>3. LineTypeOK
  <2>1. <<>> \in Seq(Arguments)
      OBVIOUS
  <2> DEFINE l == [f \in Fields |-> <<>>]
  <2>2. l \in [Fields -> Seq(Entry)]
      BY EmptySeq
  <2>3. parsed = [list |-> l, compileOnly |-> FALSE, shared |-> FALSE,
                  output |-> "", option |-> ""]
      BY DEF LineInit, Nothing
  <2> HIDE DEF l
  <2> QED
      BY <1>1, <2>1, <2>2, <2>3 DEF LineTypeOK, ParsedArgs
<1>4. RunCounted
    BY <1>1 DEF RunCounted, OptionsBefore
<1>5. ~ IsValue(ValueOptions, line, Len(line) + 1)
    BY <1>1 DEF IsValue
<1>6. WaitsForValue
    BY <1>2, <1>5 DEF WaitsForValue
<1>7. \A f \in Fields : Cardinality(Read(line, Len(line), f)) = 0
  <2>1. \A f \in Fields : Read(line, Len(line), f) = {}
      BY <1>1 DEF Read
  <2> QED
      BY <2>1, FS_EmptySet
<1>8. Outputs(line) = {} /\ 1..Len(line) = {}
    BY <1>1 DEF Outputs
<1>9. ParsedAsItReads
  <2>1. \A f \in Fields : parsed.list[f] = <<>>
      BY <1>2
  <2> QED
      BY <1>2, <1>7, <1>8, <2>1, EmptySeq DEF ParsedAsItReads
<1>10. AllPlaced(line, parsed.list)
  <2>1. \A f \in Fields : parsed.list[f] = <<>>
      BY <1>2
  <2>2. 1..Len(<<>>) = {}
      BY EmptySeq
  <2> QED
      BY <2>1, <2>2 DEF AllPlaced
<1> QED
    BY <1>3, <1>4, <1>6, <1>9, <1>10 DEF LineInv

----------------------------------------------------------------------------
\* Which field an argument belongs to, and with what, depends on those before
\* it only, and which others do.
LEMMA LocalReading ==
    ASSUME NEW S, NEW s \in Seq(S), NEW a \in S, NEW i \in 1..Len(s)
    PROVE  /\ ReadField(Append(s, a), i) = ReadField(s, i)
           /\ ReadValue(Append(s, a), i) = ReadValue(s, i)
           /\ \A f : Read(Append(s, a), i, f) = Read(s, i, f)
<1>1. ASSUME NEW j \in 1..Len(s)
      PROVE  /\ ReadField(Append(s, a), j) = ReadField(s, j)
             /\ ReadValue(Append(s, a), j) = ReadValue(s, j)
  <2>1. Append(s, a)[j] = s[j] /\ (j - 1 >= 1 => Append(s, a)[j - 1] = s[j - 1])
      BY AppendProperties
  <2> QED
      BY <2>1, LocalValue, ValueHasOption DEF ReadField, ReadValue
<1>2. \A f : Read(Append(s, a), i, f) = Read(s, i, f)
    BY <1>1 DEF Read
<1> QED
    BY <1>1, <1>2

\* Every argument goes to a field of ParsedArgs or to none.
LEMMA FieldOrNone == \A a : FieldOf(a) \in Fields \cup {"none"}
BY DEF FieldOf, Fields

\* One more argument is one more for the field it belongs to.
LEMMA LastReading ==
    ASSUME NEW S, NEW s \in Seq(S), NEW a \in S, NEW f
    PROVE  LET t == Append(s, a)
               L == Len(s)
           IN  /\ ReadField(t, L + 1) # f => Read(t, L + 1, f) = Read(s, L, f)
               /\ ReadField(t, L + 1) = f => Read(t, L + 1, f) = Read(s, L, f) \cup {L + 1}
               /\ L + 1 \notin Read(s, L, f)
               /\ IsFiniteSet(Read(s, L, f))
<1> DEFINE t == Append(s, a)
           L == Len(s)
<1>1. \A j \in 1..L : ReadField(t, j) = ReadField(s, j)
    BY LocalReading
<1>2. 1..(L + 1) = (1..L) \cup {L + 1} /\ L + 1 \notin 1..L
    OBVIOUS
<1>3. Read(s, L, f) \subseteq 1..L /\ IsFiniteSet(1..L)
    BY FS_Interval DEF Read
<1>4. IsFiniteSet(Read(s, L, f))
    BY <1>3, FS_Subset
<1> QED
    BY <1>1, <1>2, <1>3, <1>4 DEF Read

\* An argument has its place in the list of its field.
LEMMA PlaceInList ==
    ASSUME NEW S, NEW s \in Seq(S), NEW i \in 1..Len(s)
    PROVE  Cardinality(Read(s, i, ReadField(s, i)))
             \in 1..Cardinality(Read(s, Len(s), ReadField(s, i)))
<1> DEFINE f == ReadField(s, i)
<1>1. /\ Read(s, i, f) \subseteq Read(s, Len(s), f) /\ i \in Read(s, i, f)
      /\ Read(s, Len(s), f) \subseteq 1..Len(s)
    BY DEF Read
<1>2. IsFiniteSet(Read(s, Len(s), f)) /\ IsFiniteSet(Read(s, i, f))
  <2>1. IsFiniteSet(1..Len(s))
      BY FS_Interval
  <2> QED
      BY <1>1, <2>1, FS_Subset
<1>3. Cardinality(Read(s, i, f)) \in Nat /\ Cardinality(Read(s, Len(s), f)) \in Nat
    BY <1>2, FS_CardinalityType
<1>4. Cardinality(Read(s, i, f)) # 0
    BY <1>1, <1>2, FS_EmptySet
<1>5. Cardinality(Read(s, i, f)) <= Cardinality(Read(s, Len(s), f))
    BY <1>1, <1>2, FS_Subset
<1> QED
    BY <1>3, <1>4, <1>5

\* Into adds one entry and changes nothing else.
LEMMA EntryAdded ==
    ASSUME NEW p \in ParsedArgs, NEW f \in Fields \cup {"none"}, NEW a \in Entry
    PROVE  /\ Into(p, f, a) \in ParsedArgs
           /\ \A g \in Fields : Into(p, f, a).list[g] = IF g = f THEN Append(p.list[g], a)
                                                        ELSE p.list[g]
           /\ Into(p, f, a).output = p.output /\ Into(p, f, a).option = p.option
<1>1. CASE f = "none"
    BY <1>1 DEF Into, Fields
<1>2. CASE f # "none"
  <2> DEFINE l == [p.list EXCEPT ![f] = Append(@, a)]
  <2>1. f \in Fields /\ p.list \in [Fields -> Seq(Entry)]
      BY <1>2 DEF ParsedArgs
  <2>2. p.list[f] \in Seq(Entry)
      BY <2>1
  <2>3. Append(p.list[f], a) \in Seq(Entry)
      BY <2>2
  <2>4. l \in [Fields -> Seq(Entry)]
      BY <2>1, <2>3
  <2>5. Into(p, f, a) = [p EXCEPT !.list = l]
      BY <1>2 DEF Into, ParsedArgs
  <2> HIDE DEF l
  <2>6. /\ Into(p, f, a) \in ParsedArgs
           /\ Into(p, f, a).list = l
           /\ Into(p, f, a).output = p.output /\ Into(p, f, a).option = p.option
      BY <2>4, <2>5 DEF ParsedArgs
  <2>7. \A g \in Fields : l[g] = IF g = f THEN Append(p.list[g], a) ELSE p.list[g]
      BY <2>1 DEF l
  <2> QED
      BY <2>6, <2>7
<1> QED
    BY <1>1, <1>2

\* The steps that set the output, the option or a switch keep the types.
LEMMA OthersSet ==
    ASSUME NEW p \in ParsedArgs, NEW a \in Arguments, NEW b \in BOOLEAN,
           NEW o \in ValueOptions \cup {""}
    PROVE  /\ [p EXCEPT !.output = a, !.option = o] \in ParsedArgs
           /\ [p EXCEPT !.option = o] \in ParsedArgs
           /\ [p EXCEPT !.compileOnly = b] \in ParsedArgs
           /\ [p EXCEPT !.shared = b] \in ParsedArgs
BY DEF ParsedArgs

\* The field of the last argument and its value, read off those before it.
LEMMA LastField ==
    ASSUME NEW S, NEW s \in Seq(S), NEW a \in S
    PROVE  /\ ReadField(Append(s, a), Len(s) + 1)
             = IF IsValue(ValueOptions, s, Len(s) + 1) THEN FieldOf(s[Len(s)])
               ELSE IF a \in ValueOptions THEN "none" ELSE FieldOf(a)
           /\ ReadValue(Append(s, a), Len(s) + 1)
             = IF IsValue(ValueOptions, s, Len(s) + 1) THEN a ELSE Carried(a)
<1> DEFINE t == Append(s, a)
           L == Len(s)
<1>1. L \in Nat /\ L + 1 \in 1..(L + 1) /\ L + 1 - 1 = L
    OBVIOUS
<1>2. t[L + 1] = a /\ (L >= 1 => t[L] = s[L])
    BY AppendProperties
<1>3. IsValue(ValueOptions, t, L + 1) <=> IsValue(ValueOptions, s, L + 1)
    BY <1>1, LocalValue
<1>4. IsValue(ValueOptions, s, L + 1) => L >= 1
    BY <1>1, ValueHasOption
<1> HIDE DEF t, L
<1>5. ReadField(t, L + 1) = IF IsValue(ValueOptions, s, L + 1) THEN FieldOf(s[L])
               ELSE IF a \in ValueOptions THEN "none" ELSE FieldOf(a)
    BY <1>1, <1>2, <1>3, <1>4 DEF ReadField
<1>6. ReadValue(t, L + 1) = IF IsValue(ValueOptions, s, L + 1) THEN a ELSE Carried(a)
    BY <1>2, <1>3 DEF ReadValue
<1> QED
    BY <1>5, <1>6 DEF t, L

\* The last argument is an output when the parser waits for one.
LEMMA LastOutput ==
    ASSUME NEW S, NEW s \in Seq(S), NEW a \in S
    PROVE  Outputs(Append(s, a))
             = IF IsValue(ValueOptions, s, Len(s) + 1) /\ s[Len(s)] = "-o"
               THEN Outputs(s) \cup {Len(s) + 1} ELSE Outputs(s)
<1> DEFINE t == Append(s, a)
           L == Len(s)
<1>1. L \in Nat /\ L + 1 \in 1..(L + 1) /\ L + 1 - 1 = L /\ Len(t) = L + 1
      /\ 1..(L + 1) = (1..L) \cup {L + 1} /\ L + 1 \notin 1..L
    OBVIOUS
<1>2. \A i \in 1..L : t[i] = s[i]
    BY AppendProperties
<1>3. ASSUME NEW i \in 1..(L + 1)
      PROVE  (IsValue(ValueOptions, t, i) /\ t[i - 1] = "-o") <=> (IsValue(ValueOptions, s, i) /\ s[i - 1] = "-o")
  <2>1. IsValue(ValueOptions, t, i) <=> IsValue(ValueOptions, s, i)
      BY LocalValue
  <2>2. CASE IsValue(ValueOptions, s, i)
    <3>1. i - 1 \in 1..L
        BY <1>1, <2>2, ValueHasOption
    <3> QED
        BY <1>2, <2>1, <3>1
  <2> QED
      BY <2>1, <2>2
<1>4. Outputs(t) = {i \in 1..(L + 1) : IsValue(ValueOptions, t, i) /\ t[i - 1] = "-o"}
    BY <1>1 DEF Outputs
<1>5. Outputs(s) = {i \in 1..L : IsValue(ValueOptions, s, i) /\ s[i - 1] = "-o"}
    BY DEF Outputs
<1> HIDE DEF t, L
<1>6. Outputs(t) = IF IsValue(ValueOptions, s, L + 1) /\ s[L] = "-o"
                   THEN Outputs(s) \cup {L + 1} ELSE Outputs(s)
    BY <1>1, <1>3, <1>4, <1>5
<1> QED
    BY <1>6 DEF t, L

\* Each field of the list has its arguments, each at its place.
Entries(args, list) ==
  /\ \A f \in Fields : Len(list[f]) = Cardinality(Read(args, Len(args), f))
  /\ \A i \in 1..Len(args) :
       ReadField(args, i) # "none"
         => list[ReadField(args, i)][Cardinality(Read(args, i, ReadField(args, i)))]
              = ReadValue(args, i)
  /\ AllPlaced(args, list)

\* They still do when the last argument goes to its field.
LEMMA EntriesGrow ==
    ASSUME NEW S, NEW s \in Seq(S), NEW a \in S, NEW T, NEW l \in [Fields -> Seq(T)],
           Entries(s, l), NEW m, NEW e \in T, e = ReadValue(Append(s, a), Len(s) + 1),
           \A g \in Fields :
             m[g] = IF g = ReadField(Append(s, a), Len(s) + 1) THEN Append(l[g], e) ELSE l[g]
    PROVE  Entries(Append(s, a), m)
<1> DEFINE t == Append(s, a)
           L == Len(s)
           f == ReadField(t, L + 1)
<1>1. L \in Nat /\ Len(t) = L + 1 /\ ReadValue(t, L + 1) = e
    BY AppendProperties
<1>2. \A g \in Fields : m[g] = IF g = f THEN Append(l[g], e) ELSE l[g]
    OBVIOUS
<1>3. \A g \in Fields : l[g] \in Seq(T) /\ Len(l[g]) = Cardinality(Read(s, L, g))
    BY DEF Entries
<1>4. \A g \in Fields : Cardinality(Read(t, L + 1, g)) = IF g = f THEN Len(l[g]) + 1 ELSE Len(l[g])
  <2> SUFFICES ASSUME NEW g \in Fields
               PROVE  Cardinality(Read(t, L + 1, g)) = IF g = f THEN Len(l[g]) + 1 ELSE Len(l[g])
      OBVIOUS
  <2>1. /\ f # g => Read(t, L + 1, g) = Read(s, L, g)
        /\ f = g => Read(t, L + 1, g) = Read(s, L, g) \cup {L + 1}
        /\ L + 1 \notin Read(s, L, g) /\ IsFiniteSet(Read(s, L, g))
      BY LastReading
  <2>2. Cardinality(Read(s, L, g) \cup {L + 1}) = Cardinality(Read(s, L, g)) + 1
      BY <2>1, FS_AddElement
  <2> QED
      BY <1>3, <2>1, <2>2
<1>5. \A i \in 1..L : /\ ReadField(t, i) = ReadField(s, i)
                     /\ ReadValue(t, i) = ReadValue(s, i)
                     /\ \A g : Read(t, i, g) = Read(s, i, g)
    BY LocalReading
<1>6. \A i \in 1..(L + 1) : ReadField(t, i) \in Fields \cup {"none"}
    BY FieldOrNone DEF ReadField
<1>7. \A i \in 1..L : Cardinality(Read(s, i, ReadField(s, i)))
                         \in 1..Cardinality(Read(s, L, ReadField(s, i)))
    BY PlaceInList
<1>8. \A i \in 1..L : ReadField(s, i) # "none"
         => l[ReadField(s, i)][Cardinality(Read(s, i, ReadField(s, i)))] = ReadValue(s, i)
    BY DEF Entries
<1>9. f = ReadField(t, L + 1)
    OBVIOUS
<1> HIDE DEF t, L, f
<1>10. \A g \in Fields : Len(m[g]) = Cardinality(Read(t, L + 1, g))
  <2> SUFFICES ASSUME NEW g \in Fields PROVE Len(m[g]) = Cardinality(Read(t, L + 1, g))
      OBVIOUS
  <2>1. l[g] \in Seq(T) /\ Len(Append(l[g], e)) = Len(l[g]) + 1
      BY <1>3
  <2> QED
      BY <1>2, <1>4, <2>1
<1>11. ASSUME NEW i \in 1..(L + 1), ReadField(t, i) # "none"
       PROVE  m[ReadField(t, i)][Cardinality(Read(t, i, ReadField(t, i)))] = ReadValue(t, i)
  <2> DEFINE g == ReadField(t, i)
  <2>1. g \in Fields /\ l[g] \in Seq(T)
      BY <1>3, <1>6, <1>11
  <2>2. CASE i = L + 1
    <3>1. m[g] = Append(l[g], e) /\ Cardinality(Read(t, i, g)) = Len(l[g]) + 1
        BY <1>2, <1>4, <1>9, <2>1, <2>2
    <3>2. Append(l[g], e)[Len(l[g]) + 1] = e
        BY <2>1, AppendProperties
    <3> HIDE DEF g
    <3>3. m[g][Cardinality(Read(t, i, g))] = ReadValue(t, i)
        BY <1>1, <2>2, <3>1, <3>2
    <3> QED
        BY <3>3 DEF g
  <2>3. CASE i \in 1..L
    <3> DEFINE p == Cardinality(Read(s, i, g))
    <3>1. g = ReadField(s, i) /\ p = Cardinality(Read(t, i, g)) /\ ReadValue(t, i) = ReadValue(s, i)
        BY <1>1, <1>5, <2>3
    <3>2. p \in 1..Len(l[g]) /\ l[g][p] = ReadValue(s, i)
        BY <1>3, <1>7, <1>8, <1>11, <2>1, <2>3, <3>1
    <3>3. m[g] \in {l[g], Append(l[g], e)}
        BY <1>2, <2>1
    <3> HIDE DEF p, g
    <3>4. Append(l[g], e)[p] = l[g][p]
        BY <2>1, <3>2, AppendProperties
    <3>5. m[g][p] = ReadValue(s, i)
        BY <3>2, <3>3, <3>4
    <3>6. m[g][Cardinality(Read(t, i, g))] = ReadValue(t, i)
        BY <3>1, <3>5
    <3> QED
        BY <3>6 DEF g
  <2> QED
      BY <1>1, <2>2, <2>3
<1>12. AllPlaced(t, m)
  <2> SUFFICES ASSUME NEW g \in Fields, NEW q \in 1..Len(m[g])
               PROVE  \E i \in 1..(L + 1) :
                        ReadField(t, i) = g /\ Cardinality(Read(t, i, g)) = q
      BY <1>1 DEF AllPlaced
  <2>1. l[g] \in Seq(T) /\ Len(l[g]) \in Nat
        /\ Len(Append(l[g], e)) = Len(l[g]) + 1
      BY <1>3
  <2>2. /\ Len(l[g]) \in Nat
        /\ Len(m[g]) = IF g = f THEN Len(l[g]) + 1 ELSE Len(l[g])
      BY <1>2, <2>1
  <2>3. CASE q \in 1..Len(l[g])
    <3>1. PICK i \in 1..L : ReadField(s, i) = g /\ Cardinality(Read(s, i, g)) = q
        BY <2>3 DEF Entries, AllPlaced, L
    <3> QED
        BY <1>1, <1>5, <3>1
  <2>4. CASE q \notin 1..Len(l[g])
    <3>1. g = f /\ q = Len(l[g]) + 1
        BY <2>2, <2>4
    <3>2. L + 1 \in 1..(L + 1) /\ Cardinality(Read(t, L + 1, g)) = q
        BY <1>1, <1>4, <3>1
    <3> QED
        BY <1>9, <3>1, <3>2
  <2> QED
      BY <2>3, <2>4
<1>13. Entries(t, m)
    BY <1>1, <1>10, <1>11, <1>12 DEF Entries
<1> QED
    BY <1>13 DEF t

\* A pass over an argument that is the entry e of the field f, or of none.
Parses(a, f, e) ==
  /\ parsed' \in ParsedArgs
  /\ \A g \in Fields :
       parsed'.list[g] = IF g = f THEN Append(parsed.list[g], e) ELSE parsed.list[g]
  /\ parsed'.output = IF parsed.option = "-o" THEN a ELSE parsed.output
  /\ parsed'.option = IF a \in ValueOptions /\ parsed.option = "" THEN a ELSE ""

\* One pass of the loop puts the argument in the field that it reads as.
LEMMA PassReads ==
    ASSUME LineInv, NEW a \in Arguments, ParseCommandLine(a)
    PROVE  Parses(a, ReadField(line', Len(line) + 1), ReadValue(line', Len(line) + 1))
<1> DEFINE f == ReadField(line', Len(line) + 1)
           e == ReadValue(line', Len(line) + 1)
<1> SUFFICES Parses(a, f, e)
    OBVIOUS
<1>1. /\ line' = Append(line, a) /\ parsed' = ParseArgument(parsed, a)
      /\ line \in Seq(Arguments) /\ parsed \in ParsedArgs
    BY DEF ParseCommandLine, LineInv, LineTypeOK
<1>2. f = IF parsed.option # "" THEN FieldOf(parsed.option)
          ELSE IF a \in ValueOptions THEN "none" ELSE FieldOf(a)
    BY <1>1, LastField DEF LineInv, WaitsForValue
<1>3. e = (IF parsed.option # "" THEN a ELSE Carried(a)) /\ e \in Entry
    BY <1>1, LastField DEF LineInv, WaitsForValue, Entry
<1>4. f \in Fields \cup {"none"}
    BY <1>2, FieldOrNone
<1> HIDE DEF f, e
<1>5. CASE parsed.option = "-o"
  <2>1. f = "none"
      BY <1>2, <1>5 DEF FieldOf, CompilerFlags, OtherFlags
  <2>2. parsed' = [parsed EXCEPT !.output = a, !.option = ""]
      BY <1>1, <1>5 DEF ParseArgument
  <2>3. /\ parsed' \in ParsedArgs /\ parsed'.list = parsed.list
        /\ parsed'.output = a /\ parsed'.option = ""
      BY <1>1, <2>2 DEF ParsedArgs
  <2> QED
      BY <1>5, <2>1, <2>3 DEF Parses, Fields
<1>6. CASE parsed.option \notin {"", "-o"}
  <2> DEFINE q == [parsed EXCEPT !.option = ""]
  <2>1. parsed' = Into(q, f, e)
      BY <1>1, <1>2, <1>6, <1>3 DEF ParseArgument
  <2>2. /\ q \in ParsedArgs /\ q.list = parsed.list /\ q.output = parsed.output
        /\ q.option = ""
      BY <1>1 DEF ParsedArgs
  <2> HIDE DEF q
  <2>4. /\ Into(q, f, e) \in ParsedArgs
        /\ \A g \in Fields : Into(q, f, e).list[g] = IF g = f THEN Append(q.list[g], e)
                                                     ELSE q.list[g]
        /\ Into(q, f, e).output = q.output /\ Into(q, f, e).option = q.option
      BY <1>4, <1>3, <2>2, EntryAdded
  <2> QED
      BY <1>6, <2>1, <2>2, <2>4 DEF Parses
<1>7. CASE parsed.option = "" /\ a \in ValueOptions
  <2>1. f = "none"
      BY <1>2, <1>7
  <2>2. parsed' = [parsed EXCEPT !.option = a]
      BY <1>1, <1>7 DEF ParseArgument
  <2>3. /\ parsed' \in ParsedArgs /\ parsed'.list = parsed.list
        /\ parsed'.output = parsed.output /\ parsed'.option = a
      BY <1>1, <1>7, <2>2 DEF ParsedArgs
  <2> QED
      BY <1>7, <2>1, <2>3 DEF Parses, Fields
<1>8. CASE parsed.option = "" /\ a \notin ValueOptions /\ a = "-c"
  <2>1. f = "none"
      BY <1>2, <1>8 DEF FieldOf, CompilerFlags, OtherFlags
  <2>2. parsed' = [parsed EXCEPT !.compileOnly = TRUE]
      BY <1>1, <1>8 DEF ParseArgument
  <2>3. /\ parsed' \in ParsedArgs /\ parsed'.list = parsed.list
        /\ parsed'.output = parsed.output /\ parsed'.option = ""
      BY <1>1, <1>8, <2>2 DEF ParsedArgs
  <2> QED
      BY <1>8, <2>1, <2>3 DEF Parses, Fields
<1>9. CASE parsed.option = "" /\ a \notin ValueOptions /\ a # "-c"
  <2>1. PICK b \in BOOLEAN : parsed' = Into([parsed EXCEPT !.shared = b], f, e)
      BY <1>1, <1>2, <1>9, <1>3 DEF ParseArgument
  <2> DEFINE q == [parsed EXCEPT !.shared = b]
  <2>2. /\ q \in ParsedArgs /\ q.list = parsed.list /\ q.output = parsed.output
        /\ q.option = ""
      BY <1>1, <1>9 DEF ParsedArgs
  <2>3. parsed' = Into(q, f, e)
      BY <2>1
  <2> HIDE DEF q
  <2>4. /\ Into(q, f, e) \in ParsedArgs
        /\ \A g \in Fields : Into(q, f, e).list[g] = IF g = f THEN Append(q.list[g], e)
                                                     ELSE q.list[g]
        /\ Into(q, f, e).output = q.output /\ Into(q, f, e).option = q.option
      BY <1>4, <1>3, <2>2, EntryAdded
  <2> QED
      BY <1>9, <2>2, <2>3, <2>4 DEF Parses
<1> QED
    BY <1>5, <1>6, <1>7, <1>8, <1>9

\* Every pass of the loop keeps the invariant.
LEMMA LineInvStep ==
    ASSUME LineInv, NEW a \in Arguments, ParseCommandLine(a)
    PROVE  LineInv'
<1> DEFINE L == Len(line)
           f == ReadField(line', L + 1)
           e == ReadValue(line', L + 1)
<1>1. line' = Append(line, a) /\ line \in Seq(Arguments) /\ parsed \in ParsedArgs
    BY DEF ParseCommandLine, LineInv, LineTypeOK
<1>2. /\ L \in Nat /\ line' \in Seq(Arguments) /\ Len(line') = L + 1 /\ line'[L + 1] = a
      /\ \A i \in 1..L : line'[i] = line[i]
    BY <1>1, AppendProperties
<1>3. Parses(a, f, e)
    BY PassReads
<1>4. LineTypeOK'
    BY <1>2, <1>3 DEF LineTypeOK, Parses
<1>5. PICK n \in 0..L : OptionsBefore(ValueOptions, line, L + 1, n)
    BY DEF LineInv, RunCounted
<1>6. RunCounted'
  <2>1. n + 1 \in 0..(L + 1) /\ 0 \in 0..(L + 1) /\ Len(line') + 1 = L + 2
      BY <1>2
  <2>2. OptionsBefore(ValueOptions, line', L + 2, n + 1) \/ OptionsBefore(ValueOptions, line', L + 2, 0)
      BY <1>1, <1>5, NextRun
  <2> QED
      BY <1>2, <2>1, <2>2 DEF RunCounted
<1>7. /\ parsed.option # "" <=> IsValue(ValueOptions, line, L + 1)
      /\ parsed.option # "" => L > 0 /\ parsed.option = line[L]
    BY DEF LineInv, WaitsForValue
<1>8. WaitsForValue'
  <2>1. IsValue(ValueOptions, line', L + 2) <=> a \in ValueOptions /\ ~ IsValue(ValueOptions, line, L + 1)
      BY <1>1, <1>5, NextValue
  <2>2. /\ parsed'.option # "" <=> a \in ValueOptions /\ parsed.option = ""
        /\ parsed'.option # "" => parsed'.option = a
      BY <1>3 DEF Parses, ValueOptions
  <2>3. Len(line') + 1 = L + 2 /\ L + 1 > 0
      BY <1>2
  <2> HIDE DEF L
  <2> QED
      BY <1>2, <1>7, <2>1, <2>2, <2>3 DEF WaitsForValue
<1>9. Entries(line', parsed'.list)
  <2> DEFINE l == parsed.list
             m == parsed'.list
  <2>1. Entries(line, l)
      BY DEF LineInv, ParsedAsItReads, Entries
  <2>2. l \in [Fields -> Seq(Entry)]
      BY <1>1 DEF ParsedArgs
  <2>3. \A g \in Fields :
          m[g] = IF g = ReadField(Append(line, a), Len(line) + 1) THEN Append(l[g], e) ELSE l[g]
      BY <1>1, <1>3 DEF Parses
  <2>4. e = ReadValue(Append(line, a), Len(line) + 1) /\ e \in Entry
      BY <1>1, LastField DEF Entry
  <2> HIDE DEF l, m, e
  <2>5. Entries(Append(line, a), m)
    <3>1. line \in Seq(Arguments)
        BY <1>1
    <3> QED
        BY <2>1, <2>2, <2>3, <2>4, <3>1, EntriesGrow
  <2> QED
      BY <1>1, <2>5 DEF m
<1>10. IF Outputs(line') = {} THEN parsed'.output = ""
       ELSE \E i \in Outputs(line') :
              parsed'.output = line'[i] /\ \A j \in Outputs(line') : j <= i
  <2>1. Outputs(line') = IF parsed.option = "-o" THEN Outputs(line) \cup {L + 1}
                         ELSE Outputs(line)
      BY <1>1, <1>7, LastOutput
  <2>2. Outputs(line) \subseteq 1..L
      BY DEF Outputs
  <2>3. IF Outputs(line) = {} THEN parsed.output = ""
        ELSE \E i \in Outputs(line) :
               parsed.output = line[i] /\ \A j \in Outputs(line) : j <= i
      BY DEF LineInv, ParsedAsItReads
  <2>4. parsed'.output = IF parsed.option = "-o" THEN a ELSE parsed.output
      BY <1>3 DEF Parses
  <2> HIDE DEF L
  <2>5. CASE parsed.option = "-o"
    <3>1. L + 1 \in Outputs(line') /\ \A j \in Outputs(line') : j <= L + 1
        BY <1>2, <2>1, <2>2, <2>5
    <3>2. parsed'.output = line'[L + 1]
        BY <1>2, <2>4, <2>5
    <3> QED
        BY <3>1, <3>2
  <2>6. CASE parsed.option # "-o"
    <3>1. \A i \in Outputs(line) : line'[i] = line[i]
        BY <1>2, <2>2
    <3> QED
        BY <2>1, <2>3, <2>4, <2>6, <3>1
  <2> QED
      BY <2>5, <2>6
<1>11. ParsedAsItReads'
    BY <1>9, <1>10 DEF ParsedAsItReads, Entries
<1>12. AllPlaced(line', parsed'.list)
    BY <1>9 DEF Entries
<1> QED
    BY <1>4, <1>6, <1>8, <1>11, <1>12 DEF LineInv

\* So does a step that does not touch the line.
LEMMA LineInvStays == LineInv /\ UNCHANGED lineVars => LineInv'
<1> SUFFICES ASSUME LineInv, UNCHANGED lineVars PROVE LineInv'
    OBVIOUS
<1>1. line' = line /\ parsed' = parsed
    BY DEF lineVars
<1> QED
    BY <1>1 DEF LineInv, LineTypeOK, RunCounted, WaitsForValue, ParsedAsItReads

\* The invariant holds in every state of the loop.
LEMMA LineAlways == LineSpec => []LineInv
<1>1. LineInv /\ [LineNext]_lineVars => LineInv'
    BY LineInvStep, LineInvStays DEF LineNext
<1> QED
    BY <1>1, LineInvInit, PTL DEF LineSpec

\* An argument comes after another when its place in the list does.
LEMMA LaterPlace ==
    ASSUME NEW S, NEW s \in Seq(S), NEW i \in 1..Len(s), NEW j \in 1..Len(s), NEW f,
           Cardinality(Read(s, i, f)) < Cardinality(Read(s, j, f))
    PROVE  j \in (i + 1)..Len(s)
<1> SUFFICES ASSUME j <= i PROVE FALSE
    OBVIOUS
<1>1. Read(s, j, f) \subseteq Read(s, i, f) /\ Read(s, i, f) \subseteq 1..i
    BY DEF Read
<1>2. IsFiniteSet(Read(s, i, f))
  <2>1. IsFiniteSet(1..i)
      BY FS_Interval
  <2> QED
      BY <1>1, <2>1, FS_Subset
<1>3. /\ Cardinality(Read(s, j, f)) <= Cardinality(Read(s, i, f))
      /\ Cardinality(Read(s, i, f)) \in Nat /\ Cardinality(Read(s, j, f)) \in Nat
    BY <1>1, <1>2, FS_Subset, FS_CardinalityType
<1> QED
    BY <1>3

\* A define without a value is its macro; the meaning of another is its value.
LEMMA ValueIsMeaning ==
    \A d : MacroOf(d) # d => Meaning(d) = ValueOf(d)
BY DEF Meaning

\* What a define without a value has in the map.
LEMMA NoValue == \A d : MacroOf(d) = d => ValueOf(d) = ""
BY DEF MacroOf, ValueOf

\* A define is made again, or it is the one in the map.
LEMMA DefineKept ==
    ASSUME LineInv, NEW i \in 1..Len(line), ReadField(line, i) = "Defines",
           ~ DefinedAgain(line, i)
    PROVE  LET v == ReadValue(line, i)
           IN  <<MacroOf(v), ValueOf(v)>> \in ConcreteDefines(parsed)
<1> DEFINE l == parsed.list["Defines"]
           p == Cardinality(Read(line, i, "Defines"))
           v == ReadValue(line, i)
<1>1. "Defines" \in Fields /\ line \in Seq(Arguments) /\ l \in Seq(Entry)
    BY DEF Fields, LineInv, LineTypeOK, ParsedArgs
<1>2. p \in 1..Len(l) /\ l[p] = v
    BY <1>1, PlaceInList DEF LineInv, ParsedAsItReads
<1>3. ASSUME NEW q \in DOMAIN l, q > p PROVE MacroOf(l[q]) # MacroOf(l[p])
  <2>1. q \in 1..Len(l)
      BY <1>1, <1>3
  <2>2. PICK j \in 1..Len(line) :
          ReadField(line, j) = "Defines" /\ Cardinality(Read(line, j, "Defines")) = q
      BY <1>1, <2>1 DEF LineInv, AllPlaced
  <2>3. l[q] = ReadValue(line, j)
      BY <1>1, <2>2 DEF LineInv, ParsedAsItReads
  <2>4. j \in (i + 1)..Len(line)
      BY <1>1, <1>2, <1>3, <2>1, <2>2, LaterPlace
  <2>5. MacroOf(ReadValue(line, j)) # MacroOf(ReadValue(line, i))
      BY <2>2, <2>4 DEF DefinedAgain
  <2> QED
      BY <1>2, <2>3, <2>5
<1>4. p \in DOMAIN l
    BY <1>1, <1>2
<1>5. ConcreteDefines(parsed) =
        {<<MacroOf(l[k]), ValueOf(l[k])>> :
           k \in {k \in DOMAIN l : \A j \in DOMAIN l : j > k => MacroOf(l[j]) # MacroOf(l[k])}}
    BY DEF ConcreteDefines
<1> HIDE DEF l, p, v
<1>6. <<MacroOf(l[p]), ValueOf(l[p])>> \in ConcreteDefines(parsed)
    BY <1>3, <1>4, <1>5
<1>7. <<MacroOf(v), ValueOf(v)>> \in ConcreteDefines(parsed)
    BY <1>2, <1>6
<1> QED
    BY <1>7 DEF v

\* What the invariant says of the parser and of the job made from the line.
LEMMA LineInvSays == LineInv => ParsedAsItReads /\ OnlyTheseAreLost
<1>1. LineInv => OnlyTheseAreLost
  <2> SUFFICES ASSUME LineInv, NEW i \in 1..Len(line), ReadField(line, i) # "none",
                      ~ InCommand(parsed, ReadField(line, i), ReadValue(line, i))
               PROVE  LET f == ReadField(line, i)
                          v == ReadValue(line, i)
                      IN
                      \/ f = "LibraryDirs"
                      \/ IsLink(parsed) /\ f \in {"CompilerFlags", "IncludeDirs", "Defines"}
                      \/ ~ IsLink(parsed) /\ f \in {"LinkerFlags", "Libraries", "ObjectFiles", "LibraryFiles"}
                      \/ /\ ~ IsLink(parsed) /\ f = "Defines"
                         /\ \/ DefinedAgain(line, i)
                            \/ MacroOf(v) = v /\ <<v, "">> \in ConcreteDefines(parsed)
      BY DEF OnlyTheseAreLost
  <2> DEFINE f == ReadField(line, i)
             v == ReadValue(line, i)
             p == Cardinality(Read(line, i, f))
  <2>1. f \in Fields
      BY FieldOrNone DEF ReadField
  <2>2. line \in Seq(Arguments) /\ parsed.list \in [Fields -> Seq(Entry)]
      BY DEF LineInv, LineTypeOK, ParsedArgs
  <2>3. p \in 1..Len(parsed.list[f]) /\ parsed.list[f][p] = v
      BY <2>1, <2>2, PlaceInList DEF LineInv, ParsedAsItReads
  <2> HIDE DEF p
  <2>4. v \in Range(parsed.list[f])
      BY <2>1, <2>2, <2>3 DEF Range
  <2>5. f = "Defines" \/ f \notin Range(JobFields(parsed))
      BY <2>4 DEF InCommand
  <2>6. CASE IsLink(parsed)
    <3>1. f \notin {"ObjectFiles", "LibraryFiles", "Libraries", "LinkerFlags"}
        BY <2>5, <2>6 DEF JobFields, LinkFields, Range
    <3>2. parsed.list[f] # <<>>
        BY <2>1, <2>2, <2>3
    <3>3. f # "SourceFiles"
        BY <2>6, <3>2 DEF IsLink
    <3> QED
        BY <2>1, <2>6, <3>1, <3>3 DEF Fields
  <2>7. CASE ~ IsLink(parsed) /\ f # "Defines"
    <3>1. f \notin {"SourceFiles", "IncludeDirs", "CompilerFlags"}
        BY <2>5, <2>7 DEF JobFields, CompileFields, Range
    <3> QED
        BY <2>1, <2>7, <3>1 DEF Fields
  <2>8. CASE ~ IsLink(parsed) /\ f = "Defines" /\ ~ DefinedAgain(line, i)
    <3>1. <<MacroOf(v), ValueOf(v)>> \in ConcreteDefines(parsed)
        BY <2>8, DefineKept
    <3>2. <<MacroOf(v), Meaning(v)>> \notin ConcreteDefines(parsed)
        BY <2>8 DEF InCommand
    <3>3. MacroOf(v) = v
        BY <3>1, <3>2, ValueIsMeaning
    <3>4. <<v, "">> \in ConcreteDefines(parsed)
        BY <3>1, <3>3, NoValue
    <3> QED
        BY <2>8, <3>3, <3>4
  <2> QED
      BY <2>6, <2>7, <2>8
<1> QED
    BY <1>1 DEF LineInv

----------------------------------------------------------------------------
(***************************************************************************)
(* ParseCommandLine gives every argument of every command line to the one  *)
(* field that it reads as, at its place, and the last value of "-o" to the *)
(* output.                                                                 *)
(***************************************************************************)
THEOREM LineReads == LineSpec => []ParsedAsItReads
BY LineInvSays, LineAlways, PTL

(***************************************************************************)
(* The command that the executor runs for the job of CreateCppJob says     *)
(* what every argument of the command line said, but for those that the    *)
(* property names: of the defines those that are made again, and those     *)
(* without a value.                                                        *)
(***************************************************************************)
THEOREM LineLoses == LineSpec => []OnlyTheseAreLost
BY LineInvSays, LineAlways, PTL

----------------------------------------------------------------------------
\* What ParseRuntimeID makes of the ID of a toolchain.
ParsedOf(t) ==
  [language |-> IF t.language = "cpp" THEN "cpp" ELSE "c",
   compiler |-> t.compiler, version |-> ParseVersion(t.version),
   cruntime |-> t.cruntime, cversion |-> ParseVersion(t.cversion),
   stdlib |-> IF t.language = "cpp" THEN t.stdlib ELSE "unknown", arch |-> t.arch]

\* The same with what the flags say.
ChangedBy(t, d) ==
  [language |-> IF t.language = "cpp" THEN "cpp" ELSE "c",
   compiler |-> t.compiler,
   version |-> IF d.version = <<>> THEN ParseVersion(t.version) ELSE d.version,
   cruntime |-> t.cruntime, cversion |-> ParseVersion(t.cversion),
   stdlib |-> IF d.stdlib # "" THEN d.stdlib
              ELSE IF t.language = "cpp" THEN t.stdlib ELSE "unknown",
   arch |-> IF d.arch = "" THEN t.arch
            ELSE IF d.arch \in Architectures THEN d.arch ELSE "unknown"]

\* A version of few numbers is kept as it is.
LEMMA FirstNumbersKept ==
    ASSUME NEW v \in Seq(Nat), NEW n \in Nat, Len(v) <= n
    PROVE  FirstNumbers(v, n) = v
BY SubSeqFull DEF FirstNumbers

\* So a plain version is read as it is.
LEMMA PlainKept ==
    ASSUME NEW v \in Seq(Nat), Len(v) \in 1..3
    PROVE  ParseVersion(v) = v
<1>1. \A n \in 1..3 : n <= 3 /\ n # 0
    OBVIOUS
<1>2. v # <<>>
    BY <1>1, EmptySeq
<1>3. FirstNumbers(v, 3) = v
    BY <1>1, FirstNumbersKept
<1> QED
    BY <1>2, <1>3 DEF ParseVersion

\* The fields of an ID are those of its toolchain.
LEMMA ParsedRuntimeID ==
    ASSUME NEW t
    PROVE  ParseRuntimeID(RuntimeID(t)) = ParsedOf(t)
<1>1. CASE t.language = "cpp"
  <2>1. RuntimeID(t) = <<"native_linux", t.language, t.compiler, t.version, t.cruntime,
                         t.cversion, t.stdlib, t.arch>>
      BY <1>1 DEF RuntimeID
  <2> QED
      BY <1>1, <2>1 DEF ParseRuntimeID, ParsedOf
<1>2. CASE t.language # "cpp"
  <2>1. RuntimeID(t) = <<"native_linux", t.language, t.compiler, t.version, t.cruntime,
                         t.cversion, t.arch>>
      BY <1>2 DEF RuntimeID
  <2> QED
      BY <1>2, <2>1 DEF ParseRuntimeID, ParsedOf
<1> QED
    BY <1>1, <1>2

\* An ID is made of these fields and no others.
LEMMA SameID ==
    ASSUME NEW s, NEW t,
           s.language = t.language, s.compiler = t.compiler, s.version = t.version,
           s.cruntime = t.cruntime, s.cversion = t.cversion, s.arch = t.arch,
           t.language = "cpp" => s.stdlib = t.stdlib
    PROVE  RuntimeID(s) = RuntimeID(t)
BY DEF RuntimeID

\* A driver with flags writes the ID anew.
LEMMA WrittenAnew ==
    ASSUME NEW t, NEW d, d # NoFlags
    PROVE  AskedID(RuntimeID(t), d) = RuntimeID(ChangedBy(t, d))
<1> DEFINE m == ModifiedRuntime(ParsedOf(t), d)
           w == [m EXCEPT !.version = VersionToString(@), !.cversion = VersionToString(@)]
           c == ChangedBy(t, d)
<1>1. AskedID(RuntimeID(t), d) = RuntimeID(w)
    BY ParsedRuntimeID DEF AskedID, RuntimeToID
<1>2. /\ w.language = c.language /\ w.compiler = c.compiler /\ w.version = c.version
      /\ w.cruntime = c.cruntime /\ w.cversion = c.cversion /\ w.arch = c.arch
      /\ w.stdlib = c.stdlib
    BY DEF ModifiedRuntime, VersionToString, ParsedOf, ChangedBy
<1> HIDE DEF w, c
<1>3. RuntimeID(w) = RuntimeID(c)
    BY <1>2, SameID
<1> QED
    BY <1>1, <1>3 DEF c

\* Toolchains of the same ID agree in what the flags can change.
LEMMA RuntimeIDInjective ==
    ASSUME NEW s, NEW t, RuntimeID(s) = RuntimeID(t)
    PROVE  /\ s.language = t.language /\ s.version = t.version /\ s.arch = t.arch
           /\ t.language = "cpp" => s.stdlib = t.stdlib
<1>1. /\ RuntimeID(s)[2] = s.language /\ RuntimeID(s)[4] = s.version
      /\ s.language = "cpp" => RuntimeID(s)[7] = s.stdlib /\ RuntimeID(s)[8] = s.arch
      /\ s.language # "cpp" => RuntimeID(s)[7] = s.arch
    BY DEF RuntimeID
<1>2. /\ RuntimeID(t)[2] = t.language /\ RuntimeID(t)[4] = t.version
      /\ t.language = "cpp" => RuntimeID(t)[7] = t.stdlib /\ RuntimeID(t)[8] = t.arch
      /\ t.language # "cpp" => RuntimeID(t)[7] = t.arch
    BY DEF RuntimeID
<1> QED
    BY <1>1, <1>2

\* The flags and the toolchain alone decide what is asked for.
LEMMA FlagsAsk ==
    ASSUME NEW t \in Toolchains, NEW d
    PROVE  LET same == /\ d.arch \in {"", t.arch}
                       /\ d.version \in {<<>>, t.version}
                       /\ t.language = "cpp" => d.stdlib \in {"", t.stdlib}
           IN /\ ~ same => AskedID(RuntimeID(t), d) # RuntimeID(t)
              /\ same => \/ AskedID(RuntimeID(t), d) = RuntimeID(t)
                         \/ ~ Plain(t) /\ d # NoFlags
<1> DEFINE same == /\ d.arch \in {"", t.arch}
                   /\ d.version \in {<<>>, t.version}
                   /\ t.language = "cpp" => d.stdlib \in {"", t.stdlib}
<1>0. /\ t.arch \in Architectures /\ "unknown" \notin Architectures
      /\ t.language \in {"c", "cpp"} /\ t.version \in Seq(Nat) /\ t.cversion \in Seq(Nat)
    BY CommandLineAssumption DEF Architectures
<1>1. PICK c : c = ChangedBy(t, d)
    OBVIOUS
<1>2. /\ c.language = IF t.language = "cpp" THEN "cpp" ELSE "c"
      /\ c.compiler = t.compiler /\ c.cruntime = t.cruntime
      /\ c.version = IF d.version = <<>> THEN ParseVersion(t.version) ELSE d.version
      /\ c.cversion = ParseVersion(t.cversion)
      /\ c.stdlib = IF d.stdlib # "" THEN d.stdlib
                    ELSE IF t.language = "cpp" THEN t.stdlib ELSE "unknown"
      /\ c.arch = IF d.arch = "" THEN t.arch
                  ELSE IF d.arch \in Architectures THEN d.arch ELSE "unknown"
    BY <1>1 DEF ChangedBy
<1>3. ASSUME ~ same PROVE AskedID(RuntimeID(t), d) # RuntimeID(t)
  <2>1. NoFlags.arch = "" /\ NoFlags.version = <<>> /\ NoFlags.stdlib = ""
      BY DEF NoFlags
  <2>2. d # NoFlags
      BY <1>3, <2>1
  <2>3. CASE RuntimeID(c) = RuntimeID(t)
    <3>1. /\ c.language = t.language /\ c.version = t.version /\ c.arch = t.arch
          /\ t.language = "cpp" => c.stdlib = t.stdlib
        BY <2>3, RuntimeIDInjective
    <3> QED
        BY <1>0, <1>3, <1>2, <3>1
  <2> QED
      BY <2>2, <2>3, <1>1, WrittenAnew
<1>4. ASSUME same, Plain(t), d # NoFlags PROVE AskedID(RuntimeID(t), d) = RuntimeID(t)
  <2>1. ParseVersion(t.version) = t.version /\ ParseVersion(t.cversion) = t.cversion
    <3> SUFFICES ASSUME NEW v \in {t.version, t.cversion} PROVE ParseVersion(v) = v
        OBVIOUS
    <3>1. v \in Seq(Nat) /\ Len(v) \in 1..3
        BY <1>0, <1>4 DEF Plain
    <3> QED
        BY <3>1, PlainKept
  <2>2. /\ c.language = t.language /\ c.version = t.version /\ c.cversion = t.cversion
        /\ c.arch = t.arch
        /\ t.language = "cpp" => c.stdlib = t.stdlib
      BY <1>0, <1>4, <1>2, <2>1
  <2>3. RuntimeID(c) = RuntimeID(t)
    <3>1. c.compiler = t.compiler /\ c.cruntime = t.cruntime
        BY <1>2
    <3> QED
        BY <2>2, <3>1, SameID
  <2> QED
      BY <1>4, <2>3, <1>1, WrittenAnew
<1>5. d = NoFlags => AskedID(RuntimeID(t), d) = RuntimeID(t)
    BY DEF AskedID
<1> QED
    BY <1>3, <1>4, <1>5

(***************************************************************************)
(* A driver asks for the runtime of the toolchain it is configured for,    *)
(* exactly as far as the property says: in every state, whatever the       *)
(* flags, and for every detected toolchain.                                *)
(***************************************************************************)
THEOREM LineAsks == LineSpec => []AsksForItsToolchain
<1>1. AsksForItsToolchain
    BY FlagsAsk DEF AsksForItsToolchain
<1> QED
    BY <1>1, PTL

----------------------------------------------------------------------------
\* What has been parsed, with what the loops carry on.
ArParsed ==
  [next : {"command", "archive", "member"}, value : BOOLEAN,
   flags : {<<>>} \cup {Undashed(a) : a \in ArArguments},
   output : ArArguments \cup {<<>>}, inputs : Seq(ArArguments)]

ArTypeOK == arline \in Seq(ArArguments) /\ archive \in ArParsed

\* Before the members the options in a row at the end of the line can be
\* counted, and the parser waits for a value exactly when the next argument
\* reads as one.
ArRunCounted ==
  archive.next # "member" =>
    \E n \in 0..Len(arline) : OptionsBefore(ArValueOptions, arline, Len(arline) + 1, n)
ArWaitsForValue ==
  archive.value <=>
    archive.next # "member" /\ IsValue(ArValueOptions, arline, Len(arline) + 1)

\* The operands up to m are the archive there and, if there is one, a command.
HeadRead(args, p, m) ==
  \/ OperandsUpTo(args, m) = {m} /\ p.flags = <<>> /\ ~ IsCommandString(args[m])
  \/ \E c \in 1..(m - 1) :
       /\ OperandsUpTo(args, m) = {c, m}
       /\ p.flags = Undashed(args[c]) /\ IsCommandString(args[c])

\* The first operand is the command or the archive, the rest behind the
\* archive the members.
OperandsParsed ==
  /\ archive.next = "command" =>
       Operands(arline) = {} /\ archive.flags = <<>> /\ archive.inputs = <<>>
  /\ archive.next = "archive" =>
       /\ archive.inputs = <<>>
       /\ \E c \in 1..Len(arline) :
            /\ Operands(arline) = {c}
            /\ archive.flags = Undashed(arline[c]) /\ IsCommandString(arline[c])
  /\ archive.next = "member" =>
       \E m \in 1..Len(arline) :
         /\ archive.output = arline[m] /\ ~ IsOption(arline[m])
         /\ HeadRead(arline, archive, m)
         /\ Len(archive.inputs) = Len(arline) - m
         /\ \A k \in 1..Len(archive.inputs) : archive.inputs[k] = arline[m + k]

ArInv == ArTypeOK /\ ArRunCounted /\ ArWaitsForValue /\ OperandsParsed

\* Before the first argument nothing is read.
LEMMA ArInvInit == ArInit => ArInv
<1> SUFFICES ASSUME ArInit PROVE ArInv
    OBVIOUS
<1>1. arline = <<>> /\ Len(arline) = 0
    BY DEF ArInit
<1>2. /\ archive.next = "command" /\ archive.value = FALSE /\ archive.flags = <<>>
      /\ archive.output = <<>> /\ archive.inputs = <<>>
    BY DEF ArInit, ArNothing
<1>3. ArTypeOK
    BY <1>1 DEF ArInit, ArNothing, ArTypeOK, ArParsed
<1>4. ArRunCounted
    BY <1>1 DEF ArRunCounted, OptionsBefore
<1>5. ArWaitsForValue
    BY <1>1, <1>2 DEF ArWaitsForValue, IsValue
<1>6. Operands(arline) = {}
    BY <1>1 DEF Operands
<1>7. OperandsParsed
    BY <1>2, <1>6 DEF OperandsParsed
<1> QED
    BY <1>3, <1>4, <1>5, <1>7 DEF ArInv

\* An option that takes a value is an option, a command is none.
LEMMA ValueOptionsAreOptions == \A a \in ArValueOptions : IsOption(a)
<1> SUFFICES ASSUME NEW o, NEW a, a = <<"-", "-", o>> PROVE IsOption(a)
    BY DEF ArValueOptions
<1>1. a # <<>> /\ Head(a) = "-" /\ Head(Tail(a)) = "-"
    OBVIOUS
<1>2. Head(Undashed(a)) = "-"
    BY <1>1 DEF Undashed
<1>3. "-" \notin ArCommands
    BY DEF ArCommands
<1> QED
    BY <1>1, <1>2, <1>3 DEF IsOption, IsCommandString

\* One more argument is an operand, or leaves the operands as they are.
LEMMA OperandsGrow ==
    ASSUME NEW S, NEW s \in Seq(S), NEW a \in S
    PROVE  /\ Operands(s) \subseteq 1..Len(s)
           /\ Operands(Append(s, a))
                = IF IsValue(ArValueOptions, s, Len(s) + 1) \/ IsOption(a)
                  THEN Operands(s) ELSE Operands(s) \cup {Len(s) + 1}
<1> DEFINE t == Append(s, a)
           L == Len(s)
<1>1. /\ L \in Nat /\ Len(t) = L + 1 /\ t[L + 1] = a
      /\ 1..(L + 1) = (1..L) \cup {L + 1} /\ L + 1 \notin 1..L
    BY AppendProperties
<1>2. \A i \in 1..L : t[i] = s[i]
    BY AppendProperties
<1>3. \A i \in 1..(L + 1) :
        IsValue(ArValueOptions, t, i) <=> IsValue(ArValueOptions, s, i)
    BY LocalValue
<1>4. /\ Operands(t) = {i \in 1..(L + 1) : ~ IsValue(ArValueOptions, t, i) /\ ~ IsOption(t[i])}
      /\ Operands(s) = {i \in 1..L : ~ IsValue(ArValueOptions, s, i) /\ ~ IsOption(s[i])}
    BY <1>1 DEF Operands
<1> HIDE DEF t, L
<1>5. /\ Operands(s) \subseteq 1..L
      /\ Operands(t) = IF IsValue(ArValueOptions, s, L + 1) \/ IsOption(a)
                       THEN Operands(s) ELSE Operands(s) \cup {L + 1}
    BY <1>1, <1>2, <1>3, <1>4
<1> QED
    BY <1>5 DEF t, L

\* A pass of the loops keeps the types.
LEMMA ArTypeKept ==
    ASSUME ArInv, NEW a \in ArArguments, ParseArCommandLine(a)
    PROVE  ArTypeOK'
<1>1. arline \in Seq(ArArguments) /\ archive \in ArParsed
    BY DEF ArInv, ArTypeOK
<1>2. arline' \in Seq(ArArguments)
    BY <1>1 DEF ParseArCommandLine
<1>3. archive' \in ArParsed
  <2>1. archive' = ParseArArgument(archive, a)
      BY DEF ParseArCommandLine
  <2>2. Undashed(a) \in {Undashed(b) : b \in ArArguments}
      OBVIOUS
  <2>3. Append(archive.inputs, a) \in Seq(ArArguments)
      BY <1>1 DEF ArParsed
  <2>4. (a \in ArValueOptions) \in BOOLEAN
      OBVIOUS
  <2> QED
      BY <1>1, <2>1, <2>2, <2>3, <2>4 DEF ParseArArgument, ArParsed
<1> QED
    BY <1>2, <1>3 DEF ArTypeOK

\* The operands that have been parsed stay so when an argument follows that
\* is none of them.
LEMMA HeadKept ==
    ASSUME NEW S, NEW s \in Seq(S), NEW a \in S, NEW p, NEW m \in 1..Len(s),
           HeadRead(s, p, m)
    PROVE  HeadRead(Append(s, a), p, m)
<1> DEFINE t == Append(s, a)
<1>1. \A i \in 1..Len(s) : t[i] = s[i]
    BY AppendProperties
<1>2. OperandsUpTo(t, m) = OperandsUpTo(s, m)
    BY OperandsGrow DEF OperandsUpTo
<1> HIDE DEF t
<1>3. HeadRead(t, p, m)
    BY <1>1, <1>2 DEF HeadRead
<1> QED
    BY <1>3 DEF t

\* Every pass of the loops keeps the invariant.
LEMMA ArInvStep ==
    ASSUME ArInv, NEW a \in ArArguments, ParseArCommandLine(a)
    PROVE  ArInv'
<1> DEFINE L == Len(arline)
           value == IsValue(ArValueOptions, arline, L + 1)
           follows == IsValue(ArValueOptions, arline', L + 2)
<1>1. /\ arline \in Seq(ArArguments) /\ arline' = Append(arline, a)
      /\ archive \in ArParsed /\ archive' = ParseArArgument(archive, a)
    BY DEF ArInv, ArTypeOK, ParseArCommandLine
<1>2. /\ L \in Nat /\ arline' \in Seq(ArArguments) /\ Len(arline') = L + 1
      /\ arline'[L + 1] = a /\ \A i \in 1..L : arline'[i] = arline[i]
    BY <1>1, AppendProperties
<1>3. /\ Operands(arline) \subseteq 1..L
      /\ Operands(arline') = IF value \/ IsOption(a) THEN Operands(arline)
                             ELSE Operands(arline) \cup {L + 1}
    BY <1>1, OperandsGrow
<1>4. archive.value <=> archive.next # "member" /\ value
    BY DEF ArInv, ArWaitsForValue
<1>5. ArTypeOK'
    BY ArTypeKept
<1>6. ASSUME archive.next # "member"
      PROVE  /\ \E n \in 0..(L + 1) : OptionsBefore(ArValueOptions, arline', L + 2, n)
             /\ follows <=> a \in ArValueOptions /\ ~ value
  <2>1. PICK n \in 0..L : OptionsBefore(ArValueOptions, arline, L + 1, n)
      BY <1>6 DEF ArInv, ArRunCounted
  <2>2. /\ \/ OptionsBefore(ArValueOptions, arline', L + 2, n + 1)
           \/ OptionsBefore(ArValueOptions, arline', L + 2, 0)
        /\ follows <=> a \in ArValueOptions /\ ~ value
      BY <1>1, <2>1, NextRun, NextValue
  <2>3. n + 1 \in 0..(L + 1) /\ 0 \in 0..(L + 1)
      BY <1>2
  <2> QED
      BY <2>2, <2>3
<1>7. Len(arline') + 1 = L + 2
    BY <1>2
<1> HIDE DEF L, value, follows
<1>8. ArRunCounted'
  <2>1. archive'.next # "member" => archive.next # "member"
      BY <1>1 DEF ParseArArgument, ArParsed
  <2> QED
      BY <1>2, <1>6, <1>7, <2>1 DEF ArRunCounted
<1>9. ArWaitsForValue'
  <2>1. archive'.value <=> archive'.next # "member" /\ follows
    <3>1. CASE archive.next = "member"
        BY <1>1, <1>4, <3>1 DEF ParseArArgument, ArParsed
    <3>2. CASE archive.next # "member" /\ value
        BY <1>1, <1>4, <1>6, <3>2 DEF ParseArArgument, ArParsed
    <3>3. CASE archive.next # "member" /\ ~ value
      <4>1. a \in ArValueOptions => IsOption(a) /\ ~ IsCommandString(a)
          BY ValueOptionsAreOptions DEF IsOption
      <4> QED
          BY <1>1, <1>4, <1>6, <3>3, <4>1 DEF ParseArArgument, ArParsed
    <3> QED
        BY <3>1, <3>2, <3>3
  <2> QED
      BY <1>7, <2>1 DEF ArWaitsForValue, follows
<1>10. OperandsParsed'
  <2>1. CASE archive.next = "member"
    <3>1. PICK m \in 1..L :
            /\ archive.output = arline[m] /\ ~ IsOption(arline[m])
            /\ HeadRead(arline, archive, m)
            /\ Len(archive.inputs) = L - m
            /\ \A k \in 1..Len(archive.inputs) : archive.inputs[k] = arline[m + k]
        BY <2>1 DEF ArInv, OperandsParsed, L
    <3>2. /\ archive'.next = "member" /\ archive'.output = archive.output
          /\ archive'.flags = archive.flags /\ archive'.inputs = Append(archive.inputs, a)
        BY <1>1, <2>1 DEF ParseArArgument, ArParsed
    <3>3. HeadRead(arline', archive', m)
      <4>1. HeadRead(arline', archive, m)
          BY <1>1, <3>1, HeadKept DEF L
      <4> QED
          BY <3>2, <4>1 DEF HeadRead
    <3>4. m \in 1..(L + 1) /\ arline'[m] = arline[m]
        BY <1>2
    <3>5. /\ Len(archive'.inputs) = L + 1 - m
          /\ \A k \in 1..(L + 1 - m) : archive'.inputs[k] = arline'[m + k]
      <4>1. archive.inputs \in Seq(ArArguments)
          BY <1>1 DEF ArParsed
      <4>2. /\ Len(archive'.inputs) = L + 1 - m /\ archive'.inputs[L + 1 - m] = a
            /\ \A k \in 1..(L - m) : archive'.inputs[k] = archive.inputs[k]
        <5>1. PICK ins : ins = archive.inputs
            OBVIOUS
        <5>2. ins \in Seq(ArArguments) /\ Len(ins) = L - m /\ archive'.inputs = Append(ins, a)
            BY <3>1, <3>2, <4>1, <5>1
        <5>3. L - m + 1 = L + 1 - m
            BY <1>2
        <5> QED
            BY <5>1, <5>2, <5>3, AppendProperties
      <4>3. \A k \in 1..(L - m) : arline'[m + k] = archive.inputs[k]
          BY <1>2, <3>1
      <4>4. arline'[m + (L + 1 - m)] = a
          BY <1>2
      <4>5. \A k \in 1..(L + 1 - m) : k \in 1..(L - m) \/ k = L + 1 - m
          BY <1>2
      <4> QED
          BY <4>2, <4>3, <4>4, <4>5
    <3>6. \E n \in 1..Len(arline') :
            /\ archive'.output = arline'[n] /\ ~ IsOption(arline'[n])
            /\ HeadRead(arline', archive', n)
            /\ Len(archive'.inputs) = Len(arline') - n
            /\ \A k \in 1..Len(archive'.inputs) : archive'.inputs[k] = arline'[n + k]
      <4>1. archive'.output = arline'[m] /\ ~ IsOption(arline'[m])
          BY <3>1, <3>2, <3>4
      <4> QED
          BY <1>2, <3>3, <3>4, <3>5, <4>1
    <3> QED
        BY <3>2, <3>6 DEF OperandsParsed
  <2>2. ASSUME archive.next # "member", value \/ (IsOption(a) /\ ~ IsCommandString(a))
        PROVE  OperandsParsed'
    <3>1. /\ archive'.next = archive.next /\ archive'.flags = archive.flags
          /\ archive'.output = archive.output /\ archive'.inputs = archive.inputs
        BY <1>1, <1>4, <2>2 DEF ParseArArgument, ArParsed
    <3>2. Operands(arline') = Operands(arline)
        BY <1>3, <2>2
    <3>3. CASE archive.next = "command"
        BY <3>1, <3>2, <3>3 DEF ArInv, OperandsParsed
    <3>4. CASE archive.next = "archive"
      <4>1. PICK c \in 1..L :
              /\ Operands(arline) = {c} /\ archive.inputs = <<>>
              /\ archive.flags = Undashed(arline[c]) /\ IsCommandString(arline[c])
          BY <3>4 DEF ArInv, OperandsParsed, L
      <4>2. c \in 1..(L + 1) /\ arline'[c] = arline[c]
          BY <1>2
      <4> QED
          BY <1>2, <3>1, <3>2, <3>4, <4>1, <4>2 DEF OperandsParsed
    <3> QED
        BY <1>1, <2>2, <3>3, <3>4 DEF ArParsed
  <2>3. ASSUME archive.next = "command", ~ value, IsCommandString(a)
        PROVE  OperandsParsed'
    <3>1. /\ archive'.next = "archive" /\ archive'.flags = Undashed(a)
          /\ archive'.inputs = archive.inputs
        BY <1>1, <1>4, <2>3 DEF ParseArArgument, ArParsed
    <3>2. ~ IsOption(a) /\ Operands(arline) = {} /\ archive.inputs = <<>>
        BY <2>3 DEF IsOption, ArInv, OperandsParsed
    <3>3. Operands(arline') = {L + 1} /\ L + 1 \in 1..(L + 1)
        BY <1>2, <1>3, <2>3, <3>2
    <3> QED
        BY <1>2, <2>3, <3>1, <3>2, <3>3 DEF OperandsParsed
  <2>4. ASSUME archive.next # "member", ~ value, ~ IsOption(a),
               archive.next = "command" => ~ IsCommandString(a)
        PROVE  OperandsParsed'
    <3>1. /\ archive'.next = "member" /\ archive'.output = a
          /\ archive'.flags = archive.flags /\ archive'.inputs = archive.inputs
        BY <1>1, <1>4, <2>4 DEF ParseArArgument, ArParsed
    <3>2. archive.inputs = <<>> /\ Len(archive.inputs) = 0
        BY <1>1, <2>4 DEF ArInv, OperandsParsed, ArParsed
    <3>3. Operands(arline') = Operands(arline) \cup {L + 1}
        BY <1>3, <2>4
    <3>4. OperandsUpTo(arline', L + 1) = Operands(arline')
        BY <1>2, <1>3, <3>3 DEF OperandsUpTo
    <3>5. HeadRead(arline', archive', L + 1)
      <4>1. CASE archive.next = "command"
        <5>1. Operands(arline) = {} /\ archive.flags = <<>>
            BY <4>1 DEF ArInv, OperandsParsed
        <5> QED
            BY <1>2, <2>4, <3>1, <3>3, <3>4, <4>1, <5>1 DEF HeadRead
      <4>2. CASE archive.next = "archive"
        <5>1. PICK c \in 1..L :
                /\ Operands(arline) = {c}
                /\ archive.flags = Undashed(arline[c]) /\ IsCommandString(arline[c])
            BY <4>2 DEF ArInv, OperandsParsed, L
        <5>2. c \in 1..(L + 1 - 1) /\ arline'[c] = arline[c]
            BY <1>2
        <5>3. OperandsUpTo(arline', L + 1) = {c, L + 1}
            BY <3>3, <3>4, <5>1
        <5>4. archive'.flags = Undashed(arline'[c]) /\ IsCommandString(arline'[c])
            BY <3>1, <5>1, <5>2
        <5> QED
            BY <1>2, <5>2, <5>3, <5>4 DEF HeadRead
      <4> QED
          BY <1>1, <2>4, <4>1, <4>2 DEF ArParsed
    <3> QED
        BY <1>2, <2>4, <3>1, <3>2, <3>5 DEF OperandsParsed
  <2>5. IsOption(a) => ~ IsCommandString(a)
      BY DEF IsOption
  <2>6. CASE archive.next # "member" /\ value
      BY <2>2, <2>6
  <2>7. CASE archive.next # "member" /\ ~ value /\ IsOption(a)
      BY <2>2, <2>5, <2>7
  <2>8. CASE archive.next # "member" /\ ~ value /\ ~ IsOption(a)
      BY <2>3, <2>4, <2>8
  <2> QED
      BY <2>1, <2>6, <2>7, <2>8
<1> QED
    BY <1>5, <1>8, <1>9, <1>10 DEF ArInv

\* So does a step that does not touch the line.
LEMMA ArInvStays == ArInv /\ UNCHANGED arVars => ArInv'
<1> SUFFICES ASSUME ArInv, UNCHANGED arVars PROVE ArInv'
    OBVIOUS
<1>1. arline' = arline /\ archive' = archive
    BY DEF arVars
<1> QED
    BY <1>1 DEF ArInv, ArTypeOK, ArRunCounted, ArWaitsForValue, OperandsParsed

\* When everything behind m is an operand, their places follow that of m.
LEMMA PlacesFollow ==
    ASSUME NEW args, Len(args) \in Nat, NEW m \in 1..Len(args),
           \A i \in (m + 1)..Len(args) : i \in Operands(args)
    PROVE  /\ Operands(args) = OperandsUpTo(args, Len(args))
           /\ \A i \in m..Len(args) :
                /\ OperandsUpTo(args, i) = OperandsUpTo(args, m) \cup ((m + 1)..i)
                /\ Place(args, i) = Place(args, m) + (i - m)
<1>1. Operands(args) \subseteq 1..Len(args)
    BY DEF Operands
<1>2. Operands(args) = OperandsUpTo(args, Len(args))
    BY <1>1 DEF OperandsUpTo
<1>3. ASSUME NEW i \in m..Len(args)
      PROVE  /\ OperandsUpTo(args, i) = OperandsUpTo(args, m) \cup ((m + 1)..i)
             /\ Place(args, i) = Place(args, m) + (i - m)
  <2>1. OperandsUpTo(args, i) = OperandsUpTo(args, m) \cup ((m + 1)..i)
      BY <1>1 DEF OperandsUpTo
  <2>2. OperandsUpTo(args, m) \subseteq 1..m /\ OperandsUpTo(args, m) \cap ((m + 1)..i) = {}
      BY <1>1 DEF OperandsUpTo
  <2>3. IsFiniteSet(OperandsUpTo(args, m))
    <3>1. IsFiniteSet(1..m)
        BY FS_Interval
    <3> QED
        BY <2>2, <3>1, FS_Subset
  <2>4. IsFiniteSet((m + 1)..i) /\ Cardinality((m + 1)..i) = i - m
      BY FS_Interval
  <2>5. Cardinality(OperandsUpTo(args, m)) \in Nat
      BY <2>3, FS_CardinalityType
  <2>6. Cardinality({}) = 0
      BY FS_EmptySet
  <2>7. Cardinality(OperandsUpTo(args, i))
          = Cardinality(OperandsUpTo(args, m)) + (i - m) - 0
    <3>1. Cardinality(OperandsUpTo(args, m) \cup ((m + 1)..i))
            = Cardinality(OperandsUpTo(args, m)) + Cardinality((m + 1)..i)
                - Cardinality(OperandsUpTo(args, m) \cap ((m + 1)..i))
        BY <2>3, <2>4, FS_Union
    <3> QED
        BY <2>1, <2>2, <2>4, <2>6, <3>1
  <2> QED
      BY <2>1, <2>5, <2>7 DEF Place
<1> QED
    BY <1>2, <1>3

\* A command stands in the first place, the archive behind it in the second.
LEMMA PlacesOfHead ==
    ASSUME NEW args, Len(args) \in Nat, NEW m \in Nat
    PROVE  /\ OperandsUpTo(args, m) = {m} => Place(args, m) = 1
           /\ \A c \in 1..(m - 1) :
                OperandsUpTo(args, m) = {c, m} => Place(args, c) = 1 /\ Place(args, m) = 2
<1>1. OperandsUpTo(args, m) = {m} => Place(args, m) = 1
    BY FS_Singleton DEF Place
<1>2. ASSUME NEW c \in 1..(m - 1), OperandsUpTo(args, m) = {c, m}
      PROVE  Place(args, c) = 1 /\ Place(args, m) = 2
  <2>1. OperandsUpTo(args, c) = {c}
    <3>1. \A j \in Operands(args) : j \in Nat
        BY DEF Operands
    <3>2. c \in Operands(args) /\ c < m /\ c \in Nat
        BY <1>2 DEF OperandsUpTo
    <3>3. \A j \in Operands(args) : j <= c => j \in OperandsUpTo(args, m) /\ j # m
        BY <3>1, <3>2 DEF OperandsUpTo
    <3>4. ASSUME NEW j \in OperandsUpTo(args, c) PROVE j = c
      <4>1. j \in Operands(args) /\ j <= c
          BY DEF OperandsUpTo
      <4> QED
          BY <1>2, <3>3, <4>1
    <3>5. c \in OperandsUpTo(args, c)
        BY <3>2 DEF OperandsUpTo
    <3> QED
        BY <3>4, <3>5
  <2>2. Cardinality({c}) = 1 /\ IsFiniteSet({c})
      BY FS_Singleton
  <2>3. Cardinality({c} \cup {m}) = 2
    <3>1. m \notin {c} /\ 1 + 1 = 2
        BY <1>2
    <3>2. Cardinality({c} \cup {m}) = IF m \in {c} THEN Cardinality({c}) ELSE Cardinality({c}) + 1
        BY <2>2, FS_AddElement
    <3> QED
        BY <2>2, <3>1, <3>2
  <2>4. {c} \cup {m} = {c, m}
      OBVIOUS
  <2> QED
      BY <1>2, <2>1, <2>2, <2>3, <2>4 DEF Place
<1> QED
    BY <1>1, <1>2

\* The command that is executed, entry by entry.
LEMMA ArCommandEntries ==
    ASSUME archive.inputs \in Seq(ArArguments)
    PROVE  LET h == IF archive.flags = <<>> THEN 1 ELSE 2
               K == Len(archive.inputs)
           IN /\ Len(ArCommand) = h + K
              /\ archive.flags # <<>> => ArCommand[1] = archive.flags
              /\ ArCommand[h] = archive.output
              /\ \A k \in 1..K : ArCommand[h + k] = archive.inputs[k]
<1>1. PICK ins : ins = archive.inputs
    OBVIOUS
<1>2. PICK out : out = archive.output
    OBVIOUS
<1>3. PICK fl : fl = archive.flags
    OBVIOUS
<1>4. ins \in Seq(ArArguments)
    BY <1>1
<1>5. CASE fl = <<>>
  <2>1. ArCommand = (<<>> \o <<out>>) \o ins
      BY <1>1, <1>2, <1>3, <1>5 DEF ArCommand
  <2> QED
      BY <1>1, <1>2, <1>3, <1>4, <1>5, <2>1
<1>6. CASE fl # <<>>
  <2>1. ArCommand = (<<fl>> \o <<out>>) \o ins
      BY <1>1, <1>2, <1>3, <1>6 DEF ArCommand
  <2> QED
      BY <1>1, <1>2, <1>3, <1>4, <1>6, <2>1
<1> QED
    BY <1>5, <1>6

\* What is parsed is what was typed.
LEMMA ArInvSays == ArInv => ArchivesAsTyped
<1> SUFFICES ASSUME ArInv, ArRuns, \A a \in Range(archive.inputs) : ~ IsOption(a)
             PROVE  ArchivesAsTyped
    BY DEF ArchivesAsTyped
<1> DEFINE L == Len(arline)
           K == Len(archive.inputs)
           typed == Operands(arline)
           h == IF archive.flags = <<>> THEN 1 ELSE 2
<1>1. /\ arline \in Seq(ArArguments) /\ L \in Nat /\ archive \in ArParsed
      /\ archive.inputs \in Seq(ArArguments) /\ archive.inputs # <<>>
    BY DEF ArInv, ArTypeOK, ArParsed, ArRuns
<1>2. archive.next = "member"
    BY <1>1 DEF ArInv, OperandsParsed, ArParsed
<1>3. PICK m \in 1..L :
        /\ archive.output = arline[m] /\ ~ IsOption(arline[m])
        /\ HeadRead(arline, archive, m)
        /\ K = L - m
        /\ \A k \in 1..K : archive.inputs[k] = arline[m + k]
    BY <1>2 DEF ArInv, OperandsParsed
<1>4. ASSUME NEW i \in (m + 1)..L
      PROVE  i - m \in 1..K /\ arline[i] = archive.inputs[i - m] /\ ~ IsOption(arline[i])
  <2>1. i - m \in 1..K /\ m + (i - m) = i
      BY <1>1, <1>3
  <2>2. arline[i] = archive.inputs[i - m]
      BY <1>3, <2>1
  <2>3. archive.inputs[i - m] \in Range(archive.inputs)
      BY <1>1, <2>1, RangeEquality
  <2> QED
      BY <2>1, <2>2, <2>3
<1>5. \A i \in (m + 1)..L : i \in typed
  <2> SUFFICES ASSUME NEW i \in (m + 1)..L, IsValue(ArValueOptions, arline, i)
               PROVE  FALSE
      BY <1>1, <1>4 DEF Operands
  <2>1. arline[i - 1] \in ArValueOptions
      BY <1>1, ValueHasOption
  <2>2. i - 1 = m \/ i - 1 \in (m + 1)..L
      BY <1>1
  <2> QED
      BY <1>3, <1>4, <2>1, <2>2, ValueOptionsAreOptions
<1>6. /\ typed = OperandsUpTo(arline, L)
      /\ \A i \in m..L :
           /\ OperandsUpTo(arline, i) = OperandsUpTo(arline, m) \cup ((m + 1)..i)
           /\ Place(arline, i) = Place(arline, m) + (i - m)
    BY <1>1, <1>5, PlacesFollow
<1>7. /\ typed = OperandsUpTo(arline, m) \cup ((m + 1)..L)
      /\ Cardinality(typed) = Place(arline, m) + K
    BY <1>1, <1>3, <1>6 DEF Place
<1>8. /\ Len(ArCommand) = h + K
      /\ archive.flags # <<>> => ArCommand[1] = archive.flags
      /\ ArCommand[h] = archive.output
      /\ \A k \in 1..K : ArCommand[h + k] = archive.inputs[k]
    BY <1>1, ArCommandEntries
<1> HIDE DEF L, K, typed
\* With a command or without, the archive is behind it.
<1>9. ASSUME Place(arline, m) = h, OperandsUpTo(arline, m) \subseteq 1..m,
             \A i \in OperandsUpTo(arline, m) : i # m => ArCommand[Place(arline, i)] = Undashed(arline[i]),
             Command(arline) = OperandsUpTo(arline, m) \ {m},
             Command(arline) = {} <=> archive.flags = <<>>,
             m \in OperandsUpTo(arline, m)
      PROVE  ArchivesAsTyped
  <2>1. Len(ArCommand) = Cardinality(typed)
      BY <1>7, <1>8, <1>9
  <2>2. ASSUME NEW i \in typed
        PROVE  ArCommand[Place(arline, i)] =
                 IF i \in Command(arline) THEN Undashed(arline[i]) ELSE arline[i]
    <3>1. CASE i \in (m + 1)..L
      <4>1. Place(arline, i) = h + (i - m) /\ i - m \in 1..K
          BY <1>1, <1>4, <1>6, <1>9, <3>1
      <4>2. i \notin Command(arline)
          BY <1>1, <1>9, <3>1
      <4> QED
          BY <1>4, <1>8, <3>1, <4>1, <4>2
    <3>2. CASE i = m
        BY <1>3, <1>8, <1>9, <3>2
    <3>3. CASE i \in OperandsUpTo(arline, m) /\ i # m
        BY <1>9, <3>3
    <3> QED
        BY <1>7, <3>1, <3>2, <3>3
  <2>3. m \in typed /\ arline[m] = archive.output
      BY <1>3, <1>7, <1>9
  <2>4. h = IF Command(arline) = {} THEN 1 ELSE 2
      BY <1>9
  <2> HIDE DEF h
  <2> QED
      BY <1>9, <2>1, <2>2, <2>3, <2>4 DEF ArchivesAsTyped, typed
<1>10. CASE OperandsUpTo(arline, m) = {m} /\ archive.flags = <<>> /\ ~ IsCommandString(arline[m])
  <2>1. Place(arline, m) = 1
      BY <1>10, PlacesOfHead
  <2>2. \A i \in (m + 1)..L : Place(arline, i) # 1
      BY <1>1, <1>6, <2>1
  <2>3. Command(arline) = {}
      BY <1>7, <1>10, <2>2 DEF Command, typed
  <2> QED
      BY <1>9, <1>10, <2>1, <2>3
<1>11. ASSUME NEW c \in 1..(m - 1), OperandsUpTo(arline, m) = {c, m},
              archive.flags = Undashed(arline[c]), IsCommandString(arline[c])
       PROVE  ArchivesAsTyped
  <2>1. Place(arline, c) = 1 /\ Place(arline, m) = 2
      BY <1>11, PlacesOfHead
  <2>2. \A i \in (m + 1)..L : Place(arline, i) # 1
      BY <1>1, <1>6, <2>1
  <2>3. Command(arline) = {c}
      BY <1>7, <1>11, <2>1, <2>2 DEF Command, typed
  <2>4. archive.flags # <<>>
      BY <1>11 DEF IsCommandString
  <2> QED
      BY <1>8, <1>9, <1>11, <2>1, <2>3, <2>4
<1> QED
    BY <1>3, <1>10, <1>11 DEF HeadRead

(***************************************************************************)
(* The parser of ar and the runtime between them pass on the operands of   *)
(* every command line, of any length, as the property says.                *)
(***************************************************************************)
THEOREM ArchiveReads == ArSpec => []ArchivesAsTyped
<1>1. ArInv /\ [ArNext]_arVars => ArInv'
    BY ArInvStep, ArInvStays DEF ArNext
<1> QED
    BY <1>1, ArInvInit, ArInvSays, PTL DEF ArSpec
=============================================================================
