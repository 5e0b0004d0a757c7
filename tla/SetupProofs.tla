---------------------------- MODULE SetupProofs ----------------------------
(***************************************************************************)
(* Three facts about the setup commands, for any number of sessions,       *)
(* configurations and servers, and any crashes, aborts and edits.  What is *)
(* said of entries is in EntryProofs.                                      *)
(*                                                                         *)
(* A command line that setup writes is read back as the policy and the     *)
(* upstream it was written for.  The options are written one after another *)
(* and each fills its own row of the table that the reader makes of them   *)
(* (Gives), so the table is known without an induction over the words.     *)
(*                                                                         *)
(* The gateway can always load its routes.  A manual setup chooses its     *)
(* port by the routes it has read, waits for its user, and only then takes *)
(* the lock.  That is sound because a route that changed in the meantime   *)
(* is one the session knows to have moved (PortStands), and because every  *)
(* disk a session that writes may leave behind has the routes of the plan  *)
(* or those before it, which agree (StakesAgree).                          *)
(*                                                                         *)
(* A restore writes no policy but the one the user had without setup.      *)
(* While nobody writes, an entry and its record fit, and so do a policy    *)
(* and the records that name it (AtRest).  While a session writes, that    *)
(* holds of the disk as it was and of the disk as planned; each entry fits *)
(* the record that the order of the writes has put beside it, and a file   *)
(* that has not moved is on the one disk or on the other (Works).  So the  *)
(* disk is at rest again wherever the session ends, but for the policies   *)
(* in `broken`.                                                            *)
(***************************************************************************)
EXTENDS Setup, TLAPS, FiniteSetTheorems, SequenceTheorems

-----------------------------------------------------------------------------
(* A command line says what its writer meant.                              *)

(* Words, and the pairs of an option and its value they stand for. *)
Word == STRING \cup Options \cup {"--"}
Pair == Word \X Word
Pairs == Seq(Pair)

LEMMA WordsAre ==
    ASSUME NEW pairs \in Pairs
    PROVE  /\ Words(pairs) \in Seq(Word) /\ Len(Words(pairs)) = 2 * Len(pairs)
           /\ \A k \in 1..Len(pairs) : /\ Words(pairs)[2 * k - 1] = pairs[k][1]
                                       /\ Words(pairs)[2 * k] = pairs[k][2]
  <1> DEFINE n == Len(pairs)
  <1>1. n \in Nat /\ \A k \in 1..n : pairs[k] \in Word \X Word
    BY DEF Pairs, Pair
  <1>2. \A i \in 1..(2 * n) : /\ (i + 1) \div 2 \in 1..n
                              /\ 2 - (i % 2) \in {1, 2}
    BY <1>1
  <1>3. \A k \in 1..n : /\ 2 * k - 1 \in 1..(2 * n) /\ 2 * k \in 1..(2 * n)
                        /\ (2 * k - 1 + 1) \div 2 = k /\ (2 * k + 1) \div 2 = k
                        /\ 2 - ((2 * k - 1) % 2) = 1 /\ 2 - ((2 * k) % 2) = 2
    BY <1>1
  <1>4. \A i \in 1..(2 * n) : pairs[(i + 1) \div 2][2 - (i % 2)] \in Word
    BY <1>1, <1>2
  <1>5. Words(pairs) \in Seq(Word) /\ Len(Words(pairs)) = 2 * n
    BY <1>1, <1>4 DEF Words
  <1> QED
    BY <1>1, <1>3, <1>5 DEF Words

(* The words of pairs are read back as those pairs, up to a "--". *)
LEMMA WordsRead ==
    ASSUME NEW pairs \in Pairs, NEW rest \in Seq(Word),
           rest = <<>> \/ rest[1] = "--",
           \A k \in 1..Len(pairs) : pairs[k][1] # "--" /\ pairs[k][2] # "--"
    PROVE  ParseManagedWrapper(Words(pairs) \o rest) = ParseOptions(pairs, ValuesGiven(pairs), rest)
  <1> DEFINE n == Len(pairs)
             w == Words(pairs)
             args == w \o rest
             dash == 2 * n + 1
  <1>1. n \in Nat /\ w \in Seq(Word) /\ Len(w) = 2 * n
    BY WordsAre DEF Pairs
  <1>2. /\ args \in Seq(Word) /\ Len(args) = 2 * n + Len(rest)
        /\ \A i \in 1..(2 * n) : args[i] = w[i]
        /\ \A i \in 1..Len(rest) : args[2 * n + i] = rest[i]
    <2>1. Len(rest) \in Nat
      OBVIOUS
    <2> HIDE DEF w
    <2>2. /\ args \in Seq(Word) /\ Len(args) = Len(w) + Len(rest)
          /\ \A i \in 1..Len(args) : args[i] = IF i <= Len(w) THEN w[i] ELSE rest[i - Len(w)]
      <3> HIDE DEF n
      <3>1. \A v \in Seq(Word), u \in Seq(Word) :
               /\ v \o u \in Seq(Word) /\ Len(v \o u) = Len(v) + Len(u)
               /\ \A i \in 1..(Len(v) + Len(u)) :
                     (v \o u)[i] = IF i <= Len(v) THEN v[i] ELSE u[i - Len(v)]
        BY ConcatProperties, Zenon
      <3> QED
        BY <1>1, <3>1
    <2>3. \A i \in 1..(2 * n) : i \in 1..Len(args) /\ i <= Len(w)
      BY <1>1, <2>1, <2>2
    <2>4. \A i \in 1..Len(rest) : /\ 2 * n + i \in 1..Len(args) /\ ~(2 * n + i <= Len(w))
                                  /\ 2 * n + i - Len(w) = i
      BY <1>1, <2>1, <2>2
    <2> HIDE DEF args
    <2> QED
      BY <1>1, <2>1, <2>2, <2>3, <2>4
  <1>3. \A k \in 1..n : args[2 * k - 1] = pairs[k][1] /\ args[2 * k] = pairs[k][2]
    <2> TAKE k \in 1..n
    <2>1. 2 * k - 1 \in 1..(2 * n) /\ 2 * k \in 1..(2 * n)
      BY <1>1
    <2>2. w[2 * k - 1] = pairs[k][1] /\ w[2 * k] = pairs[k][2]
      BY WordsAre
    <2> HIDE DEF args, w
    <2> QED
      BY <1>2, <2>1, <2>2
  <1>4. \A i \in 1..(2 * n) : args[i] # "--"
    <2> TAKE i \in 1..(2 * n)
    <2>1. PICK k \in 1..n : i = 2 * k - 1 \/ i = 2 * k
      <3>1. CASE i % 2 = 0
        BY <1>1, <3>1, i = 2 * (i \div 2), i \div 2 \in 1..n
      <3>2. CASE i % 2 = 1
        BY <1>1, <3>2, i = 2 * (i \div 2 + 1) - 1, i \div 2 + 1 \in 1..n
      <3> QED
        BY <1>1, <3>1, <3>2
    <2> HIDE DEF args
    <2> QED
      BY <1>3, <2>1
  <1> HIDE DEF args, w
  <1>5. Len(rest) \in Nat
    OBVIOUS
  <1>6. dash \in 1..(Len(args) + 1) /\ (dash = Len(args) + 1 \/ args[dash] = "--")
    BY <1>1, <1>2, <1>5
  <1>7. \A i \in 1..(Len(args) + 1) :
          (/\ i = Len(args) + 1 \/ args[i] = "--"
           /\ \A j \in 1..(i - 1) : args[j] # "--") => i = dash
    <2> SUFFICES ASSUME NEW i \in 1..(Len(args) + 1), i = Len(args) + 1 \/ args[i] = "--",
                        \A j \in 1..(i - 1) : args[j] # "--"
                 PROVE  i = dash
      OBVIOUS
    <2>1. ~(i > dash)
      BY <1>1, <1>2, <1>5, <1>6
    <2>2. ~(i < dash)
      BY <1>1, <1>2, <1>4, <1>5
    <2> QED
      BY <1>1, <1>2, <2>1, <2>2
  <1>8. FirstDash(args) = dash
    BY <1>1, <1>4, <1>6, <1>7 DEF FirstDash
  <1>9. (dash - 1) % 2 = 0 /\ (dash - 1) \div 2 = n
    BY <1>1
  <1>10. OptionPairs(args, dash) = pairs
    <2>1. OptionPairs(args, dash) = [k \in 1..n |-> <<pairs[k][1], pairs[k][2]>>]
      BY <1>3, <1>9 DEF OptionPairs
    <2>2. \A k \in 1..n : pairs[k] = <<pairs[k][1], pairs[k][2]>>
      BY <1>1 DEF Pairs, Pair
    <2>3. pairs = [k \in 1..n |-> pairs[k]]
      BY <1>1 DEF Pairs
    <2> QED
      BY <2>1, <2>2, <2>3
  <1>11. SubSeq(args, dash, Len(args)) = rest
    <2>1. SubSeq(args, dash, Len(args)) \in Seq(Word)
      BY <1>1, <1>2, <1>5, SubSeqProperties
    <2>2. Len(SubSeq(args, dash, Len(args))) = Len(rest)
      BY <1>1, <1>2, <1>5, SubSeqProperties
    <2>3. \A i \in 1..Len(rest) : SubSeq(args, dash, Len(args))[i] = rest[i]
      BY <1>1, <1>2, <1>5, SubSeqProperties
    <2> HIDE DEF dash
    <2> QED
      BY <2>1, <2>2, <2>3, SeqEqual
  <1> QED
    BY <1>8, <1>9, <1>10, <1>11 DEF ParseManagedWrapper, ParseWords, args, w

(* Sequences of anything. *)
LEMMA Joined ==
    ASSUME NEW S, NEW v \in Seq(S), NEW u \in Seq(S)
    PROVE  /\ v \o u \in Seq(S) /\ Len(v \o u) = Len(v) + Len(u)
           /\ \A i \in 1..Len(v) : (v \o u)[i] = v[i]
           /\ \A i \in 1..Len(u) : (v \o u)[Len(v) + i] = u[i]
  <1>1. Len(v) \in Nat /\ Len(u) \in Nat
    OBVIOUS
  <1>2. /\ v \o u \in Seq(S) /\ Len(v \o u) = Len(v) + Len(u)
        /\ \A i \in 1..(Len(v) + Len(u)) :
              (v \o u)[i] = IF i <= Len(v) THEN v[i] ELSE u[i - Len(v)]
    BY ConcatProperties, Zenon
  <1> DEFINE w == v \o u
  <1> HIDE DEF w
  <1>3. /\ w \in Seq(S) /\ Len(w) = Len(v) + Len(u)
        /\ \A i \in 1..(Len(v) + Len(u)) : w[i] = IF i <= Len(v) THEN v[i] ELSE u[i - Len(v)]
    BY <1>2 DEF w
  <1>4. \A i \in 1..Len(v) : w[i] = v[i]
    BY <1>1, <1>3
  <1>5. ASSUME NEW i \in 1..Len(u)
        PROVE  w[Len(v) + i] = u[i]
    <2>1. Len(v) + i \in 1..(Len(v) + Len(u)) /\ ~(Len(v) + i <= Len(v)) /\ Len(v) + i - Len(v) = i
      BY <1>1
    <2> QED
      BY <1>3, <2>1
  <1> QED
    BY <1>3, <1>4, <1>5 DEF w


LEMMA FunctionSeq ==
    ASSUME NEW S, NEW n \in Nat, NEW f, f = [i \in 1..n |-> f[i]], \A i \in 1..n : f[i] \in S
    PROVE  f \in Seq(S) /\ Len(f) = n
  <1>1. f \in [1..n -> S]
    OBVIOUS
  <1>2. f \in Seq(S) /\ DOMAIN f = 1..n
    BY <1>1
  <1> QED
    BY <1>2

LEMMA Singleton ==
    ASSUME NEW S, NEW x \in S
    PROVE  <<x>> \in Seq(S) /\ Len(<<x>>) = 1 /\ <<x>>[1] = x
  OBVIOUS

LEMMA PairOf ==
    ASSUME NEW option \in Word, NEW value \in Word
    PROVE  /\ <<option, value>> \in Pair
           /\ <<option, value>>[1] = option /\ <<option, value>>[2] = value
  BY DEF Pair

LEMMA EachIs ==
    ASSUME NEW option \in Word, NEW values \in Seq(Word)
    PROVE  /\ Each(option, values) \in Seq(Pair) /\ Len(Each(option, values)) = Len(values)
           /\ \A i \in 1..Len(values) : /\ Each(option, values)[i][1] = option
                                        /\ Each(option, values)[i][2] = values[i]
  <1> DEFINE n == Len(values)
             f == Each(option, values)
  <1>1. /\ n \in Nat /\ DOMAIN values = 1..n
        /\ \A i \in 1..n : values[i] \in Word
    OBVIOUS
  <1>2. f = [i \in 1..n |-> <<option, values[i]>>]
    BY <1>1 DEF Each
  <1>3. f = [i \in 1..n |-> f[i]]
    BY <1>2
  <1>4. ASSUME NEW i \in 1..n
        PROVE  f[i] \in Pair /\ f[i][1] = option /\ f[i][2] = values[i]
    <2> DEFINE x == <<option, values[i]>>
    <2>1. x \in Pair /\ x[1] = option /\ x[2] = values[i]
      BY <1>1, PairOf
    <2>2. f[i] = x
      BY <1>2
    <2> HIDE DEF x, f
    <2> QED
      BY <2>1, <2>2
  <1> HIDE DEF n, f
  <1>5. f \in Seq(Pair) /\ Len(f) = n
    BY <1>1, <1>3, <1>4, FunctionSeq
  <1> QED
    BY <1>4, <1>5 DEF n, f

(* An option whose pairs stand side by side has the values they give, in order. *)
LEMMA ValuesAre ==
    ASSUME NEW pairs \in Seq(Pair), NEW option, NEW a \in Nat \ {0}, NEW values \in Seq(Word),
           a + Len(values) - 1 <= Len(pairs),
           \A k \in 1..Len(pairs) :
              (pairs[k][1] = option) <=> (a <= k /\ k <= a + Len(values) - 1),
           \A i \in 1..Len(values) : pairs[a + i - 1][2] = values[i]
    PROVE  ValuesOf(pairs, option) = values
  <1> DEFINE n == Len(values)
             at == {k \in DOMAIN pairs : pairs[k][1] = option}
  <1>1. n \in Nat /\ Len(pairs) \in Nat /\ DOMAIN pairs = 1..Len(pairs)
    OBVIOUS
  <1>2. at = a..(a + n - 1)
    <2>1. at = {k \in 1..Len(pairs) : a <= k /\ k <= a + n - 1}
      BY <1>1
    <2> QED
      BY <1>1, <2>1
  <1> HIDE DEF at, n
  <1>3. Cardinality(at) = n
    <2> DEFINE b == a + n - 1
    <2> HIDE DEF b
    <2>1. Cardinality(a..b) = IF a > b THEN 0 ELSE b - a + 1
      BY <1>1, FS_Interval DEF b
    <2>2. (IF a > b THEN 0 ELSE b - a + 1) = n
      BY <1>1 DEF b
    <2> QED
      BY <1>2, <2>1, <2>2 DEF b
  <1>4. \A k \in at : Cardinality({j \in at : j <= k}) = k - a + 1
    <2> TAKE k \in at
    <2>1. k \in Nat /\ a <= k /\ {j \in at : j <= k} = a..k
      BY <1>1, <1>2
    <2>2. Cardinality(a..k) = IF a > k THEN 0 ELSE k - a + 1
      BY <2>1, FS_Interval
    <2> QED
      BY <2>1, <2>2, ~(a > k)
  <1>5. ASSUME NEW i \in 1..n
        PROVE  (CHOOSE k \in at : Cardinality({j \in at : j <= k}) = i) = a + i - 1
    <2>1. \A k \in at : (Cardinality({j \in at : j <= k}) = i) <=> (k = a + i - 1)
      <3> TAKE k \in at
      <3>1. k \in Nat
        BY <1>1, <1>2
      <3> QED
        BY <1>1, <1>4, <3>1
    <2>2. a + i - 1 \in at
      BY <1>1, <1>2
    <2> QED
      BY <2>1, <2>2
  <1>6. ValuesOf(pairs, option) =
          [i \in 1..Cardinality(at) |->
             pairs[CHOOSE k \in at : Cardinality({j \in at : j <= k}) = i][2]]
    BY DEF ValuesOf, at
  <1>7. [i \in 1..n |-> pairs[a + i - 1][2]] = [i \in 1..n |-> values[i]]
    BY DEF n
  <1>8. values = [i \in 1..n |-> values[i]]
    BY DEF n
  <1>9. ValuesOf(pairs, option) = [i \in 1..n |-> pairs[a + i - 1][2]]
    BY <1>3, <1>5, <1>6
  <1> QED
    BY <1>7, <1>8, <1>9

(* The pairs of `option` stand side by side and give `values`. *)
ReadsAs(pairs, option, values) ==
    \E a \in Nat \ {0} :
        /\ a + Len(values) - 1 <= Len(pairs)
        /\ \A k \in 1..Len(pairs) :
              (pairs[k][1] = option) <=> (a <= k /\ k <= a + Len(values) - 1)
        /\ \A i \in 1..Len(values) : pairs[a + i - 1][2] = values[i]

LEMMA NoneRead ==
    ASSUME NEW option
    PROVE  ReadsAs(<<>>, option, <<>>)
  <1> DEFINE none == <<>>
  <1>1. Len(none) = 0
    OBVIOUS
  <1> HIDE DEF none
  <1>2. ReadsAs(none, option, none)
    <2>1. 1 \in Nat \ {0} /\ 1 + Len(none) - 1 <= Len(none)
      BY <1>1
    <2>2. \A k \in 1..Len(none) :
             (none[k][1] = option) <=> (1 <= k /\ k <= 1 + Len(none) - 1)
      BY <1>1
    <2>3. \A i \in 1..Len(none) : none[1 + i - 1][2] = none[i]
      BY <1>1
    <2> QED
      BY <2>1, <2>2, <2>3 DEF ReadsAs
  <1> QED
    BY <1>2 DEF none

LEMMA NotRead ==
    ASSUME NEW v \in Seq(Pair), NEW option, ReadsAs(v, option, <<>>)
    PROVE  \A k \in 1..Len(v) : v[k][1] # option
  <1> DEFINE none == <<>>
  <1>1. ReadsAs(v, option, none) /\ Len(none) = 0
    OBVIOUS
  <1> HIDE DEF none
  <1>2. PICK a \in Nat \ {0} :
           \A k \in 1..Len(v) : (v[k][1] = option) <=> (a <= k /\ k <= a + Len(none) - 1)
    BY <1>1 DEF ReadsAs
  <1> QED
    BY <1>1, <1>2

LEMMA JoinedPairs ==
    ASSUME NEW v \in Seq(Pair), NEW u \in Seq(Pair)
    PROVE  /\ v \o u \in Seq(Pair) /\ Len(v \o u) = Len(v) + Len(u)
           /\ \A i \in 1..Len(v) : (v \o u)[i] = v[i]
           /\ \A i \in 1..Len(u) : (v \o u)[Len(v) + i] = u[i]
  BY Joined, SMT

Joins(p, v, u) ==
    /\ p \in Seq(Pair) /\ v \in Seq(Pair) /\ u \in Seq(Pair) /\ Len(p) = Len(v) + Len(u)
    /\ \A i \in 1..Len(v) : p[i] = v[i]
    /\ \A i \in 1..Len(u) : p[Len(v) + i] = u[i]
Block(u, option, values) ==
    /\ Len(u) = Len(values)
    /\ \A i \in 1..Len(values) : u[i][1] = option /\ u[i][2] = values[i]
Lacks(v, option) == \A k \in 1..Len(v) : v[k][1] # option

(* A block of pairs of a new option is read, and leaves the other options alone. *)
LEMMA AppendedReads ==
    ASSUME NEW p, NEW v, NEW u, NEW option, NEW values \in Seq(Word),
           Joins(p, v, u), Block(u, option, values), Lacks(v, option)
    PROVE  /\ ReadsAs(p, option, values)
           /\ \A o, w : o # option /\ w \in Seq(Word) /\ ReadsAs(v, o, w) => ReadsAs(p, o, w)
  <1> USE DEF Joins, Block, Lacks
  <1>1. Len(v) \in Nat /\ Len(u) \in Nat /\ Len(values) \in Nat
    OBVIOUS
  <1>2. Len(p) = Len(v) + Len(u)
    OBVIOUS
  <1>3. ASSUME NEW k \in 1..Len(p)
        PROVE  \/ k \in 1..Len(v) /\ p[k] = v[k]
               \/ k - Len(v) \in 1..Len(u) /\ p[k] = u[k - Len(v)]
    <2>1. CASE k <= Len(v)
      BY <1>1, <1>2, <2>1
    <2>2. CASE ~(k <= Len(v))
      <3>1. k - Len(v) \in 1..Len(u) /\ Len(v) + (k - Len(v)) = k
        BY <1>1, <1>2, <2>2
      <3> QED
        BY <1>2, <3>1
    <2> QED
      BY <2>1, <2>2
  <1>4. ReadsAs(p, option, values)
    <2> DEFINE a == Len(v) + 1
    <2>1. a \in Nat \ {0} /\ a + Len(values) - 1 <= Len(p)
      BY <1>1, <1>2
    <2>2. ASSUME NEW k \in 1..Len(p)
          PROVE  (p[k][1] = option) <=> (a <= k /\ k <= a + Len(values) - 1)
      <3>1. CASE k \in 1..Len(v) /\ p[k] = v[k]
        BY <1>1, <3>1
      <3>2. CASE k - Len(v) \in 1..Len(u) /\ p[k] = u[k - Len(v)]
        BY <1>1, <3>2
      <3> QED
        BY <1>3, <3>1, <3>2
    <2>3. ASSUME NEW i \in 1..Len(values)
          PROVE  p[a + i - 1][2] = values[i]
      <3>1. a + i - 1 = Len(v) + i /\ i \in 1..Len(u)
        BY <1>1
      <3> HIDE DEF a
      <3> QED
        BY <3>1
    <2> HIDE DEF a
    <2> QED
      BY <2>1, <2>2, <2>3 DEF ReadsAs
  <1>5. ASSUME NEW o, NEW w \in Seq(Word), o # option, ReadsAs(v, o, w)
        PROVE  ReadsAs(p, o, w)
    <2>1. PICK a \in Nat \ {0} :
             /\ a + Len(w) - 1 <= Len(v)
             /\ \A k \in 1..Len(v) : (v[k][1] = o) <=> (a <= k /\ k <= a + Len(w) - 1)
             /\ \A i \in 1..Len(w) : v[a + i - 1][2] = w[i]
      BY <1>5 DEF ReadsAs
    <2>2. Len(w) \in Nat
      OBVIOUS
    <2>3. a + Len(w) - 1 <= Len(p)
      BY <1>1, <1>2, <2>1, <2>2
    <2>4. ASSUME NEW k \in 1..Len(p)
          PROVE  (p[k][1] = o) <=> (a <= k /\ k <= a + Len(w) - 1)
      <3>1. CASE k \in 1..Len(v) /\ p[k] = v[k]
        BY <2>1, <3>1
      <3>2. CASE k - Len(v) \in 1..Len(u) /\ p[k] = u[k - Len(v)]
        BY <1>1, <1>5, <2>1, <2>2, <3>2
      <3> QED
        BY <1>3, <3>1, <3>2
    <2>5. ASSUME NEW i \in 1..Len(w)
          PROVE  p[a + i - 1][2] = w[i]
      <3>1. a + i - 1 \in 1..Len(v)
        BY <1>1, <2>1, <2>2
      <3> QED
        BY <1>2, <2>1, <3>1
    <2> QED
      BY <2>1, <2>3, <2>4, <2>5 DEF ReadsAs
  <1> QED
    BY <1>4, <1>5

(* What `pairs` say of every option. *)
Gives(pairs, given) ==
    /\ pairs \in Seq(Pair)
    /\ \A k \in 1..Len(pairs) : pairs[k][1] \in Options /\ Plain(pairs[k][2])
    /\ given \in [Options -> Seq(Word)]
    /\ \A option \in Options : ReadsAs(pairs, option, given[option])

LEMMA GivesValues ==
    ASSUME NEW pairs, NEW given, Gives(pairs, given)
    PROVE  ValuesGiven(pairs) = given
  <1>1. pairs \in Seq(Pair) /\ given \in [Options -> Seq(Word)]
    BY DEF Gives
  <1>2. ASSUME NEW option \in Options
        PROVE  ValuesOf(pairs, option) = given[option]
    <2>1. given[option] \in Seq(Word)
      BY <1>1
    <2>2. PICK a \in Nat \ {0} :
             /\ a + Len(given[option]) - 1 <= Len(pairs)
             /\ \A k \in 1..Len(pairs) :
                   (pairs[k][1] = option) <=> (a <= k /\ k <= a + Len(given[option]) - 1)
             /\ \A i \in 1..Len(given[option]) : pairs[a + i - 1][2] = given[option][i]
      BY DEF Gives, ReadsAs
    <2> DEFINE values == given[option]
    <2>3. /\ values \in Seq(Word) /\ a + Len(values) - 1 <= Len(pairs)
          /\ \A k \in 1..Len(pairs) :
                (pairs[k][1] = option) <=> (a <= k /\ k <= a + Len(values) - 1)
          /\ \A i \in 1..Len(values) : pairs[a + i - 1][2] = values[i]
      BY <2>1, <2>2
    <2> HIDE DEF values
    <2>4. ValuesOf(pairs, option) = values
      BY <1>1, <2>3, ValuesAre
    <2> QED
      BY <2>4 DEF values
  <1> QED
    BY <1>1, <1>2 DEF ValuesGiven

NothingGiven == [option \in Options |-> <<>>]

LEMMA GivesNothing ==
    Gives(<<>>, NothingGiven)
  <1> DEFINE none == <<>>
  <1>1. none \in Seq(Pair) /\ none \in Seq(Word) /\ Len(none) = 0
    BY EmptySeq
  <1>2. \A option \in Options : ReadsAs(none, option, none)
    BY NoneRead
  <1>3. NothingGiven = [option \in Options |-> none]
    BY DEF NothingGiven
  <1> HIDE DEF none
  <1>4. \A k \in 1..Len(none) : FALSE
    BY <1>1
  <1>5. /\ NothingGiven \in [Options -> Seq(Word)]
        /\ \A option \in Options : ReadsAs(none, option, NothingGiven[option])
    BY <1>1, <1>2, <1>3
  <1>6. Gives(none, NothingGiven)
    BY <1>1, <1>4, <1>5 DEF Gives
  <1> QED
    BY <1>6 DEF none

(* The command line is written option by option. *)
LEMMA GivesEach ==
    ASSUME NEW v, NEW given, NEW option \in Word, option \in Options,
           NEW values \in Seq(Word), Gives(v, given), given[option] = <<>>,
           \A i \in 1..Len(values) : Plain(values[i])
    PROVE  Gives(v \o Each(option, values), [given EXCEPT ![option] = values])
  <1> DEFINE u == Each(option, values)
             p == v \o u
             table == [given EXCEPT ![option] = values]
  <1>1. /\ v \in Seq(Pair) /\ \A k \in 1..Len(v) : v[k][1] \in Options /\ Plain(v[k][2])
        /\ given \in [Options -> Seq(Word)]
        /\ \A o \in Options : ReadsAs(v, o, given[o])
    BY DEF Gives
  <1>2. /\ u \in Seq(Pair) /\ Len(u) = Len(values)
        /\ \A i \in 1..Len(values) : u[i][1] = option /\ u[i][2] = values[i]
    BY EachIs, Zenon
  <1> HIDE DEF u
  <1>10. /\ p \in Seq(Pair) /\ Len(p) = Len(v) + Len(u)
         /\ \A i \in 1..Len(v) : p[i] = v[i]
         /\ \A i \in 1..Len(u) : p[Len(v) + i] = u[i]
    BY <1>1, <1>2, JoinedPairs
  <1> HIDE DEF p
  <1>3. \A k \in 1..Len(v) : v[k][1] # option
    <2>1. ReadsAs(v, option, <<>>)
      BY <1>1
    <2> QED
      BY <1>1, <2>1, NotRead, Zenon
  <1>4. /\ p \in Seq(Pair) /\ ReadsAs(p, option, values)
        /\ \A o, w : o # option /\ w \in Seq(Word) /\ ReadsAs(v, o, w) => ReadsAs(p, o, w)
    <2>1. Joins(p, v, u) /\ Block(u, option, values) /\ Lacks(v, option)
      BY <1>1, <1>2, <1>3, <1>10 DEF Joins, Block, Lacks
    <2> QED
      BY <1>10, <2>1, AppendedReads
  <1>5. ASSUME NEW k \in 1..Len(p)
        PROVE  p[k][1] \in Options /\ Plain(p[k][2])
    <2>1. Len(v) \in Nat /\ Len(u) \in Nat
      BY <1>1, <1>2
    <2>2. /\ Len(p) = Len(v) + Len(u)
          /\ \A i \in 1..Len(v) : p[i] = v[i]
          /\ \A i \in 1..Len(u) : p[Len(v) + i] = u[i]
      BY <1>10
    <2>3. CASE k <= Len(v)
      BY <1>1, <2>1, <2>2, <2>3
    <2>4. CASE ~(k <= Len(v))
      <3>1. k - Len(v) \in 1..Len(u) /\ Len(v) + (k - Len(v)) = k
        BY <2>1, <2>2, <2>4
      <3>2. p[k] = u[k - Len(v)]
        BY <2>2, <3>1
      <3> QED
        BY <1>2, <3>1, <3>2
    <2> QED
      BY <2>3, <2>4
  <1> HIDE DEF p
  <1>6. /\ table \in [Options -> Seq(Word)] /\ table[option] = values
        /\ \A o \in Options : o # option => table[o] = given[o]
    BY <1>1
  <1> HIDE DEF table
  <1>7. \A o \in Options : given[o] \in Seq(Word)
    BY <1>1
  <1>8. \A o \in Options : ReadsAs(p, o, table[o])
    BY <1>1, <1>4, <1>6, <1>7
  <1>9. Gives(p, table)
    BY <1>4, <1>5, <1>6, <1>8 DEF Gives
  <1> QED
    BY <1>9 DEF p, table, u

LEMMA GivesFirst ==
    ASSUME NEW option \in Word, option \in Options, NEW values \in Seq(Word),
           \A i \in 1..Len(values) : Plain(values[i])
    PROVE  Gives(Each(option, values), [NothingGiven EXCEPT ![option] = values])
  <1>1. Gives(<<>> \o Each(option, values), [NothingGiven EXCEPT ![option] = values])
    BY GivesNothing, GivesEach DEF NothingGiven
  <1>2. Each(option, values) \in Seq(Pair)
    BY EachIs, Zenon
  <1>3. <<>> \o Each(option, values) = Each(option, values)
    BY <1>2, ConcatEmptySeq, Zenon
  <1> QED
    BY <1>1, <1>3

LEMMA OnceShape ==
    ASSUME NEW value \in Word
    PROVE  /\ Once(value) \in Seq(Word) /\ Len(Once(value)) <= 1
           /\ Single(Once(value)) = value
           /\ \A i \in 1..Len(Once(value)) : value # "" /\ Once(value)[i] = value
  <1> DEFINE once == Once(value)
  <1>1. CASE value = ""
    <2>1. once = <<>>
      BY <1>1 DEF Once
    <2>2. once \in Seq(Word) /\ Len(once) = 0
      BY <2>1, EmptySeq
    <2> HIDE DEF once
    <2>3. Single(once) = value
      BY <1>1, <2>1 DEF Single
    <2>4. \A i \in 1..Len(once) : FALSE
      BY <2>2
    <2> QED
      BY <2>2, <2>3, <2>4 DEF once
  <1>2. CASE value # ""
    <2>1. once = <<value>>
      BY <1>2 DEF Once
    <2>2. <<value>> \in Seq(Word) /\ Len(<<value>>) = 1 /\ <<value>>[1] = value
      BY Singleton, Zenon
    <2>3. <<value>> # <<>>
      OBVIOUS
    <2> HIDE DEF once
    <2>4. Single(once) = value
      BY <2>1, <2>2, <2>3 DEF Single
    <2>5. \A i \in 1..1 : i = 1
      OBVIOUS
    <2>6. \A i \in 1..Len(once) : once[i] = value
      BY <2>1, <2>2, <2>5
    <2>7. once \in Seq(Word) /\ Len(once) <= 1
      BY <2>1, <2>2, 1 <= 1, Zenon
    <2> QED
      BY <1>2, <2>4, <2>6, <2>7 DEF once
  <1> QED
    BY <1>1, <1>2

LEMMA OnceIs ==
    ASSUME NEW value \in Word, value # "" => Plain(value)
    PROVE  /\ Once(value) \in Seq(Word) /\ Single(Once(value)) = value
           /\ \A i \in 1..Len(Once(value)) : Plain(Once(value)[i])
  BY OnceShape

LEMMA OptionNames ==
    /\ SingleOptions = {"--policy", "--upstream-cwd", "--upstream-bearer-token-env",
                        "--upstream-oauth-profile", "--upstream-http", "--upstream-sse",
                        "--upstream-websocket"}
    /\ Options = SingleOptions \cup {"--upstream-header-env", "--upstream-header-base64url-env",
                                     "--upstream-env"}
  <1>1. {RemoteOption[k] : k \in DOMAIN RemoteOption}
          = {"--upstream-http", "--upstream-sse", "--upstream-websocket"}
    BY DEF RemoteOption
  <1>2. SingleOptions = {"--policy", "--upstream-cwd", "--upstream-bearer-token-env",
                         "--upstream-oauth-profile", "--upstream-http", "--upstream-sse",
                         "--upstream-websocket"}
    BY <1>1 DEF SingleOptions
  <1>3. Options = SingleOptions \cup {"--upstream-header-env", "--upstream-header-base64url-env",
                                      "--upstream-env"}
    BY DEF Options, HeaderOptions
  <1> QED
    BY <1>2, <1>3

LEMMA EnvIsPlain ==
    ASSUME NEW env \in Seq(Word), \A name \in ToSet(env) : Plain(name)
    PROVE  \A i \in 1..Len(env) : Plain(env[i])
  BY DEF ToSet

LEMMA OfWords ==
    ASSUME NEW s \in Seq(STRING)
    PROVE  s \in Seq(Word)
  <1>1. Len(s) \in Nat /\ s = [i \in 1..Len(s) |-> s[i]] /\ \A i \in 1..Len(s) : s[i] \in Word
    BY DEF Word
  <1> QED
    BY <1>1, FunctionSeq

LEMMA Overridden ==
    ASSUME NEW S, NEW g, DOMAIN g = S, NEW o, NEW q \in S, NEW value, o # q
    PROVE  DOMAIN [g EXCEPT ![o] = value] = S /\ [g EXCEPT ![o] = value][q] = g[q]
  OBVIOUS

(* What the options of a local and of a remote upstream say. *)
LocalTable(policy, src) ==
    [NothingGiven EXCEPT !["--policy"] = <<policy>>, !["--upstream-env"] = src.env,
                         !["--upstream-cwd"] = Once(src.cwd)]

LEMMA LocalGiven ==
    ASSUME NEW policy \in Word, Plain(policy), NEW src, WritableSource(src), src.kind = "stdio"
    PROVE  Gives(BuildOptions(policy, src), LocalTable(policy, src))
  <1>1. /\ src.env \in Seq(Word) /\ src.cwd \in Word
        /\ \A name \in ToSet(src.env) : Plain(name)
        /\ src.cwd # "" => Plain(src.cwd)
    <2>1. src.env \in Seq(STRING) /\ src.cwd \in STRING
      BY DEF WritableSource, Sources
    <2> QED
      BY <2>1, OfWords DEF WritableSource, Word
  <1>2. \A i \in 1..Len(src.env) : Plain(src.env[i])
    BY <1>1, EnvIsPlain
  <1> DEFINE o1 == "--policy"
             o2 == "--upstream-env"
             o3 == "--upstream-cwd"
             v1 == <<policy>>
             v2 == src.env
             v3 == Once(src.cwd)
             g1 == [NothingGiven EXCEPT ![o1] = v1]
             g2 == [g1 EXCEPT ![o2] = v2]
             g3 == [g2 EXCEPT ![o3] = v3]
             p1 == Each(o1, v1)
             p2 == p1 \o Each(o2, v2)
             p3 == p2 \o Each(o3, v3)
  <1>3. /\ o1 \in Options /\ o2 \in Options /\ o3 \in Options
        /\ o1 \in Word /\ o2 \in Word /\ o3 \in Word
        /\ o1 # o2 /\ o1 # o3 /\ o2 # o3
    BY OptionNames DEF Word
  <1>4. v1 \in Seq(Word) /\ \A i \in 1..Len(v1) : Plain(v1[i])
    OBVIOUS
  <1>5. v2 \in Seq(Word) /\ \A i \in 1..Len(v2) : Plain(v2[i])
    BY <1>1, <1>2
  <1>6. v3 \in Seq(Word) /\ \A i \in 1..Len(v3) : Plain(v3[i])
    BY <1>1, OnceIs
  <1>7. BuildOptions(policy, src) = p3 /\ LocalTable(policy, src) = g3
    BY DEF BuildOptions, LocalTable
  <1> HIDE DEF o1, o2, o3, v1, v2, v3
  <1>8. g1[o2] = <<>> /\ g2[o3] = <<>>
    BY <1>3 DEF NothingGiven
  <1>9. Gives(p1, g1)
    BY <1>3, <1>4, GivesFirst
  <1> HIDE DEF p1, g1
  <1>10. Gives(p2, g2)
    BY <1>3, <1>5, <1>8, <1>9, GivesEach
  <1> HIDE DEF p2, g2
  <1>11. Gives(p3, g3)
    BY <1>3, <1>6, <1>8, <1>10, GivesEach
  <1> QED
    BY <1>7, <1>11

LEMMA RemoteNames ==
    ASSUME NEW kind \in {"http", "sse", "websocket"}
    PROVE  /\ RemoteOption[kind] \in {"--upstream-http", "--upstream-sse", "--upstream-websocket"}
           /\ HeaderOption(kind) \in {"--upstream-header-env", "--upstream-header-base64url-env"}
           /\ \A k \in DOMAIN RemoteOption : k # kind => RemoteOption[k] # RemoteOption[kind]
  <1>1. RemoteOption["http"] = "--upstream-http" /\ RemoteOption["sse"] = "--upstream-sse"
        /\ RemoteOption["websocket"] = "--upstream-websocket"
        /\ DOMAIN RemoteOption = {"http", "sse", "websocket"}
    BY DEF RemoteOption
  <1>2. HeaderOption(kind) \in {"--upstream-header-env", "--upstream-header-base64url-env"}
    BY DEF HeaderOption
  <1>3. CASE kind = "http"
    BY <1>1, <1>2, <1>3
  <1>4. CASE kind = "sse"
    BY <1>1, <1>2, <1>4
  <1>5. CASE kind = "websocket"
    BY <1>1, <1>2, <1>5
  <1> QED
    BY <1>3, <1>4, <1>5

RemoteTable(policy, src) ==
    [NothingGiven EXCEPT !["--policy"] = <<policy>>, ![RemoteOption[src.kind]] = src.target,
                         ![HeaderOption(src.kind)] = src.env,
                         !["--upstream-bearer-token-env"] = Once(src.bearer),
                         !["--upstream-oauth-profile"] = Once(src.profile)]

LEMMA RemoteGiven ==
    ASSUME NEW policy \in Word, Plain(policy), NEW src, WritableSource(src), src.kind # "stdio"
    PROVE  Gives(BuildOptions(policy, src), RemoteTable(policy, src))
  <1>1. /\ src.env \in Seq(Word) /\ src.bearer \in Word /\ src.profile \in Word
        /\ src.target \in Seq(Word) /\ src.kind \in {"http", "sse", "websocket"}
        /\ \A name \in ToSet(src.env) : Plain(name)
        /\ src.bearer # "" => Plain(src.bearer)
        /\ src.profile # "" => Plain(src.profile)
        /\ Len(src.target) = 1 /\ Plain(src.target[1])
    <2>1. /\ src.env \in Seq(STRING) /\ src.target \in Seq(STRING)
          /\ src.bearer \in STRING /\ src.profile \in STRING
          /\ src.kind \in {"http", "sse", "websocket"}
      BY DEF WritableSource, Sources
    <2> QED
      BY <2>1, OfWords DEF WritableSource, Word
  <1>2. \A i \in 1..Len(src.env) : Plain(src.env[i])
    BY <1>1, EnvIsPlain
  <1> DEFINE o1 == "--policy"
             o2 == RemoteOption[src.kind]
             o3 == HeaderOption(src.kind)
             o4 == "--upstream-bearer-token-env"
             o5 == "--upstream-oauth-profile"
             v1 == <<policy>>
             v2 == src.target
             v3 == src.env
             v4 == Once(src.bearer)
             v5 == Once(src.profile)
             g1 == [NothingGiven EXCEPT ![o1] = v1]
             g2 == [g1 EXCEPT ![o2] = v2]
             g3 == [g2 EXCEPT ![o3] = v3]
             g4 == [g3 EXCEPT ![o4] = v4]
             g5 == [g4 EXCEPT ![o5] = v5]
             p1 == Each(o1, v1)
             p2 == p1 \o Each(o2, v2)
             p3 == p2 \o Each(o3, v3)
             p4 == p3 \o Each(o4, v4)
             p5 == p4 \o Each(o5, v5)
  <1>3. /\ o2 \in {"--upstream-http", "--upstream-sse", "--upstream-websocket"}
        /\ o3 \in {"--upstream-header-env", "--upstream-header-base64url-env"}
    BY <1>1, RemoteNames
  <1>4. /\ {o1, o2, o3, o4, o5} \subseteq Options
        /\ {o1, o2, o3, o4, o5} \subseteq Word
        /\ o1 # o2 /\ o1 # o3 /\ o1 # o4 /\ o1 # o5 /\ o2 # o3 /\ o2 # o4 /\ o2 # o5
        /\ o3 # o4 /\ o3 # o5 /\ o4 # o5
    <2> HIDE DEF o2, o3
    <2> QED
      BY <1>3, OptionNames DEF Word
  <1>5. v1 \in Seq(Word) /\ \A i \in 1..Len(v1) : Plain(v1[i])
    OBVIOUS
  <1>6. v2 \in Seq(Word) /\ \A i \in 1..Len(v2) : Plain(v2[i])
    <2>1. v2 \in Seq(Word) /\ Len(v2) = 1 /\ Plain(v2[1])
      BY <1>1
    <2> HIDE DEF v2
    <2>2. \A i \in 1..1 : i = 1
      OBVIOUS
    <2> QED
      BY <2>1, <2>2
  <1>7. v3 \in Seq(Word) /\ \A i \in 1..Len(v3) : Plain(v3[i])
    BY <1>1, <1>2
  <1>8. v4 \in Seq(Word) /\ \A i \in 1..Len(v4) : Plain(v4[i])
    BY <1>1, OnceIs
  <1>9. v5 \in Seq(Word) /\ \A i \in 1..Len(v5) : Plain(v5[i])
    BY <1>1, OnceIs
  <1>10. BuildOptions(policy, src) = p5 /\ RemoteTable(policy, src) = g5
    BY DEF BuildOptions, RemoteTable
  <1> HIDE DEF o1, o2, o3, o4, o5, v1, v2, v3, v4, v5
  <1>11. g1[o2] = <<>> /\ g2[o3] = <<>> /\ g3[o4] = <<>> /\ g4[o5] = <<>>
    <2>1. \A o \in Options : NothingGiven[o] = <<>>
      BY DEF NothingGiven
    <2>3. DOMAIN NothingGiven = Options
      BY DEF NothingGiven
    <2>4. DOMAIN g1 = Options /\ g1[o2] = <<>> /\ g1[o3] = <<>> /\ g1[o4] = <<>> /\ g1[o5] = <<>>
      BY <1>4, <2>1, <2>3, Overridden
    <2> HIDE DEF g1
    <2>5. DOMAIN g2 = Options /\ g2[o3] = <<>> /\ g2[o4] = <<>> /\ g2[o5] = <<>>
      BY <1>4, <2>4, Overridden
    <2> HIDE DEF g2
    <2>6. DOMAIN g3 = Options /\ g3[o4] = <<>> /\ g3[o5] = <<>>
      BY <1>4, <2>5, Overridden
    <2> HIDE DEF g3
    <2>7. g4[o5] = <<>>
      BY <1>4, <2>6, Overridden
    <2> QED
      BY <2>4, <2>5, <2>6, <2>7
  <1>12. Gives(p1, g1)
    BY <1>4, <1>5, GivesFirst
  <1> HIDE DEF p1, g1
  <1>13. Gives(p2, g2)
    BY <1>4, <1>6, <1>11, <1>12, GivesEach
  <1> HIDE DEF p2, g2
  <1>14. Gives(p3, g3)
    BY <1>4, <1>7, <1>11, <1>13, GivesEach
  <1> HIDE DEF p3, g3
  <1>15. Gives(p4, g4)
    BY <1>4, <1>8, <1>11, <1>14, GivesEach
  <1> HIDE DEF p4, g4
  <1>16. Gives(p5, g5)
    BY <1>4, <1>9, <1>11, <1>15, GivesEach
  <1> QED
    BY <1>10, <1>16

Rest(src) == IF src.kind = "stdio" THEN <<"--">> \o src.target ELSE <<>>

LEMMA RestIs ==
    ASSUME NEW src, WritableSource(src)
    PROVE  /\ Rest(src) \in Seq(Word) /\ (Rest(src) = <<>> \/ Rest(src)[1] = "--")
           /\ src.kind # "stdio" => Rest(src) = <<>>
           /\ src.kind = "stdio" => SubSeq(Rest(src), 2, Len(Rest(src))) = src.target
  <1>1. CASE src.kind # "stdio"
    <2>1. Rest(src) = <<>>
      BY <1>1 DEF Rest
    <2>2. <<>> \in Seq(Word)
      BY EmptySeq, Zenon
    <2> QED
      BY <1>1, <2>1, <2>2
  <1>2. CASE src.kind = "stdio"
    <2> DEFINE dash == <<"--">>
               target == src.target
               rest == dash \o target
    <2>1. target \in Seq(Word)
      BY OfWords DEF WritableSource, Sources
    <2>2. dash \in Seq(Word) /\ Len(dash) = 1 /\ dash[1] = "--"
      BY Singleton DEF Word
    <2> HIDE DEF dash, target
    <2>3. /\ rest \in Seq(Word) /\ Len(rest) = Len(dash) + Len(target)
          /\ \A i \in 1..Len(dash) : rest[i] = dash[i]
          /\ \A i \in 1..Len(target) : rest[Len(dash) + i] = target[i]
      BY <2>1, <2>2, Joined, SMT
    <2> HIDE DEF rest
    <2>4. Len(target) \in Nat
      BY <2>1
    <2>5. /\ Len(rest) = 1 + Len(target) /\ rest[1] = "--"
          /\ \A i \in 1..Len(target) : rest[1 + i] = target[i]
      BY <2>2, <2>3, <2>4
    <2> DEFINE s == SubSeq(rest, 2, Len(rest))
    <2>6. /\ s \in Seq(Word) /\ Len(s) = Len(target)
          /\ \A i \in 1..Len(target) : s[i] = rest[1 + i]
      BY <2>3, <2>4, <2>5, SubSeqProperties
    <2> HIDE DEF s
    <2>7. \A i \in 1..Len(target) : s[i] = target[i]
      BY <2>5, <2>6
    <2>8. s = target
      BY <2>1, <2>6, <2>7, SeqEqual
    <2> QED
      BY <1>2, <2>3, <2>5, <2>8 DEF Rest, rest, dash, target, s
  <1> QED
    BY <1>1, <1>2

(* The reader sees the options that the writer meant. *)
LEMMA ArgumentsRead ==
    ASSUME NEW policy, NEW src, NEW given, WritableSource(src),
           Gives(BuildOptions(policy, src), given)
    PROVE  ParseManagedWrapper(BuildWrapperArgs(policy, src))
             = ParseOptions(BuildOptions(policy, src), given, Rest(src))
  <1> DEFINE pairs == BuildOptions(policy, src)
             rest == Rest(src)
  <1>1. pairs \in Pairs /\ \A k \in 1..Len(pairs) : pairs[k][1] \in Options /\ Plain(pairs[k][2])
    BY DEF Gives, Pairs
  <1>2. rest \in Seq(Word) /\ (rest = <<>> \/ rest[1] = "--")
    BY RestIs
  <1>3. ValuesGiven(pairs) = given
    BY GivesValues
  <1>4. BuildWrapperArgs(policy, src) = Words(pairs) \o rest
    BY DEF BuildWrapperArgs, Rest
  <1> HIDE DEF pairs, rest
  <1>5. \A k \in 1..Len(pairs) : pairs[k][1] # "--" /\ pairs[k][2] # "--"
    BY <1>1, OptionNames DEF Plain
  <1>6. ParseManagedWrapper(Words(pairs) \o rest) = ParseOptions(pairs, ValuesGiven(pairs), rest)
    BY <1>1, <1>2, <1>5, WordsRead
  <1> QED
    BY <1>3, <1>4, <1>6 DEF pairs, rest

LEMMA LocalLookup ==
    ASSUME NEW policy, NEW src
    PROVE  /\ LocalTable(policy, src)["--policy"] = <<policy>>
           /\ LocalTable(policy, src)["--upstream-env"] = src.env
           /\ LocalTable(policy, src)["--upstream-cwd"] = Once(src.cwd)
           /\ \A o \in Options \ {"--policy", "--upstream-env", "--upstream-cwd"} :
                 LocalTable(policy, src)[o] = <<>>
  <1> DEFINE v1 == <<policy>>
             v2 == src.env
             v3 == Once(src.cwd)
             none == <<>>
  <1>1. NothingGiven = [o \in Options |-> none]
    BY DEF NothingGiven
  <1>2. LocalTable(policy, src) = [NothingGiven EXCEPT !["--policy"] = v1,
                                     !["--upstream-env"] = v2, !["--upstream-cwd"] = v3]
    BY DEF LocalTable
  <1>3. "--policy" \in Options /\ "--upstream-env" \in Options /\ "--upstream-cwd" \in Options
    BY OptionNames
  <1> HIDE DEF v1, v2, v3, none
  <1>4. /\ LocalTable(policy, src)["--policy"] = v1
        /\ LocalTable(policy, src)["--upstream-env"] = v2
        /\ LocalTable(policy, src)["--upstream-cwd"] = v3
    BY <1>1, <1>2, <1>3
  <1>5. \A o \in Options \ {"--policy", "--upstream-env", "--upstream-cwd"} :
           LocalTable(policy, src)[o] = none
    BY <1>1, <1>2
  <1> QED
    BY <1>4, <1>5 DEF v1, v2, v3, none

LEMMA RemoteLookup ==
    ASSUME NEW policy, NEW src, src.kind \in {"http", "sse", "websocket"}
    PROVE  /\ RemoteTable(policy, src)["--policy"] = <<policy>>
           /\ RemoteTable(policy, src)[RemoteOption[src.kind]] = src.target
           /\ RemoteTable(policy, src)[HeaderOption(src.kind)] = src.env
           /\ RemoteTable(policy, src)["--upstream-bearer-token-env"] = Once(src.bearer)
           /\ RemoteTable(policy, src)["--upstream-oauth-profile"] = Once(src.profile)
           /\ \A o \in Options \ {"--policy", RemoteOption[src.kind], HeaderOption(src.kind),
                                  "--upstream-bearer-token-env", "--upstream-oauth-profile"} :
                 RemoteTable(policy, src)[o] = <<>>
  <1> DEFINE o2 == RemoteOption[src.kind]
             o3 == HeaderOption(src.kind)
             v1 == <<policy>>
             v2 == src.target
             v3 == src.env
             v4 == Once(src.bearer)
             v5 == Once(src.profile)
             none == <<>>
             table == RemoteTable(policy, src)
  <1>1. NothingGiven = [o \in Options |-> none]
    BY DEF NothingGiven
  <1>2. table = [NothingGiven EXCEPT !["--policy"] = v1, ![o2] = v2, ![o3] = v3,
                    !["--upstream-bearer-token-env"] = v4, !["--upstream-oauth-profile"] = v5]
    BY DEF RemoteTable
  <1>3. /\ o2 \in {"--upstream-http", "--upstream-sse", "--upstream-websocket"}
        /\ o3 \in {"--upstream-header-env", "--upstream-header-base64url-env"}
    BY RemoteNames
  <1> HIDE DEF o2, o3, v1, v2, v3, v4, v5, none, table
  <1>4. /\ table["--policy"] = v1 /\ table[o2] = v2 /\ table[o3] = v3
        /\ table["--upstream-bearer-token-env"] = v4 /\ table["--upstream-oauth-profile"] = v5
    BY <1>1, <1>2, <1>3, OptionNames
  <1>5. \A o \in Options \ {"--policy", o2, o3, "--upstream-bearer-token-env",
                            "--upstream-oauth-profile"} : table[o] = none
    BY <1>1, <1>2
  <1> QED
    BY <1>4, <1>5 DEF o2, o3, v1, v2, v3, v4, v5, none, table

LEMMA SourceIs ==
    ASSUME NEW src \in Sources
    PROVE  src = [kind |-> src.kind, target |-> src.target, env |-> src.env, cwd |-> src.cwd,
                  bearer |-> src.bearer, profile |-> src.profile]
  BY DEF Sources

LEMMA LocalReads ==
    ASSUME NEW policy \in STRING, Plain(policy), NEW src, WritableSource(src),
           src.kind = "stdio"
    PROVE  ParseManagedWrapper(BuildWrapperArgs(policy, src)) = Managed(policy, src)
  <1> DEFINE pairs == BuildOptions(policy, src)
             g == LocalTable(policy, src)
             rest == Rest(src)
             remotes == {k \in DOMAIN RemoteOption : g[RemoteOption[k]] # <<>>}
             kind == IF remotes = {} THEN "stdio" ELSE CHOOSE k \in remotes : TRUE
  <1>1. WritableSource(src) /\ src \in Sources /\ policy \in Word
    BY DEF WritableSource, Word
  <1>2. Gives(pairs, g)
    BY <1>1, LocalGiven
  <1>3. ParseManagedWrapper(BuildWrapperArgs(policy, src)) = ParseOptions(pairs, g, rest)
    BY <1>1, <1>2, ArgumentsRead
  <1>4. /\ g["--policy"] = <<policy>> /\ g["--upstream-env"] = src.env
        /\ g["--upstream-cwd"] = Once(src.cwd)
        /\ \A o \in Options \ {"--policy", "--upstream-env", "--upstream-cwd"} : g[o] = <<>>
    BY LocalLookup
  <1>5. src.bearer = "" /\ src.profile = ""
    BY <1>1 DEF WritableSource
  <1> HIDE DEF pairs, g, rest
  <1>6. remotes = {}
    <2>1. \A k \in DOMAIN RemoteOption : RemoteOption[k] \in
             {"--upstream-http", "--upstream-sse", "--upstream-websocket"}
      BY DEF RemoteOption
    <2>2. \A o \in {"--upstream-http", "--upstream-sse", "--upstream-websocket"} : g[o] = <<>>
      BY <1>4, OptionNames
    <2> QED
      BY <2>1, <2>2
  <1>7. \A k \in DOMAIN pairs : pairs[k][1] \in Options /\ Plain(pairs[k][2])
    BY <1>2 DEF Gives
  <1>8. \A o \in SingleOptions : Len(g[o]) <= 1
    <2>1. Len(<<policy>>) = 1 /\ Len(<<>>) = 0
      OBVIOUS
    <2>2. Len(Once(src.cwd)) <= 1
      <3>1. src.cwd \in Word
        BY <1>1 DEF Sources, Word
      <3>2. Len(Once(src.cwd)) <= 1
        BY <3>1, OnceShape, Zenon
      <3> QED
        BY <3>2, Zenon
    <2>3. \A o \in SingleOptions : o \in Options /\ o # "--upstream-env"
      BY OptionNames
    <2>4. ASSUME NEW o \in SingleOptions
          PROVE  Len(g[o]) <= 1
      <3>1. CASE o = "--policy"
        <4>1. g[o] = <<policy>>
          BY <1>4, <3>1
        <4> QED
          BY <2>1, <4>1
      <3>2. CASE o = "--upstream-cwd"
        BY <1>4, <2>2, <3>2, Zenon
      <3>3. CASE o # "--policy" /\ o # "--upstream-cwd"
        <4>1. g[o] = <<>>
          BY <1>4, <2>3, <3>3
        <4> QED
          BY <2>1, <4>1
      <3> QED
        BY <3>1, <3>2, <3>3
    <2> QED
      BY <2>4
  <1>9. \A o \in HeaderOptions : g[o] = <<>>
    BY <1>4, OptionNames DEF HeaderOptions
  <1>10. Single(g["--policy"]) = policy
    BY <1>4 DEF Single
  <1>11. UpstreamGiven(g, "stdio", rest) = src
    <2>1. SubSeq(rest, 2, Len(rest)) = src.target
      BY <1>1, RestIs DEF rest
    <2>2. Single(g["--upstream-cwd"]) = src.cwd
      BY <1>1, <1>4, OnceShape DEF Sources, Word
    <2>3. /\ Single(g["--upstream-bearer-token-env"]) = ""
          /\ Single(g["--upstream-oauth-profile"]) = ""
      BY <1>4, OptionNames DEF Single
    <2>4. UpstreamGiven(g, "stdio", rest) =
             [kind |-> "stdio", target |-> SubSeq(rest, 2, Len(rest)), env |-> g["--upstream-env"],
              cwd |-> Single(g["--upstream-cwd"]),
              bearer |-> Single(g["--upstream-bearer-token-env"]),
              profile |-> Single(g["--upstream-oauth-profile"])]
      BY DEF UpstreamGiven
    <2>5. src = [kind |-> src.kind, target |-> src.target, env |-> src.env, cwd |-> src.cwd,
                 bearer |-> src.bearer, profile |-> src.profile]
      BY <1>1, SourceIs
    <2> QED
      BY <1>4, <1>5, <2>1, <2>2, <2>3, <2>4, <2>5
  <1>12. ParseOptions(pairs, g, rest) = Managed(Single(g["--policy"]), UpstreamGiven(g, kind, rest))
    BY <1>6, <1>7, <1>8, <1>9, Zenon DEF ParseOptions
  <1>13. kind = "stdio"
    BY <1>6
  <1> QED
    BY <1>3, <1>10, <1>11, <1>12, <1>13

LEMMA RemoteRoundTrip ==
    ASSUME NEW policy \in STRING, Plain(policy), NEW src, ValidSource(src), src.kind # "stdio"
    PROVE  ParseManagedWrapper(BuildWrapperArgs(policy, src))
             = [policy |-> policy, source |-> src]
  <1> DEFINE pairs == BuildOptions(policy, src)
             g == RemoteTable(policy, src)
             rest == Rest(src)
             o2 == RemoteOption[src.kind]
             o3 == HeaderOption(src.kind)
             remotes == {k \in DOMAIN RemoteOption : g[RemoteOption[k]] # <<>>}
             kind == IF remotes = {} THEN "stdio" ELSE CHOOSE k \in remotes : TRUE
  <1>1. /\ WritableSource(src) /\ src \in Sources /\ policy \in Word
        /\ src.kind \in {"http", "sse", "websocket"}
        /\ src.bearer \in Word /\ src.profile \in Word
    BY DEF ValidSource, WritableSource, Sources, Word
  <1>2. Gives(pairs, g)
    BY <1>1, RemoteGiven
  <1>3. ParseManagedWrapper(BuildWrapperArgs(policy, src)) = ParseOptions(pairs, g, rest)
    BY <1>1, <1>2, ArgumentsRead
  <1>4. /\ g["--policy"] = <<policy>> /\ g[o2] = src.target /\ g[o3] = src.env
        /\ g["--upstream-bearer-token-env"] = Once(src.bearer)
        /\ g["--upstream-oauth-profile"] = Once(src.profile)
        /\ \A o \in Options \ {"--policy", o2, o3, "--upstream-bearer-token-env",
                               "--upstream-oauth-profile"} : g[o] = <<>>
    BY <1>1, RemoteLookup
  <1>5. src.cwd = "" /\ Len(src.target) = 1
    BY <1>1 DEF WritableSource
  <1>6. /\ o2 \in {"--upstream-http", "--upstream-sse", "--upstream-websocket"}
        /\ o3 \in {"--upstream-header-env", "--upstream-header-base64url-env"}
        /\ \A k \in DOMAIN RemoteOption : k # src.kind => RemoteOption[k] # o2
        /\ \A k \in DOMAIN RemoteOption : RemoteOption[k] \in
              {"--upstream-http", "--upstream-sse", "--upstream-websocket"}
        /\ src.kind \in DOMAIN RemoteOption
    BY <1>1, RemoteNames DEF RemoteOption
  <1>7. rest = <<>>
    BY <1>1, RestIs
  <1>8. src.target # <<>>
    BY <1>1 DEF WritableSource
  <1> HIDE DEF pairs, g, rest, o2, o3
  <1>9. remotes = {src.kind}
    <2>1. g[RemoteOption[src.kind]] # <<>>
      BY <1>4, <1>8 DEF o2
    <2>2. ASSUME NEW k \in DOMAIN RemoteOption, k # src.kind
          PROVE  g[RemoteOption[k]] = <<>>
      <3> DEFINE o == RemoteOption[k]
      <3>1. o # o2 /\ o \in {"--upstream-http", "--upstream-sse", "--upstream-websocket"}
        BY <1>6, <2>2
      <3> HIDE DEF o
      <3>2. o \in Options \ {"--policy", o2, o3, "--upstream-bearer-token-env",
                             "--upstream-oauth-profile"}
        BY <1>6, <3>1, OptionNames
      <3> QED
        BY <1>4, <3>2 DEF o
    <2> QED
      BY <1>6, <2>1, <2>2
  <1>10. kind = src.kind /\ remotes # {}
    BY <1>9
  <1>11. \A k \in DOMAIN pairs : pairs[k][1] \in Options /\ Plain(pairs[k][2])
    BY <1>2 DEF Gives
  <1>12. \A o \in SingleOptions : Len(g[o]) <= 1
    <2>1. Len(<<policy>>) = 1 /\ Len(<<>>) = 0
      OBVIOUS
    <2>2. Len(Once(src.bearer)) <= 1 /\ Len(Once(src.profile)) <= 1 /\ Len(src.target) <= 1
      <3>1. Len(Once(src.bearer)) <= 1 /\ Len(Once(src.profile)) <= 1
        BY <1>1, OnceShape, Zenon
      <3>2. 1 <= 1
        OBVIOUS
      <3>3. Len(src.target) <= 1
        BY <1>5, <3>2, Zenon
      <3> QED
        BY <3>1, <3>3, Zenon
    <2>3. \A o \in SingleOptions : o \in Options /\ o # o3
      BY <1>6, OptionNames
    <2>4. ASSUME NEW o \in SingleOptions
          PROVE  Len(g[o]) <= 1
      <3>1. CASE o = "--policy"
        <4>1. g[o] = <<policy>>
          BY <1>4, <3>1
        <4> QED
          BY <2>1, <4>1
      <3>2. CASE o = o2
        BY <1>4, <2>2, <3>2, Zenon
      <3>3. CASE o = "--upstream-bearer-token-env" \/ o = "--upstream-oauth-profile"
        BY <1>4, <2>2, <3>3, Zenon
      <3>4. CASE o \notin {"--policy", o2, "--upstream-bearer-token-env",
                           "--upstream-oauth-profile"}
        <4>1. g[o] = <<>>
          BY <1>4, <2>3, <3>4
        <4> QED
          BY <2>1, <4>1
      <3> QED
        BY <3>1, <3>2, <3>3, <3>4
    <2> QED
      BY <2>4
  <1>13. g["--upstream-env"] = <<>> /\ g["--upstream-cwd"] = <<>>
    BY <1>4, <1>6, OptionNames
  <1>14. Single(g["--policy"]) = policy
    BY <1>4 DEF Single
  <1>15. UpstreamGiven(g, src.kind, rest) = src
    <2>1. Single(g["--upstream-bearer-token-env"]) = src.bearer
          /\ Single(g["--upstream-oauth-profile"]) = src.profile
      BY <1>1, <1>4, OnceShape
    <2>2. Single(g["--upstream-cwd"]) = ""
      BY <1>13 DEF Single
    <2>3. UpstreamGiven(g, src.kind, rest) =
             [kind |-> src.kind, target |-> g[o2], env |-> g[o3],
              cwd |-> Single(g["--upstream-cwd"]),
              bearer |-> Single(g["--upstream-bearer-token-env"]),
              profile |-> Single(g["--upstream-oauth-profile"])]
      BY DEF UpstreamGiven, o2, o3
    <2>4. src = [kind |-> src.kind, target |-> src.target, env |-> src.env, cwd |-> src.cwd,
                 bearer |-> src.bearer, profile |-> src.profile]
      BY <1>1, SourceIs
    <2> QED
      BY <1>4, <1>5, <2>1, <2>2, <2>3, <2>4
  <1>16. policy # ""
    BY DEF Plain
  <1>17. ParseOptions(pairs, g, rest) = Managed(Single(g["--policy"]), UpstreamGiven(g, kind, rest))
    BY <1>7, <1>10, <1>11, <1>12, <1>13, Zenon DEF ParseOptions
  <1> QED
    BY <1>3, <1>10, <1>14, <1>15, <1>16, <1>17 DEF Managed

(* What is written is read back, except a wrapper of a wrapper. *)
LEMMA WrittenReads ==
    ASSUME NEW policy \in STRING, Plain(policy), NEW src, WritableSource(src)
    PROVE  ParseManagedWrapper(BuildWrapperArgs(policy, src)) = Managed(policy, src)
  <1>1. CASE src.kind = "stdio"
    BY <1>1, LocalReads
  <1>2. CASE src.kind # "stdio"
    <2>1. ValidSource(src) /\ policy # ""
      BY <1>2 DEF ValidSource, Plain
    <2> QED
      BY <1>2, <2>1, RemoteRoundTrip DEF Managed
  <1> QED
    BY <1>1, <1>2

(* parseManagedWrapper reads back what buildWrapperArgs wrote, for every policy  *)
(* and every upstream that either accepts: a later setup, a restore and the      *)
(* gateway see the same policy, command, environment, credentials and profile.   *)
THEOREM RoundTrip ==
    ASSUME NEW policy \in STRING, Plain(policy), NEW src, ValidSource(src)
    PROVE  ParseManagedWrapper(BuildWrapperArgs(policy, src))
             = [policy |-> policy, source |-> src]
  <1>1. WritableSource(src) /\ policy # ""
    BY DEF ValidSource, Plain
  <1> QED
    BY <1>1, WrittenReads DEF Managed

-----------------------------------------------------------------------------
(* The gateway's routes.                                                   *)

IsDisk(d) ==
    d \in [config : {d.config}, policy : {d.policy}, saved : {d.saved}, profile : {d.profile},
           route : {d.route}, state : {d.state}, backups : {d.backups}]

IsSession(r) ==
    r \in [pc : {"start", "loaded", "chosen", "writing", "ended"}, picked : {r.picked},
           seen : {r.seen}, policies : {r.policies}, missing : {r.missing}, healed : {r.healed},
           files : {r.files}, written : SUBSET r.files, before : {r.before}, after : {r.after}]

(* What the variables are made of. *)
Shape ==
    /\ scene \in Scenes
    /\ IsDisk(disk) /\ DOMAIN disk.route = Owners
    /\ sess = [s \in Sessions |-> sess[s]] /\ \A s \in Sessions : IsSession(sess[s])
    /\ \A s \in Sessions : ~Writing(s) => sess[s].written = {}
    /\ moved = [s \in Sessions |-> moved[s]]

OneWriter == \A s, r \in Sessions : Writing(s) /\ Writing(r) => s = r

RoutesOf(d) == {d.route[o] : o \in Owners} \ {NoRoute}

Agree(R) == \A r, q \in R : ValidRoute(r) /\ r.port \in Ports /\ r.port = q.port

(* What the routes may be when session s ends, wherever it ends. *)
Stakes(s) == RoutesOf(sess[s].before) \union RoutesOf(sess[s].after)

StakesAgree(s) == Agree(Stakes(s)) /\ RoutesOf(disk) \subseteq Stakes(s)

(* The ports the user of a manual setup has chosen. *)
PortsPicked(s) == {sess[s].picked[o].port : o \in DOMAIN sess[s].picked} \ {""}

(* As long as no route moved, the port chosen is that of the routes.  *)
PortStands(s) ==
    /\ \A p, q \in PortsPicked(s) : p \in Ports /\ p = q
    /\ (\A o \in Owners : RouteFile(o) \notin moved[s]) =>
          \A r \in RoutesOf(disk), p \in PortsPicked(s) : r.port = p

Chosen(s) == Runs(s, "manual", "chosen")

Routed ==
    /\ Shape
    /\ OneWriter
    /\ Agree(RoutesOf(disk))
    /\ \A s \in Sessions : /\ Writing(s) => StakesAgree(s)
                           /\ Chosen(s) => PortStands(s)

-----------------------------------------------------------------------------
(* The files of a disk.                                                    *)

LEMMA CopyIsDisk ==
    ASSUME NEW d, NEW F, NEW e, IsDisk(d)
    PROVE  IsDisk(Copy(d, F, e))
  BY DEF Copy, IsDisk

LEMMA CopyRoutes ==
    ASSUME NEW d, NEW F, NEW e, IsDisk(d)
    PROVE  Copy(d, F, e).route =
             [o \in Owners |-> IF RouteFile(o) \in F THEN e.route[o] ELSE d.route[o]]
  BY DEF Copy, IsDisk

LEMMA AgreeIsLoad ==
    ASSUME DOMAIN disk.route = Owners
    PROVE  Agree(RoutesOf(disk)) => RoutesLoad(disk.route)
  BY DEF RoutesLoad, Agree, RoutesOf

LEMMA SubsetAgrees ==
    ASSUME NEW R, NEW Q, Agree(R), Q \subseteq R
    PROVE  Agree(Q)
  BY DEF Agree

-----------------------------------------------------------------------------
(* What a step leaves of the invariant.                                    *)

(* A session goes on: it writes what it planned, or has chosen what it chose. *)
GoesOn(s) ==
    /\ Writing(s)' => /\ Writing(s)
                      /\ sess'[s].before = sess[s].before /\ sess'[s].after = sess[s].after
    /\ Chosen(s)' => /\ Chosen(s) /\ sess'[s].picked = sess[s].picked
                     /\ moved[s] \subseteq moved'[s]

LEMMA PortStillStands ==
    ASSUME NEW s \in Sessions, PortStands(s), sess'[s].picked = sess[s].picked,
           moved[s] \subseteq moved'[s],
           (\A o \in Owners : RouteFile(o) \notin moved'[s]) => RoutesOf(disk') = RoutesOf(disk)
    PROVE  PortStands(s)'
  <1>1. PortsPicked(s)' = PortsPicked(s)
    BY DEF PortsPicked
  <1>2. \A p, q \in PortsPicked(s)' : p \in Ports /\ p = q
    BY <1>1 DEF PortStands
  <1>3. ASSUME \A o \in Owners : RouteFile(o) \notin moved'[s],
               NEW r \in RoutesOf(disk'), NEW p \in PortsPicked(s)'
        PROVE  r.port = p
    BY <1>1, <1>3 DEF PortStands
  <1> QED
    BY <1>2, <1>3 DEF PortStands, RoutesOf, RouteFile, File, RouteKey

LEMMA RoutesUntouched ==
    ASSUME Routed, Shape', disk'.route = disk.route, \A s \in Sessions : GoesOn(s)
    PROVE  Routed'
  <1>1. RoutesOf(disk') = RoutesOf(disk)
    BY DEF RoutesOf
  <1>2. OneWriter'
    BY DEF OneWriter, Routed, GoesOn
  <1>3. ASSUME NEW s \in Sessions, Writing(s)'
        PROVE  StakesAgree(s)'
    <2>1. StakesAgree(s) /\ Stakes(s)' = Stakes(s)
      BY <1>3 DEF Routed, GoesOn, Stakes, RoutesOf
    <2> QED
      BY <1>1, <2>1 DEF StakesAgree, RoutesOf
  <1>4. ASSUME NEW s \in Sessions, Chosen(s)'
        PROVE  PortStands(s)'
    BY <1>1, <1>4, PortStillStands DEF GoesOn, Routed
  <1>5. Agree(RoutesOf(disk))'
    BY <1>1 DEF Routed, RoutesOf
  <1> QED
    BY <1>2, <1>3, <1>4, <1>5 DEF Routed

LEMMA BecomesIs ==
    ASSUME Shape, NEW s \in Sessions, NEW session, Becomes(s, session)
    PROVE  /\ sess' = [r \in Sessions |-> sess'[r]] /\ sess'[s] = session
           /\ \A r \in Sessions : r # s => sess'[r] = sess[r]
  BY DEF Becomes, Shape

(* A plan is begun whose routes agree with those on disk. *)
LEMMA PlanBegins ==
    ASSUME Routed, Shape', NEW s \in Sessions, NEW files, NEW after, NEW healed,
           LockFree, Begin(s, files, after, healed), UNCHANGED scene,
           Agree(RoutesOf(disk) \union RoutesOf(after))
    PROVE  Routed'
  <1>1. disk'.route = disk.route
    BY DEF Begin, Routed, Shape, IsDisk
  <1>2. RoutesOf(disk') = RoutesOf(disk)
    BY <1>1 DEF RoutesOf
  <1>3. /\ sess'[s].before = disk /\ sess'[s].after = after /\ sess'[s].pc = "writing"
        /\ \A r \in Sessions : r # s => sess'[r] = sess[r] /\ moved'[r] = moved[r]
    <2>1. IsSession(sess[s])
      BY DEF Routed, Shape
    <2> DEFINE new == [sess[s] EXCEPT !.pc = "writing", !.files = files, !.before = disk,
                                      !.after = after, !.healed = healed]
    <2>2. new.before = disk /\ new.after = after /\ new.pc = "writing"
      BY <2>1 DEF IsSession
    <2>3. Becomes(s, new) /\ \A r \in Sessions : r # s => moved'[r] = moved[r]
      BY DEF Begin, Routed, Shape
    <2> HIDE DEF new
    <2> QED
      BY <2>2, <2>3, BecomesIs DEF Routed
  <1>4. OneWriter' /\ \A r \in Sessions : Writing(r)' => r = s
    BY <1>3 DEF OneWriter, LockFree, Writing
  <1>5. StakesAgree(s)'
    <2>1. Stakes(s)' = RoutesOf(disk) \union RoutesOf(after)
      BY <1>3 DEF Stakes, RoutesOf
    <2> QED
      BY <1>2, <2>1 DEF StakesAgree, RoutesOf
  <1>6. ASSUME NEW r \in Sessions, Chosen(r)'
        PROVE  PortStands(r)'
    <2>1. r # s
      BY <1>3, <1>6 DEF Chosen, Runs
    <2>2. Chosen(r)
      BY <1>3, <1>6, <2>1 DEF Chosen, Runs
    <2> QED
      BY <1>2, <1>3, <2>1, <2>2, PortStillStands DEF Routed
  <1>7. Agree(RoutesOf(disk))'
    BY <1>2 DEF Routed, RoutesOf
  <1> QED
    BY <1>4, <1>5, <1>6, <1>7 DEF Routed

(* Files of a plan are written, or put back: everybody else sees them move. *)
LEMMA FilesLand ==
    ASSUME Routed, Shape', NEW s \in Sessions, Writing(s), NEW F, NEW e,
           disk' = Copy(disk, F, e), RoutesOf(e) \subseteq Stakes(s),
           \A r \in Sessions : GoesOn(r) /\ (Chosen(r)' => F \subseteq moved'[r])
    PROVE  Routed'
  <1>1. disk'.route = [o \in Owners |-> IF RouteFile(o) \in F THEN e.route[o] ELSE disk.route[o]]
    BY CopyRoutes DEF Routed, Shape
  <1>2. RoutesOf(disk') \subseteq Stakes(s) /\ Agree(Stakes(s))
    BY <1>1 DEF RoutesOf, Routed, StakesAgree
  <1>3. OneWriter'
    BY DEF OneWriter, Routed, GoesOn
  <1>4. Agree(RoutesOf(disk))'
    BY <1>2, SubsetAgrees DEF RoutesOf
  <1>5. ASSUME NEW r \in Sessions, Writing(r)'
        PROVE  StakesAgree(r)'
    <2>1. r = s
      BY <1>5 DEF GoesOn, Routed, OneWriter
    <2>2. Stakes(r)' = Stakes(s)
      BY <1>5, <2>1 DEF GoesOn, Stakes, RoutesOf
    <2> QED
      BY <1>2, <2>2 DEF StakesAgree, RoutesOf
  <1>6. ASSUME NEW r \in Sessions, Chosen(r)'
        PROVE  PortStands(r)'
    <2>1. Chosen(r) /\ F \subseteq moved'[r] /\ PortStands(r)
      BY <1>6 DEF GoesOn, Routed
    <2>2. (\A o \in Owners : RouteFile(o) \notin moved'[r]) => RoutesOf(disk') = RoutesOf(disk)
      BY <1>1, <2>1 DEF RoutesOf
    <2> QED
      BY <1>6, <2>1, <2>2, PortStillStands DEF GoesOn
  <1> QED
    BY <1>3, <1>4, <1>5, <1>6 DEF Routed

-----------------------------------------------------------------------------
(* One lemma per step of a session.                                        *)

LEMMA InitRouted == Init => Routed
  <1> SUFFICES ASSUME Init PROVE Routed
    OBVIOUS
  <1>1. IsDisk(disk) /\ DOMAIN disk.route = Owners /\ RoutesOf(disk) = {}
    BY DEF Init, IsDisk, RoutesOf
  <1>2. Shape
    BY <1>1 DEF Init, Shape, IsSession, Idle, Writing
  <1>3. Agree(RoutesOf(disk))
    BY <1>1 DEF Agree
  <1>4. \A s \in Sessions : sess[s].pc = "start"
    BY DEF Init, Idle
  <1> QED
    BY <1>2, <1>3, <1>4 DEF Routed, OneWriter, Writing, Chosen, Runs

(* Reading, choosing, ending, and the user's own edits move no route.      *)

LEMMA LoadedIsSession ==
    ASSUME NEW pc \in {"loaded", "chosen"}, NEW picked
    PROVE  /\ Loaded(pc, picked) = [Idle EXCEPT !.pc = pc, !.seen = disk.config, !.picked = picked]
           /\ IsSession(Loaded(pc, picked)) /\ Loaded(pc, picked).written = {}
           /\ Loaded(pc, picked).pc = pc /\ Loaded(pc, picked).picked = picked
  BY DEF Loaded, Idle, IsSession

(* A session becomes one that writes nothing, and that no manual setup has chosen. *)
LEMMA OthersGoOn ==
    ASSUME Routed, NEW s \in Sessions, NEW session, Becomes(s, session),
           IsSession(session), session.written = {}, session.pc # "writing",
           scene.command[s] = "manual" => session.pc # "chosen",
           UNCHANGED <<scene, disk>>, moved' = [r \in Sessions |-> moved'[r]],
           \A r \in Sessions : r # s => moved'[r] = moved[r]
    PROVE  Routed'
  <1>1. /\ sess' = [r \in Sessions |-> sess'[r]] /\ sess'[s] = session
        /\ \A r \in Sessions : r # s => sess'[r] = sess[r]
    BY BecomesIs DEF Routed
  <1>2. Shape'
    BY <1>1 DEF Routed, Shape, Writing
  <1>3. \A r \in Sessions : GoesOn(r)
    BY <1>1 DEF GoesOn, Chosen, Runs, Writing
  <1> QED
    BY <1>2, <1>3, RoutesUntouched

LEMMA AddLoadKeepsRouted ==
    ASSUME Routed, NEW s \in Sessions, AddLoad(s)
    PROVE  Routed'
  <1>1. PICK picked : Becomes(s, Loaded("loaded", picked))
    BY DEF AddLoad
  <1>2. scene.command[s] = "add" /\ UNCHANGED <<scene, disk, moved>>
    BY DEF AddLoad, Runs
  <1>3. /\ IsSession(Loaded("loaded", picked)) /\ Loaded("loaded", picked).written = {}
        /\ Loaded("loaded", picked).pc = "loaded"
    BY LoadedIsSession
  <1> QED
    BY <1>1, <1>2, <1>3, OthersGoOn DEF Routed, Shape

LEMMA AddChooseKeepsRouted ==
    ASSUME Routed, NEW s \in Sessions, AddChoose(s)
    PROVE  Routed'
  <1>1. PICK picked : Becomes(s, [sess[s] EXCEPT !.pc = "chosen", !.picked = picked,
                                                 !.policies = disk.policy])
    BY Zenon DEF AddChoose
  <1>2. /\ scene.command[s] = "add" /\ sess[s].pc = "loaded"
        /\ UNCHANGED <<scene, disk>> /\ \E F : Reads(s, F)
    BY Zenon DEF AddChoose, Runs
  <1> DEFINE chosen == [sess[s] EXCEPT !.pc = "chosen", !.picked = picked,
                                       !.policies = disk.policy]
  <1>3. IsSession(chosen) /\ chosen.written = {} /\ chosen.pc = "chosen"
    BY <1>2 DEF Routed, Shape, IsSession, Writing
  <1>4. /\ moved' = [r \in Sessions |-> moved'[r]]
        /\ \A r \in Sessions : r # s => moved'[r] = moved[r]
    BY <1>2 DEF Reads, Routed, Shape
  <1> HIDE DEF chosen
  <1> QED
    BY <1>1, <1>2, <1>3, <1>4, OthersGoOn DEF chosen

LEMMA RestoreLoadKeepsRouted ==
    ASSUME Routed, NEW s \in Sessions, RestoreLoad(s)
    PROVE  Routed'
  <1>1. PICK picked, missing :
          Becomes(s, [Loaded("chosen", picked) EXCEPT !.missing = missing])
    BY DEF RestoreLoad
  <1>2. scene.command[s] = "restore" /\ UNCHANGED <<scene, disk, moved>>
    BY DEF RestoreLoad, Runs
  <1>3. /\ IsSession([Loaded("chosen", picked) EXCEPT !.missing = missing])
        /\ [Loaded("chosen", picked) EXCEPT !.missing = missing].written = {}
        /\ [Loaded("chosen", picked) EXCEPT !.missing = missing].pc = "chosen"
    BY DEF Loaded, Idle, IsSession
  <1> QED
    BY <1>1, <1>2, <1>3, OthersGoOn DEF Routed, Shape

LEMMA EndedIsSession ==
    /\ IsSession([Idle EXCEPT !.pc = "ended"])
    /\ [Idle EXCEPT !.pc = "ended"].written = {} /\ [Idle EXCEPT !.pc = "ended"].pc = "ended"
  BY DEF Idle, IsSession

LEMMA EndsKeepsRouted ==
    ASSUME Routed, NEW s \in Sessions, Ends(s), UNCHANGED <<scene, disk>>
    PROVE  Routed'
  <1>1. /\ moved' = [r \in Sessions |-> moved'[r]]
        /\ \A r \in Sessions : r # s => moved'[r] = moved[r]
    BY DEF Ends, Routed, Shape
  <1> QED
    BY <1>1, EndedIsSession, OthersGoOn DEF Ends

LEMMA UserKeepsRouted ==
    ASSUME Routed, UNCHANGED <<scene, sess>>, IsDisk(disk'), disk'.route = disk.route,
           NEW F, Moved(F, {})
    PROVE  Routed'
  <1>1. moved' = [r \in Sessions |-> moved'[r]]
        /\ \A r \in Sessions : moved[r] \subseteq moved'[r]
    BY DEF Moved
  <1>2. Shape'
    BY <1>1 DEF Routed, Shape, Writing
  <1>3. \A r \in Sessions : GoesOn(r)
    BY <1>1 DEF GoesOn, Chosen, Runs, Writing
  <1> QED
    BY <1>2, <1>3, RoutesUntouched

LEMMA UserWritesDisk ==
    ASSUME Routed, NEW o, NEW entry, UserWrites(o, entry)
    PROVE  IsDisk(disk') /\ disk'.route = disk.route
  BY DEF UserWrites, Routed, Shape, IsDisk

(* Manual: the port the user chose is the one all routes have.             *)

LEMMA PickHasPort ==
    ASSUME NEW choices, NEW servers, NEW ports, NEW pick \in Picks(choices, servers, ports)
    PROVE  pick.port \in ports
  <1> DEFINE by == FromBackup([m \in Names |-> NoEntry])
  <1> HIDE DEF by
  <1>1. NoPick = [kind |-> "", by |-> by, from |-> "", policy |-> NoFile, source |-> NoSource,
                  port |-> "", save |-> FALSE]
    BY DEF NoPick, by
  <1>2. PICK choice, found, p : p \in ports /\ pick = Pick(choice, found, p)
    BY DEF Picks
  <1> QED
    BY <1>1, <1>2 DEF Pick

LEMMA PickedPort ==
    ASSUME NEW s, NEW c, NEW n, NEW port, NEW pick \in ManualPicks(s, c, n, port)
    PROVE  pick.port \in {"", port}
  BY PickHasPort, Zenon DEF ManualPicks

LEMMA ManualLoadKeepsRouted ==
    ASSUME Routed, NEW s \in Sessions, ManualLoad(s)
    PROVE  Routed'
  <1>1. Runs(s, "manual", "start") /\ ~Writing(s) /\ UNCHANGED <<scene, disk, moved>>
    BY DEF ManualLoad, Runs, Writing
  <1> DEFINE Picked(n, C, pick) == [o \in {<<c, n>> : c \in C} |-> pick[o[1]]]
             Session(n, C, pick) ==
               [Loaded("chosen", Picked(n, C, pick)) EXCEPT !.policies = disk.policy]
  <1>2. PICK n, port, C, pick : /\ IF UsedPorts = {} THEN port \in Ports ELSE port \in UsedPorts
                                /\ \A c \in C : pick[c] \in ManualPicks(s, c, n, port)
                                /\ Becomes(s, Session(n, C, pick))
    <2>1. \E n \in scene.names, port \in IF UsedPorts = {} THEN Ports ELSE UsedPorts :
          \E C \in SUBSET {c \in scene.files[s] : disk.config[c][n] = NoEntry} :
          \E pick \in [C -> UNION {ManualPicks(s, c, n, port) : c \in C}] :
             /\ \A c \in C : pick[c] \in ManualPicks(s, c, n, port)
             /\ Becomes(s, Session(n, C, pick))
      BY ZenonT(40) DEF ManualLoad
    <2> HIDE DEF Session
    <2> QED
      BY <2>1
  <1> DEFINE picked == Picked(n, C, pick)
             chosen == Session(n, C, pick)
  <1>3. \A o \in DOMAIN picked : picked[o].port \in {"", port}
    <2>1. \A c \in C : pick[c].port \in {"", port}
      BY <1>2, PickedPort
    <2>2. \A o \in DOMAIN picked : \E c \in C : picked[o] = pick[c]
      OBVIOUS
    <2> QED
      BY <2>1, <2>2
  <1> HIDE DEF picked
  <1>4. IsSession(chosen) /\ chosen.written = {} /\ chosen.pc = "chosen" /\ chosen.picked = picked
    <2>1. ASSUME NEW p
          PROVE  LET session == [Loaded("chosen", p) EXCEPT !.policies = disk.policy]
                 IN  /\ IsSession(session) /\ session.written = {} /\ session.pc = "chosen"
                     /\ session.picked = p
      BY DEF Loaded, Idle, IsSession
    <2> HIDE DEF Picked
    <2> QED
      BY <2>1 DEF picked
  <1>5. /\ sess' = [r \in Sessions |-> sess'[r]] /\ sess'[s] = chosen
        /\ \A r \in Sessions : r # s => sess'[r] = sess[r]
    BY <1>2, BecomesIs DEF picked, Routed
  <1> HIDE DEF chosen
  <1>6. Shape'
    BY <1>1, <1>4, <1>5 DEF Routed, Shape, Writing
  <1>7. PortsPicked(s)' \subseteq {port} /\ port \in Ports
    <2>1. PortsPicked(s)' \subseteq {port}
      BY <1>3, <1>4, <1>5 DEF PortsPicked
    <2>2. UsedPorts \subseteq Ports
      BY DEF Routed, Agree, UsedPorts, RoutesOf
    <2> QED
      BY <1>2, <2>1, <2>2
  <1>8. \A r \in RoutesOf(disk) : r.port = port
    <2>1. Agree(RoutesOf(disk)) /\ UsedPorts = {r.port : r \in RoutesOf(disk)}
      BY DEF Routed, UsedPorts, RoutesOf
    <2>2. CASE UsedPorts = {}
      BY <2>1, <2>2
    <2>3. CASE UsedPorts # {}
      BY <1>2, <2>1, <2>3 DEF Agree
    <2> QED
      BY <2>2, <2>3
  <1>9. PortStands(s)'
    <2>1. \A p, q \in PortsPicked(s)' : p \in Ports /\ p = q
      BY <1>2, <1>7
    <2>2. \A r \in RoutesOf(disk'), p \in PortsPicked(s)' : r.port = p
      BY <1>1, <1>7, <1>8 DEF RoutesOf
    <2> QED
      BY <2>1, <2>2 DEF PortStands, RoutesOf, RouteFile, File, RouteKey
  <1>10. OneWriter' /\ Agree(RoutesOf(disk))'
    BY <1>1, <1>4, <1>5 DEF Routed, OneWriter, Writing, RoutesOf
  <1>11. ASSUME NEW r \in Sessions, Writing(r)'
         PROVE  StakesAgree(r)'
    <2>1. r # s
      BY <1>4, <1>5, <1>11 DEF Writing
    <2>2. StakesAgree(r) /\ sess'[r] = sess[r]
      BY <1>5, <1>11, <2>1 DEF Routed, Writing
    <2> QED
      BY <1>1, <2>2 DEF StakesAgree, Stakes, RoutesOf
  <1>12. ASSUME NEW r \in Sessions, Chosen(r)', r # s
         PROVE  PortStands(r)'
    <2>1. Chosen(r) /\ sess'[r] = sess[r]
      BY <1>1, <1>5, <1>12 DEF Chosen, Runs
    <2> QED
      BY <1>1, <2>1, PortStillStands DEF Routed, RoutesOf
  <1> QED
    BY <1>6, <1>9, <1>10, <1>11, <1>12 DEF Routed

-----------------------------------------------------------------------------
(* Plans, and what comes of them.                                          *)

LEMMA BeginShapes ==
    ASSUME Routed, NEW s \in Sessions, ~Writing(s), NEW files, NEW after, NEW healed,
           Begin(s, files, after, healed), UNCHANGED scene
    PROVE  Shape'
  <1> DEFINE new == [sess[s] EXCEPT !.pc = "writing", !.files = files, !.before = disk,
                                    !.after = after, !.healed = healed]
  <1>1. IsSession(sess[s]) /\ sess[s].written = {}
    BY DEF Routed, Shape
  <1>2. IsSession(new) /\ new.pc = "writing"
    BY <1>1 DEF IsSession
  <1>3. Becomes(s, new) /\ moved' = [r \in Sessions |-> moved'[r]]
    BY DEF Begin, Routed, Shape
  <1>4. IsDisk(disk') /\ disk'.route = disk.route
    BY DEF Begin, Routed, Shape, IsDisk
  <1> HIDE DEF new
  <1> QED
    BY <1>2, <1>3, <1>4, BecomesIs DEF Routed, Shape, Writing

LEMMA InstalledRoutes ==
    ASSUME Routed, NEW s, NEW entries, NEW routes, NEW created
    PROVE  Installed(s, entries, routes, created).route =
             [o \in Owners |-> IF o \in DOMAIN sess[s].picked /\ routes[o] # NoRoute
                               THEN routes[o] ELSE disk.route[o]]
  BY DEF Installed, Routed, Shape, IsDisk

LEMMA SetupBegins ==
    ASSUME Routed, NEW s \in Sessions, ~Writing(s), LockFree, NEW entries, NEW routes,
           NEW created, NEW healed, UNCHANGED scene,
           BeginSetup(s, Installed(s, entries, routes, created), healed),
           \A o \in DOMAIN sess[s].picked : routes[o] # NoRoute =>
              /\ ValidRoute(routes[o]) /\ routes[o].port \in Ports
              /\ \A r \in RoutesOf(disk) : r.port = routes[o].port
              /\ \A q \in DOMAIN sess[s].picked :
                    routes[q] # NoRoute => routes[q].port = routes[o].port
    PROVE  Routed'
  <1> DEFINE after == Installed(s, entries, routes, created)
             New == {routes[o] : o \in DOMAIN sess[s].picked} \ {NoRoute}
  <1>1. RoutesOf(after) \subseteq RoutesOf(disk) \union New
    <2>1. after.route = [o \in Owners |-> IF o \in DOMAIN sess[s].picked /\ routes[o] # NoRoute
                                          THEN routes[o] ELSE disk.route[o]]
      BY InstalledRoutes
    <2> HIDE DEF after
    <2>2. ASSUME NEW o \in Owners
          PROVE  \/ after.route[o] = disk.route[o]
                 \/ o \in DOMAIN sess[s].picked /\ after.route[o] = routes[o]
      <3>1. after.route[o] = IF o \in DOMAIN sess[s].picked /\ routes[o] # NoRoute
                             THEN routes[o] ELSE disk.route[o]
        BY <2>1
      <3> QED
        BY <3>1
    <2> QED
      BY <2>2 DEF RoutesOf
  <1>2. Agree(RoutesOf(disk) \union New)
    <2>1. Agree(RoutesOf(disk))
      BY DEF Routed
    <2> QED
      BY <2>1 DEF Agree
  <1>3. Agree(RoutesOf(disk) \union RoutesOf(after))
    BY <1>1, <1>2, SubsetAgrees
  <1>4. \E files : Begin(s, files, after, healed)
    BY DEF BeginSetup
  <1> HIDE DEF after
  <1> QED
    BY <1>3, <1>4, BeginShapes, PlanBegins

LEMMA AddPlanKeepsRouted ==
    ASSUME Routed, NEW s \in Sessions, AddPlan(s)
    PROVE  Routed'
  <1> DEFINE routes == [o \in DOMAIN sess[s].picked |-> NoRoute]
  <1>1. \E entries, healed : BeginSetup(s, Installed(s, entries, routes, FALSE), healed)
    BY Zenon DEF AddPlan
  <1>2. ~Writing(s) /\ LockFree /\ UNCHANGED scene
    BY DEF AddPlan, Runs, Writing
  <1> QED
    BY <1>1, <1>2, SetupBegins

(* Under the lock, the routes a manual setup will serve are valid, and the port *)
(* is still that of the others, because none of them moved.                     *)
LEMMA ManualPlanKeepsRouted ==
    ASSUME Routed, NEW s \in Sessions, ManualPlan(s)
    PROVE  Routed'
  <1> DEFINE T == DOMAIN sess[s].picked
             routes == ManualRoutes(s)
  <1>1. \E entries, healed : BeginSetup(s, Installed(s, entries, routes, TRUE), healed)
    BY Zenon DEF ManualPlan
  <1>2. ~Writing(s) /\ LockFree /\ UNCHANGED scene /\ Chosen(s) /\ ManualReady(s)
    BY DEF ManualPlan, Runs, Writing, Chosen
  <1>3. PortStands(s)
    BY <1>2 DEF Routed
  <1>4. ASSUME NEW o \in T, routes[o] # NoRoute
        PROVE  /\ sess[s].picked[o].port \in PortsPicked(s)
               /\ routes[o].port = sess[s].picked[o].port
               /\ ValidRoute(routes[o]) /\ RoutesUnchanged(s) /\ routes[o].port \in Ports
    <2>1. sess[s].picked[o].port # ""
      BY <1>4 DEF ManualRoutes
    <2>2. routes[o].port = sess[s].picked[o].port
      BY <2>1 DEF ManualRoutes, RouteDefinition
    <2>3. sess[s].picked[o].port \in PortsPicked(s)
      BY <2>1 DEF PortsPicked
    <2>4. ValidRoute(routes[o]) /\ RoutesUnchanged(s)
      BY <1>2, <2>1, Zenon DEF ManualReady
    <2>5. routes[o].port \in Ports
      BY <1>3, <2>2, <2>3, Zenon DEF PortStands
    <2> QED
      BY <2>2, <2>3, <2>4, <2>5
  <1>5. ASSUME NEW o \in T, routes[o] # NoRoute
        PROVE  \A r \in RoutesOf(disk) : r.port = routes[o].port
    BY <1>3, <1>4, <1>5 DEF PortStands, RoutesUnchanged
  <1>6. ASSUME NEW o \in T, routes[o] # NoRoute, NEW q \in T, routes[q] # NoRoute
        PROVE  routes[q].port = routes[o].port
    BY <1>3, <1>4, <1>6 DEF PortStands
  <1> HIDE DEF routes
  <1> QED
    BY <1>1, <1>2, <1>4, <1>5, <1>6, SetupBegins

LEMMA RestorePlanKeepsRouted ==
    ASSUME Routed, NEW s \in Sessions, RestorePlan(s)
    PROVE  Routed'
  <1> DEFINE after == AfterRestore(disk, sess[s].picked)
  <1>1. \E files, healed : Begin(s, files, after, healed)
    BY DEF RestorePlan, BeginRestore
  <1>2. ~Writing(s) /\ LockFree /\ UNCHANGED scene
    BY DEF RestorePlan, Runs, Writing
  <1>3. RoutesOf(after) \subseteq RoutesOf(disk)
    BY DEF RoutesOf, AfterRestore, Routed, Shape, IsDisk
  <1>4. Agree(RoutesOf(disk) \union RoutesOf(after))
    BY <1>3, SubsetAgrees DEF Routed
  <1> HIDE DEF after
  <1> QED
    BY <1>1, <1>2, <1>4, BeginShapes, PlanBegins

LEMMA WriteKeepsRouted ==
    ASSUME Routed, NEW s \in Sessions, Write(s)
    PROVE  Routed'
  <1>1. Writing(s) /\ UNCHANGED scene
    BY DEF Write
  <1>2. PICK f : /\ f \in sess[s].files /\ disk' = Copy(disk, {f}, sess[s].after)
                 /\ Becomes(s, [sess[s] EXCEPT !.written = @ \union {f}]) /\ Moved({f}, {s})
    BY DEF Write, Due, Files
  <1> DEFINE new == [sess[s] EXCEPT !.written = @ \union {f}]
  <1>3. /\ IsSession(new) /\ new.pc = "writing" /\ new.before = sess[s].before
        /\ new.after = sess[s].after
    <2>1. IsSession(sess[s])
      BY DEF Routed, Shape
    <2> QED
      BY <1>1, <1>2, <2>1 DEF IsSession, Writing
  <1> HIDE DEF new
  <1>4. /\ sess' = [r \in Sessions |-> sess'[r]] /\ sess'[s] = new
        /\ \A r \in Sessions : r # s => sess'[r] = sess[r]
    BY <1>2, BecomesIs DEF new, Routed
  <1>5. /\ moved' = [r \in Sessions |-> moved'[r]]
        /\ \A r \in Sessions : sess[r].pc = "chosen" => moved'[r] = moved[r] \union {f}
    BY <1>1, <1>2 DEF Moved, Writing
  <1>6. IsDisk(disk') /\ DOMAIN disk'.route = Owners
    <2>1. IsDisk(disk)
      BY DEF Routed, Shape
    <2>2. IsDisk(disk')
      BY <1>2, <2>1, CopyIsDisk
    <2>3. disk'.route = [o \in Owners |-> IF RouteFile(o) \in {f} THEN sess[s].after.route[o]
                                         ELSE disk.route[o]]
      BY <1>2, <2>1, CopyRoutes
    <2> QED
      BY <2>2, <2>3
  <1>7. Shape'
    BY <1>1, <1>3, <1>4, <1>5, <1>6 DEF Routed, Shape, Writing
  <1>8. \A r \in Sessions : GoesOn(r) /\ (Chosen(r)' => {f} \subseteq moved'[r])
    BY <1>1, <1>3, <1>4, <1>5 DEF GoesOn, Chosen, Runs, Writing
  <1>9. RoutesOf(sess[s].after) \subseteq Stakes(s)
    BY DEF Stakes
  <1> QED
    BY <1>1, <1>2, <1>7, <1>8, <1>9, FilesLand

LEMMA RollBackKeepsRouted ==
    ASSUME Routed, NEW s \in Sessions, Writing(s), RollBack(s), UNCHANGED scene
    PROVE  Routed'
  <1>1. PICK undo : /\ disk' = Copy(disk, undo, sess[s].before)
                    /\ moved' = [r \in Sessions |->
                         IF r = s THEN {}
                         ELSE IF sess[r].pc \in {"loaded", "chosen"} THEN moved[r] \union undo
                         ELSE moved[r]]
    BY Zenon DEF RollBack
  <1>2. Becomes(s, [Idle EXCEPT !.pc = "ended"])
    BY DEF RollBack
  <1>3. /\ sess' = [r \in Sessions |-> sess'[r]] /\ sess'[s] = [Idle EXCEPT !.pc = "ended"]
        /\ \A r \in Sessions : r # s => sess'[r] = sess[r]
    BY <1>2, BecomesIs DEF Routed
  <1>4. IsDisk(disk') /\ DOMAIN disk'.route = Owners
    <2>1. IsDisk(disk)
      BY DEF Routed, Shape
    <2>2. IsDisk(disk')
      BY <1>1, <2>1, CopyIsDisk
    <2>3. disk'.route = [o \in Owners |-> IF RouteFile(o) \in undo THEN sess[s].before.route[o]
                                         ELSE disk.route[o]]
      BY <1>1, <2>1, CopyRoutes
    <2> QED
      BY <2>2, <2>3
  <1>5. Shape'
    BY <1>1, <1>3, <1>4, EndedIsSession DEF Routed, Shape, Writing
  <1>6. \A r \in Sessions : GoesOn(r) /\ (Chosen(r)' => undo \subseteq moved'[r])
    BY <1>1, <1>3, EndedIsSession DEF GoesOn, Chosen, Runs, Writing
  <1>7. RoutesOf(sess[s].before) \subseteq Stakes(s)
    BY DEF Stakes
  <1> QED
    BY <1>1, <1>5, <1>6, <1>7, FilesLand

-----------------------------------------------------------------------------
(* The theorems.                                                           *)

LEMMA NextKeepsRouted ==
    ASSUME Routed, Next
    PROVE  Routed'
  <1>1. ASSUME NEW s \in Sessions, Next1(s)
        PROVE  Routed'
    <2>1. CASE AddLoad(s)
      BY <2>1, AddLoadKeepsRouted
    <2>2. CASE AddChoose(s)
      BY <2>2, AddChooseKeepsRouted
    <2>3. CASE AddPlan(s)
      BY <2>3, AddPlanKeepsRouted
    <2>4. CASE ManualLoad(s)
      BY <2>4, ManualLoadKeepsRouted
    <2>5. CASE ManualPlan(s)
      BY <2>5, ManualPlanKeepsRouted
    <2>6. CASE RestoreLoad(s)
      BY <2>6, RestoreLoadKeepsRouted
    <2>7. CASE RestorePlan(s)
      BY <2>7, RestorePlanKeepsRouted
    <2>8. CASE Cancel(s)
      BY <2>8, EndsKeepsRouted DEF Cancel
    <2>9. CASE Refused(s)
      BY <2>9, EndsKeepsRouted DEF Refused
    <2>10. CASE Write(s)
      BY <2>10, WriteKeepsRouted
    <2>11. CASE Finish(s)
      BY <2>11, EndsKeepsRouted DEF Finish
    <2>12. CASE Fail(s)
      BY <2>12, RollBackKeepsRouted DEF Fail
    <2> QED
      BY <1>1, <2>1, <2>2, <2>3, <2>4, <2>5, <2>6, <2>7, <2>8, <2>9, <2>10, <2>11, <2>12
      DEF Next1
  <1>2. ASSUME NEW s \in Sessions, Abort(s)
        PROVE  Routed'
    BY <1>2, RollBackKeepsRouted DEF Abort
  <1>3. ASSUME NEW s \in Sessions, Crash(s)
        PROVE  Routed'
    BY <1>3, EndsKeepsRouted DEF Crash
  <1>4. ASSUME NEW o \in Owners, UserReplaces(o)
        PROVE  Routed'
    <2>1. PICK entry : UserWrites(o, entry)
      BY <1>4 DEF UserReplaces
    <2>2. UNCHANGED <<scene, sess>>
      BY <1>4 DEF UserReplaces
    <2> QED
      BY <2>1, <2>2, UserWritesDisk, UserKeepsRouted DEF UserWrites
  <1>5. ASSUME NEW o \in Owners, UserTweaks(o)
        PROVE  Routed'
    <2>1. PICK entry : UserWrites(o, entry)
      BY <1>5 DEF UserTweaks
    <2>2. UNCHANGED <<scene, sess>>
      BY <1>5 DEF UserTweaks
    <2> QED
      BY <2>1, <2>2, UserWritesDisk, UserKeepsRouted DEF UserWrites
  <1>6. ASSUME NEW p \in Paths, UserPolicy(p)
        PROVE  Routed'
    <2>1. PICK policy : disk' = [disk EXCEPT !.policy[p] = policy]
      BY <1>6 DEF UserPolicy
    <2>2. IsDisk(disk') /\ disk'.route = disk.route
      BY <2>1 DEF Routed, Shape, IsDisk
    <2>3. UNCHANGED <<scene, sess>> /\ Moved({PolicyFile(p)}, {})
      BY <1>6 DEF UserPolicy
    <2> QED
      BY <2>2, <2>3, UserKeepsRouted
  <1> QED
    BY <1>1, <1>2, <1>3, <1>4, <1>5, <1>6 DEF Next

LEMMA StutterKeepsRouted ==
    ASSUME Routed, UNCHANGED vars
    PROVE  Routed'
  <1>1. Shape'
    BY DEF vars, Routed, Shape, Writing
  <1>2. \A s \in Sessions : GoesOn(s)
    BY DEF vars, GoesOn, Chosen, Runs, Writing
  <1> QED
    BY <1>1, <1>2, RoutesUntouched DEF vars

LEMMA AlwaysRouted == Spec => []Routed
  <1>1. Init => Routed
    BY InitRouted
  <1>2. Routed /\ [Next]_vars => Routed'
    BY NextKeepsRouted, StutterKeepsRouted
  <1> QED
    BY <1>1, <1>2, PTL DEF Spec

(* Every state is one of the program's: two sessions never write at a time, and *)
(* only valid routes are on disk.                                               *)
THEOREM Typing == Spec => []TypeOK
  <1>1. Routed => TypeOK
    <2> SUFFICES ASSUME Routed PROVE TypeOK
      OBVIOUS
    <2>1. \A s \in Sessions : /\ sess[s].pc \in {"start", "loaded", "chosen", "writing", "ended"}
                              /\ sess[s].written \subseteq sess[s].files
      BY DEF Routed, Shape, IsSession
    <2>2. \A o \in Owners : disk.route[o] = NoRoute \/ ValidRoute(disk.route[o])
      BY DEF Routed, Agree, RoutesOf
    <2>3. scene \in Scenes /\ \A s, r \in Sessions : Writing(s) /\ Writing(r) => s = r
      BY DEF Routed, Shape, OneWriter
    <2> QED
      BY <2>1, <2>2, <2>3 DEF TypeOK, Writing
  <1> QED
    BY <1>1, AlwaysRouted, PTL

(* loadRoutes never refuses the routes directory: after any setups and restores, *)
(* run at once or one after another, aborted, failed or killed between any two   *)
(* writes, and any edits of the user's, every route is valid and all of them are *)
(* at one origin.                                                                *)
THEOREM GatewayLoads == Spec => []RoutesAgree
  <1>1. Routed => RoutesAgree
    BY AgreeIsLoad DEF Routed, Shape, RoutesAgree
  <1> QED
    BY <1>1, AlwaysRouted, PTL

-----------------------------------------------------------------------------
(* The policies the user had.                                              *)

Entry(d, o) == d.config[o[1]][o[2]]
Rec(d, o) == d.state[o[1]][o[2]]

IsTable(t) == t = [c \in Configs |-> [n \in Names |-> t[c][n]]]

(* What the invariant measures a disk by. *)
World == [hand |-> Hands(scene), broken |-> broken, mine |-> mine]

Lost(w, o) == PathOf(o) \in w.broken
Plainly(w, e) == e \in w.hand \/ IsWrapper(e)

(* An entry and its record fit: without a record the user wrote the entry, or  *)
(* pasted a wrapper; with one setup installed it, and the record knows what    *)
(* the user had.                                                               *)
Fine(w, o, e, r) ==
    /\ r = NoRecord \/ r.path = PathOf(o)
    /\ ~Lost(w, o) =>
         IF r = NoRecord THEN Plainly(w, e)
         ELSE /\ r.before = w.mine[PathOf(o)] /\ r.original[o[2]] \in w.hand
              /\ IsWrapper(e) \/ (r.created /\ e.type = "http" /\ e \notin w.hand)

FineIn(w, d, o) == Fine(w, o, Entry(d, o), Rec(d, o))

(* No entry of the gateway is offered to an Add. *)
Known(w, d, o) ==
    Lost(w, o) \/ Plainly(w, Entry(d, o)) \/ (Entry(d, o).type = "http" /\ Rec(d, o).created)

(* A policy no record names is the user's; one that a record names is there. *)
PolicyFine(w, refs, p, content) ==
    p \notin w.broken => IF refs = {} THEN content = w.mine[p] ELSE content # NoFile

AtRest(w, d) ==
    /\ \A o \in Owners : FineIn(w, d, o)
    /\ \A p \in Paths : PolicyFine(w, References(d, p), p, d.policy[p])

(* While session j writes: the owners it has picked, and the others. *)
Rewrites(j) == {p \in Paths : PolicyFile(p) \in j.files}

PickedFine(w, d, j, o) ==
    /\ FineIn(w, j.before, o) /\ FineIn(w, j.after, o)
    /\ Fine(w, o, Entry(d, o), IF ConfigFile(o[1]) \in j.written THEN Rec(j.after, o)
                               ELSE Rec(j.before, o))
    /\ Known(w, d, o)
    /\ ConfigFile(o[1]) \in j.files

Installs(w, d, j, o) ==
    /\ PathOf(o) \in Rewrites(j)
    /\ Lost(w, o) \/ Plainly(w, Entry(j.before, o))
    /\ Lost(w, o) \/ Plainly(w, Entry(d, o)) \/ ConfigFile(o[1]) \in j.written

OthersFine(w, d, j, o) ==
    /\ FineIn(w, d, o)
    /\ Entry(j.after, o) = Entry(j.before, o) /\ Rec(j.after, o) = Rec(j.before, o)

ConfigLands(d, j, files, c) ==
    ConfigFile(c) \notin files =>
        d.config[c] = IF ConfigFile(c) \in j.written THEN j.after.config[c] ELSE j.before.config[c]

StateLands(d, j, files, c) ==
    /\ StateFile(c) \notin files
    /\ d.state[c] = IF StateFile(c) \in j.written THEN j.after.state[c] ELSE j.before.state[c]
    /\ StateFile(c) \notin j.files => j.after.state[c] = j.before.state[c]

PolicyLands(w, d, j, files, p) ==
    /\ PolicyFine(w, References(j.before, p), p, j.before.policy[p])
    /\ PolicyFine(w, References(j.after, p), p, j.after.policy[p])
    /\ p \notin w.broken =>
         /\ PolicyFile(p) \notin files
         /\ d.policy[p] = IF PolicyFile(p) \in j.written THEN j.after.policy[p]
                          ELSE j.before.policy[p]

Works(w, d, j, files, command) ==
    /\ IsTable(j.before.config) /\ IsTable(j.after.config)
    /\ \A o \in Owners : IF o \in DOMAIN j.picked THEN PickedFine(w, d, j, o)
                         ELSE OthersFine(w, d, j, o)
    /\ \A c \in Configs : ConfigLands(d, j, files, c) /\ StateLands(d, j, files, c)
    /\ \A p \in Rewrites(j) : PolicyLands(w, d, j, files, p)
    /\ \A p \in Paths \ Rewrites(j) : PolicyFine(w, References(j.before, p), p, d.policy[p])
    /\ IF command = "restore"
       THEN /\ \A o \in Owners : o \in DOMAIN j.picked =>
                  Lost(w, o) \/ Plainly(w, Entry(j.after, o))
            /\ \A p \in Rewrites(j) : p \in w.broken \/ j.after.policy[p] = w.mine[p]
            /\ \A p \in Paths \ Rewrites(j) :
                  References(j.after, p) \subseteq References(j.before, p)
       ELSE \A o \in Owners : o \in DOMAIN j.picked => Installs(w, d, j, o)

(* What a session goes by that has read the disk and not begun. *)
Chooses(w, d, j, files, command) ==
    /\ command = "add" /\ j.pc \in {"loaded", "chosen"} =>
         \A o \in DOMAIN j.picked :
            LET e == j.seen[o[1]][o[2]] IN Supported(e) /\ (Lost(w, o) \/ Plainly(w, e))
    /\ command = "manual" /\ j.pc = "chosen" =>
         \A o \in DOMAIN j.picked : j.seen[o[1]][o[2]] = NoEntry
    /\ command \in {"add", "manual"} /\ j.pc = "chosen" =>
         \A o \in DOMAIN j.picked : j.picked[o].policy # NoFile
    /\ command = "restore" /\ j.pc = "chosen" =>
         \A o \in DOMAIN j.picked :
            j.picked[o].kind # "legacy" /\ StateFile(o[1]) \notin files
              => j.picked[o].by = FromRecord(Rec(d, o))

Tables ==
    /\ IsTable(disk.config) /\ disk.policy = [p \in Paths |-> disk.policy[p]]
    /\ mine = [p \in Paths |-> mine[p]] /\ own = [o \in Owners |-> own[o]]

Kept ==
    /\ Tables
    /\ \A o \in Owners : own[o] \in Hands(scene)
    /\ LockFree => AtRest(World, disk)
    /\ \A s \in Sessions :
         /\ DOMAIN sess[s].picked \subseteq Owners
         /\ Writing(s) => Works(World, disk, sess[s], moved[s], scene.command[s])
         /\ Chooses(World, disk, sess[s], moved[s], scene.command[s])

-----------------------------------------------------------------------------
(* Entries, records and files.                                             *)

LEMMA FilesDiffer ==
    ASSUME NEW c, NEW e, NEW p, NEW q, NEW o
    PROVE  /\ ConfigFile(c) = ConfigFile(e) => c = e
           /\ StateFile(c) = StateFile(e) => c = e
           /\ PolicyFile(p) = PolicyFile(q) => p = q
           /\ ConfigFile(c) # StateFile(e) /\ ConfigFile(c) # PolicyFile(p)
           /\ StateFile(c) # PolicyFile(p)
           /\ RouteFile(o) # ConfigFile(c) /\ RouteFile(o) # StateFile(c)
           /\ RouteFile(o) # PolicyFile(p)
           /\ SavedFile(q) # ConfigFile(c) /\ SavedFile(q) # StateFile(c)
           /\ SavedFile(q) # PolicyFile(p)
           /\ ProfileFile(q) # ConfigFile(c) /\ ProfileFile(q) # StateFile(c)
           /\ ProfileFile(q) # PolicyFile(p)
  BY DEF ConfigFile, StateFile, PolicyFile, RouteFile, SavedFile, ProfileFile, File

LEMMA OwnerParts ==
    ASSUME NEW o \in Owners
    PROVE  o[1] \in Configs /\ o[2] \in Names /\ PathOf(o) \in Paths /\ PathOf(o) # ""
           /\ o = <<o[1], o[2]>>
  <1>1. o[1] \in Configs /\ o[2] \in Names /\ o = <<o[1], o[2]>>
    BY DEF Owners
  <1>2. PathOf(o) \in Paths
    BY DEF Paths, PathOf
  <1>3. PathOf(o) # ""
    BY SceneAssumption DEF Plain
  <1> QED
    BY <1>1, <1>2, <1>3

LEMMA NoPathIsEmpty == "" \notin Paths
  <1>1. \A o \in Owners : PathOf(o) # ""
    BY OwnerParts
  <1> QED
    BY <1>1 DEF Paths, PathOf

LEMMA WorldIs ==
    World.hand = Hands(scene) /\ World.broken = broken /\ World.mine = mine
  BY DEF World

LEMMA CopyFiles ==
    ASSUME NEW d, NEW F, NEW e, IsDisk(d), NEW x, x = Copy(d, F, e)
    PROVE  /\ x.config = [c \in Configs |-> IF ConfigFile(c) \in F THEN e.config[c]
                                            ELSE d.config[c]]
           /\ x.state = [c \in Configs |-> IF StateFile(c) \in F THEN e.state[c] ELSE d.state[c]]
           /\ x.policy = [p \in Paths |-> IF PolicyFile(p) \in F THEN e.policy[p]
                                          ELSE d.policy[p]]
  BY DEF Copy, IsDisk

LEMMA CopyEntries ==
    ASSUME NEW d, NEW F, NEW e, IsDisk(d), NEW x, x = Copy(d, F, e)
    PROVE  /\ \A c \in Configs :
                /\ x.config[c] = IF ConfigFile(c) \in F THEN e.config[c] ELSE d.config[c]
                /\ x.state[c] = IF StateFile(c) \in F THEN e.state[c] ELSE d.state[c]
           /\ \A o \in Owners :
                /\ Entry(x, o) = IF ConfigFile(o[1]) \in F THEN Entry(e, o) ELSE Entry(d, o)
                /\ Rec(x, o) = IF StateFile(o[1]) \in F THEN Rec(e, o) ELSE Rec(d, o)
           /\ \A p \in Paths :
                x.policy[p] = IF PolicyFile(p) \in F THEN e.policy[p] ELSE d.policy[p]
  <1>1. /\ x.config = [c \in Configs |-> IF ConfigFile(c) \in F THEN e.config[c] ELSE d.config[c]]
        /\ x.state = [c \in Configs |-> IF StateFile(c) \in F THEN e.state[c] ELSE d.state[c]]
        /\ x.policy = [p \in Paths |-> IF PolicyFile(p) \in F THEN e.policy[p] ELSE d.policy[p]]
    BY CopyFiles
  <1> QED
    BY <1>1, OwnerParts DEF Entry, Rec

LEMMA TableIs ==
    ASSUME NEW t, t = [c \in Configs |-> t[c]],
           \A c \in Configs : t[c] = [n \in Names |-> t[c][n]]
    PROVE  IsTable(t)
  BY DEF IsTable

LEMMA CopyIsTable ==
    ASSUME NEW d, NEW F, NEW e, IsDisk(d), IsTable(d.config), IsTable(e.config),
           NEW x, x = Copy(d, F, e)
    PROVE  /\ IsTable(x.config)
           /\ x.policy = [p \in Paths |-> x.policy[p]]
  <1>1. /\ x.config = [c \in Configs |-> IF ConfigFile(c) \in F THEN e.config[c] ELSE d.config[c]]
        /\ x.state = [c \in Configs |-> IF StateFile(c) \in F THEN e.state[c] ELSE d.state[c]]
        /\ x.policy = [p \in Paths |-> IF PolicyFile(p) \in F THEN e.policy[p] ELSE d.policy[p]]
    BY CopyFiles, IsDisk(d), x = Copy(d, F, e), SMT
  <1>2. ASSUME NEW c \in Configs
        PROVE  x.config[c] = [n \in Names |-> x.config[c][n]]
    <2>1. d.config[c] = [n \in Names |-> d.config[c][n]]
      BY DEF IsTable
    <2>2. e.config[c] = [n \in Names |-> e.config[c][n]]
      BY DEF IsTable
    <2>3. x.config[c] = d.config[c] \/ x.config[c] = e.config[c]
      BY <1>1
    <2> QED
      BY <2>1, <2>2, <2>3
  <1>3. x.config = [c \in Configs |-> x.config[c]]
    BY <1>1
  <1>4. IsTable(x.config)
    BY <1>2, <1>3, TableIs
  <1>5. x.policy = [p \in Paths |-> x.policy[p]]
    BY <1>1
  <1> QED
    BY <1>4, <1>5

LEMMA NoRecordIs ==
    NoRecord.path = "" /\ NoRecord.created = FALSE /\ NoRecord.before = NoFile
  <1> DEFINE blank == [n \in Names |-> NoEntry]
  <1> HIDE DEF blank
  <1>1. NoRecord = [original |-> blank, installed |-> blank, created |-> FALSE, path |-> "",
                    before |-> NoFile, policy |-> NoFile, route |-> NoRoute]
    BY DEF NoRecord, blank
  <1> QED
    BY <1>1

LEMMA SameRecordsSameReferences ==
    ASSUME NEW d, NEW e, NEW p, \A o \in Owners : Rec(d, o) = Rec(e, o)
    PROVE  References(d, p) = References(e, p)
  BY DEF References, Rec

LEMMA ReferencesAre ==
    ASSUME NEW d, NEW p
    PROVE  References(d, p) = {o \in Owners : Rec(d, o).path = p}
  BY DEF References, Rec

LEMMA FineIsKnown ==
    ASSUME NEW w, NEW d, NEW o, FineIn(w, d, o)
    PROVE  Known(w, d, o)
  BY DEF FineIn, Fine, Known, Plainly

(* What is fine stays so as long as a record's policy is the user's still. *)
LEMMA FineStays ==
    ASSUME NEW w, NEW v, NEW o, NEW e, NEW r, Fine(w, o, e, r),
           v.hand = w.hand, w.broken \subseteq v.broken,
           r = NoRecord \/ Lost(v, o) \/ v.mine[PathOf(o)] = w.mine[PathOf(o)]
    PROVE  Fine(v, o, e, r)
  BY DEF Fine, Lost, Plainly

LEMMA PathIsOwners ==
    ASSUME NEW w, NEW o \in Owners, NEW e, NEW r, Fine(w, o, e, r)
    PROVE  /\ r = NoRecord => r.path \notin Paths
           /\ r # NoRecord => r.path = PathOf(o)
  BY NoRecordIs, NoPathIsEmpty DEF Fine

-----------------------------------------------------------------------------
(* A file is written.                                                      *)

(* Whatever refers to a file is written after it. *)
InOrder(j, f, command) ==
    IF command = "restore"
    THEN (\E c \in Configs : f = StateFile(c)) =>
            \A c \in Configs : ConfigFile(c) \in j.files => ConfigFile(c) \in j.written
    ELSE (\E c \in Configs : f = ConfigFile(c)) =>
            \A c \in Configs : StateFile(c) \in j.files => StateFile(c) \in j.written

(* Session k is j, with f written. *)
Wrote(j, k, f) ==
    /\ k.before = j.before /\ k.after = j.after /\ k.picked = j.picked /\ k.files = j.files
    /\ k.written = j.written \union {f}

LEMMA WriteKeepsPicked ==
    ASSUME NEW w, NEW d, NEW j, NEW files, NEW command, Works(w, d, j, files, command), IsDisk(d),
           NEW f, f \notin files, InOrder(j, f, command),
           NEW x, x = Copy(d, {f}, j.after), NEW k, Wrote(j, k, f),
           NEW o \in Owners, o \in DOMAIN j.picked
    PROVE  /\ PickedFine(w, x, k, o)
           /\ command # "restore" => Installs(w, x, k, o)
  <1> DEFINE c == o[1]
  <1>1. PickedFine(w, d, j, o) /\ StateLands(d, j, files, c) /\ c \in Configs
    BY OwnerParts DEF Works
  <1>2. /\ Entry(x, o) = IF ConfigFile(c) = f THEN Entry(j.after, o) ELSE Entry(d, o)
        /\ Rec(x, o) = IF StateFile(c) = f THEN Rec(j.after, o) ELSE Rec(d, o)
    BY CopyEntries
  <1>3. /\ command = "restore" => Lost(w, o) \/ Plainly(w, Entry(j.after, o))
        /\ command # "restore" => Installs(w, d, j, o)
    BY DEF Works
  <1>4. Rec(d, o) = IF StateFile(c) \in j.written THEN Rec(j.after, o) ELSE Rec(j.before, o)
    BY <1>1 DEF StateLands, Rec
  <1>5. StateFile(c) \notin j.files => Rec(j.after, o) = Rec(j.before, o)
    BY <1>1 DEF StateLands, Rec
  <1>6. ConfigFile(c) # StateFile(c)
    BY FilesDiffer
  <1> HIDE DEF c
  <1>7. Fine(w, o, Entry(x, o), IF ConfigFile(c) \in k.written THEN Rec(k.after, o)
                                ELSE Rec(k.before, o))
    <2>1. CASE ConfigFile(c) = f
      BY <1>1, <1>2, <2>1 DEF Wrote, PickedFine, FineIn
    <2>2. CASE ConfigFile(c) # f
      BY <1>1, <1>2, <2>2 DEF Wrote, PickedFine, c
    <2> QED
      BY <2>1, <2>2
  <1>8. Known(w, x, o)
    <2>1. CASE ConfigFile(c) = f /\ command = "restore"
      BY <1>2, <1>3, <2>1 DEF Known
    <2>2. CASE ConfigFile(c) = f /\ command # "restore"
      <3>1. Rec(x, o) = Rec(j.after, o)
        BY <1>1, <1>2, <1>4, <1>5, <1>6, <2>2 DEF InOrder
      <3>2. FineIn(w, x, o)
        BY <1>1, <1>2, <2>2, <3>1 DEF PickedFine, FineIn
      <3> QED
        BY <3>2, FineIsKnown
    <2>3. CASE StateFile(c) = f /\ ConfigFile(c) \in j.written
      <3>1. FineIn(w, x, o)
        BY <1>1, <1>2, <1>6, <2>3 DEF PickedFine, FineIn, c
      <3> QED
        BY <3>1, FineIsKnown
    <2>4. CASE StateFile(c) = f /\ ConfigFile(c) \notin j.written
      <3>1. command # "restore"
        BY <1>1, <2>4 DEF InOrder, PickedFine, c
      <3> QED
        BY <1>2, <1>3, <1>6, <2>4, <3>1 DEF Installs, Known, c
    <2>5. CASE ConfigFile(c) # f /\ StateFile(c) # f
      BY <1>1, <1>2, <2>5 DEF PickedFine, Known
    <2> QED
      BY <2>1, <2>2, <2>3, <2>4, <2>5
  <1>9. PickedFine(w, x, k, o)
    BY <1>1, <1>7, <1>8 DEF PickedFine, Wrote, c
  <1>10. ASSUME command # "restore"
         PROVE  Installs(w, x, k, o)
    <2>1. Rewrites(k) = Rewrites(j)
      BY DEF Rewrites, Wrote
    <2> QED
      BY <1>2, <1>3, <1>10, <2>1 DEF Installs, Wrote, c
  <1> QED
    BY <1>9, <1>10

LEMMA WriteKeepsWorks ==
    ASSUME NEW w, NEW d, NEW j, NEW files, NEW command, Works(w, d, j, files, command), IsDisk(d),
           NEW f, f \in j.files, f \notin files, f \notin j.written, InOrder(j, f, command),
           NEW x, x = Copy(d, {f}, j.after), NEW k, Wrote(j, k, f)
    PROVE  Works(w, x, k, files, command)
  <1>1. /\ k.before = j.before /\ k.after = j.after /\ k.picked = j.picked
        /\ Rewrites(k) = Rewrites(j)
    BY DEF Wrote, Rewrites
  <1>2. ASSUME NEW o \in Owners, o \in DOMAIN j.picked
        PROVE  PickedFine(w, x, k, o) /\ (command # "restore" => Installs(w, x, k, o))
    BY <1>2, WriteKeepsPicked
  <1>3. ASSUME NEW c \in Configs
        PROVE  ConfigLands(x, k, files, c) /\ StateLands(x, k, files, c)
    <2>1. ConfigLands(d, j, files, c) /\ StateLands(d, j, files, c)
      BY DEF Works
    <2>2. /\ x.config[c] = IF ConfigFile(c) = f THEN j.after.config[c] ELSE d.config[c]
          /\ x.state[c] = IF StateFile(c) = f THEN j.after.state[c] ELSE d.state[c]
      BY CopyEntries
    <2>3. ConfigLands(x, k, files, c)
      BY <2>1, <2>2 DEF ConfigLands, Wrote
    <2>4. StateLands(x, k, files, c)
      BY <2>1, <2>2 DEF StateLands, Wrote
    <2> QED
      BY <2>3, <2>4
  <1>4. ASSUME NEW o \in Owners, o \notin DOMAIN j.picked
        PROVE  OthersFine(w, x, k, o)
    <2> DEFINE c == o[1]
    <2>1. OthersFine(w, d, j, o) /\ ConfigLands(d, j, files, c) /\ StateLands(d, j, files, c)
      BY <1>4, OwnerParts DEF Works
    <2>2. /\ Entry(x, o) = IF ConfigFile(c) = f THEN Entry(j.after, o) ELSE Entry(d, o)
          /\ Rec(x, o) = IF StateFile(c) = f THEN Rec(j.after, o) ELSE Rec(d, o)
      BY CopyEntries
    <2>3. ConfigFile(c) = f => Entry(d, o) = Entry(j.before, o)
      BY <2>1 DEF ConfigLands, Entry
    <2>4. StateFile(c) = f => Rec(d, o) = Rec(j.before, o)
      BY <2>1 DEF StateLands, Rec
    <2>5. Entry(x, o) = Entry(d, o) /\ Rec(x, o) = Rec(d, o)
      BY <2>1, <2>2, <2>3, <2>4 DEF OthersFine
    <2> QED
      BY <1>1, <2>1, <2>5 DEF OthersFine, FineIn
  <1>5. ASSUME NEW p \in Rewrites(j)
        PROVE  PolicyLands(w, x, k, files, p)
    <2>1. PolicyLands(w, d, j, files, p) /\ p \in Paths
      BY DEF Works, Rewrites
    <2>2. x.policy[p] = IF PolicyFile(p) = f THEN j.after.policy[p] ELSE d.policy[p]
      BY <2>1, CopyEntries
    <2> QED
      BY <2>1, <2>2 DEF PolicyLands, Wrote
  <1>6. ASSUME NEW p \in Paths \ Rewrites(j)
        PROVE  PolicyFine(w, References(j.before, p), p, x.policy[p])
    <2>1. PolicyFile(p) # f
      BY DEF Rewrites
    <2>2. x.policy[p] = d.policy[p]
      BY <2>1, CopyEntries
    <2> QED
      BY <2>2 DEF Works
  <1>7. /\ IsTable(j.before.config) /\ IsTable(j.after.config)
        /\ command = "restore" =>
             /\ \A o \in Owners : o \in DOMAIN j.picked =>
                   Lost(w, o) \/ Plainly(w, Entry(j.after, o))
             /\ \A p \in Rewrites(j) : p \in w.broken \/ j.after.policy[p] = w.mine[p]
             /\ \A p \in Paths \ Rewrites(j) :
                   References(j.after, p) \subseteq References(j.before, p)
    BY DEF Works
  <1> QED
    BY <1>1, <1>2, <1>3, <1>4, <1>5, <1>6, <1>7 DEF Works

-----------------------------------------------------------------------------
(* A session ends: it rolls back, dies or has written everything.          *)

LEMMA RecordsLand ==
    ASSUME NEW w, NEW d, NEW j, NEW files, NEW command, Works(w, d, j, files, command),
           NEW o \in Owners
    PROVE  /\ Rec(d, o) = IF StateFile(o[1]) \in j.written THEN Rec(j.after, o)
                          ELSE Rec(j.before, o)
           /\ StateFile(o[1]) \notin files
           /\ StateFile(o[1]) \notin j.files => Rec(j.after, o) = Rec(j.before, o)
  <1>1. StateLands(d, j, files, o[1])
    BY OwnerParts DEF Works
  <1> QED
    BY <1>1 DEF StateLands, Rec

LEMMA PolicyFineStays ==
    ASSUME NEW w, NEW v, NEW refs, NEW p, NEW content, PolicyFine(w, refs, p, content),
           w.broken \subseteq v.broken, v.mine[p] = w.mine[p]
    PROVE  PolicyFine(v, refs, p, content)
  BY DEF PolicyFine

LEMMA RollBackRests ==
    ASSUME NEW w, NEW d, NEW j, NEW files, NEW command, Works(w, d, j, files, command), IsDisk(d),
           j.written \subseteq j.files,
           NEW x, x = Copy(d, j.written \ files, j.before),
           NEW v, v.hand = w.hand, v.mine = w.mine, w.broken \subseteq v.broken,
           j.written \cap files # {} => /\ Rewrites(j) \subseteq v.broken
                                        /\ \A o \in DOMAIN j.picked : Lost(v, o)
    PROVE  AtRest(v, x)
  <1> DEFINE undo == j.written \ files
  <1>1. /\ \A o \in Owners :
             /\ Entry(x, o) = IF ConfigFile(o[1]) \in undo THEN Entry(j.before, o) ELSE Entry(d, o)
             /\ Rec(x, o) = IF StateFile(o[1]) \in undo THEN Rec(j.before, o) ELSE Rec(d, o)
        /\ \A p \in Paths :
             x.policy[p] = IF PolicyFile(p) \in undo THEN j.before.policy[p] ELSE d.policy[p]
    BY CopyEntries
  <1>2. ASSUME NEW o \in Owners
        PROVE  Rec(x, o) = Rec(j.before, o)
    BY <1>1, RecordsLand
  <1>3. ASSUME NEW o \in Owners, o \in DOMAIN j.picked
        PROVE  FineIn(v, x, o)
    <2>1. PickedFine(w, d, j, o)
      BY <1>3 DEF Works
    <2>2. CASE ConfigFile(o[1]) \in undo
      <3>1. FineIn(w, x, o)
        BY <1>1, <1>2, <2>1, <2>2 DEF PickedFine, FineIn
      <3> QED
        BY <3>1, FineStays DEF FineIn
    <2>3. CASE ConfigFile(o[1]) \notin j.written
      <3>1. FineIn(w, x, o)
        BY <1>1, <1>2, <2>1, <2>3 DEF PickedFine, FineIn
      <3> QED
        BY <3>1, FineStays DEF FineIn
    <2>4. CASE ConfigFile(o[1]) \in j.written \cap files
      <3>1. Lost(v, o)
        BY <1>3, <2>4
      <3>2. Fine(w, o, Entry(j.before, o), Rec(x, o))
        BY <1>2, <2>1 DEF PickedFine, FineIn
      <3> QED
        BY <3>1, <3>2 DEF FineIn, Fine
    <2> QED
      BY <2>2, <2>3, <2>4
  <1>4. ASSUME NEW o \in Owners, o \notin DOMAIN j.picked
        PROVE  FineIn(v, x, o)
    <2>1. OthersFine(w, d, j, o) /\ ConfigLands(d, j, files, o[1])
      BY <1>4, OwnerParts DEF Works
    <2>2. Rec(x, o) = Rec(d, o)
      BY <1>1, <2>1, RecordsLand DEF OthersFine
    <2>3. ConfigFile(o[1]) \in undo => Entry(d, o) = Entry(j.after, o)
      BY <2>1 DEF ConfigLands, Entry
    <2>4. Entry(x, o) = Entry(d, o)
      BY <1>1, <2>1, <2>3 DEF OthersFine
    <2>5. FineIn(w, x, o)
      BY <2>1, <2>2, <2>4 DEF OthersFine, FineIn
    <2> QED
      BY <2>5, FineStays DEF FineIn
  <1>5. ASSUME NEW p \in Paths
        PROVE  PolicyFine(v, References(x, p), p, x.policy[p])
    <2>1. References(x, p) = References(j.before, p)
      BY <1>2, SameRecordsSameReferences
    <2>2. PolicyFine(v, References(j.before, p), p, x.policy[p])
      <3>1. CASE p \notin Rewrites(j)
        <4>1. PolicyFile(p) \notin undo
          BY <3>1 DEF Rewrites
        <4>2. PolicyFine(w, References(j.before, p), p, x.policy[p])
          BY <1>1, <3>1, <4>1 DEF Works
        <4> QED
          BY <4>2, PolicyFineStays
      <3>2. CASE p \in Rewrites(j) /\ p \in v.broken
        BY <3>2 DEF PolicyFine
      <3>3. CASE p \in Rewrites(j) /\ p \notin v.broken
        <4>1. PolicyLands(w, d, j, files, p)
          BY <3>3 DEF Works
        <4>2. x.policy[p] = j.before.policy[p]
          BY <1>1, <3>3, <4>1 DEF PolicyLands
        <4> QED
          BY <4>1, <4>2, PolicyFineStays DEF PolicyLands
      <3> QED
        BY <3>1, <3>2, <3>3
    <2> QED
      BY <2>1, <2>2
  <1> QED
    BY <1>3, <1>4, <1>5 DEF AtRest

LEMMA CrashRests ==
    ASSUME NEW w, NEW d, NEW j, NEW files, NEW command, Works(w, d, j, files, command),
           NEW v, v.hand = w.hand, v.mine = w.mine, w.broken \subseteq v.broken,
           Rewrites(j) \subseteq v.broken, \A o \in DOMAIN j.picked : Lost(v, o)
    PROVE  AtRest(v, d)
  <1>1. ASSUME NEW o \in Owners, o \in DOMAIN j.picked
        PROVE  /\ FineIn(v, d, o)
               /\ Fine(w, o, Entry(j.before, o), Rec(j.before, o))
    <2>1. /\ Fine(w, o, Entry(j.before, o), Rec(j.before, o))
          /\ Fine(w, o, Entry(j.after, o), Rec(j.after, o))
      BY <1>1 DEF Works, PickedFine, FineIn
    <2>2. Rec(d, o) = Rec(j.after, o) \/ Rec(d, o) = Rec(j.before, o)
      BY RecordsLand
    <2>3. Lost(v, o)
      BY <1>1
    <2> QED
      BY <2>1, <2>2, <2>3 DEF Fine, FineIn
  <1>2. ASSUME NEW o \in Owners, o \notin DOMAIN j.picked
        PROVE  FineIn(v, d, o) /\ Rec(d, o) = Rec(j.before, o)
    <2>1. OthersFine(w, d, j, o)
      BY <1>2 DEF Works
    <2>2. Rec(d, o) = Rec(j.before, o)
      BY <2>1, RecordsLand DEF OthersFine
    <2> QED
      BY <2>1, <2>2, FineStays DEF FineIn, OthersFine
  <1>3. ASSUME NEW p \in Paths, p \notin v.broken
        PROVE  PolicyFine(v, References(d, p), p, d.policy[p])
    <2>1. ASSUME NEW o \in Owners
          PROVE  Rec(d, o).path = p <=> Rec(j.before, o).path = p
      <3>1. CASE o \in DOMAIN j.picked
        <4>1. PathOf(o) # p
          BY <1>3, <3>1 DEF Lost
        <4>2. /\ FineIn(v, d, o)
              /\ Fine(w, o, Entry(j.before, o), Rec(j.before, o))
          BY <1>1, <3>1
        <4> QED
          BY <1>3, <4>1, <4>2, PathIsOwners DEF FineIn
      <3>2. CASE o \notin DOMAIN j.picked
        BY <1>2, <3>2
      <3> QED
        BY <3>1, <3>2
    <2>2. References(d, p) = References(j.before, p)
      BY <2>1, ReferencesAre
    <2>3. PolicyFine(w, References(j.before, p), p, d.policy[p])
      BY <1>3 DEF Works
    <2> QED
      BY <2>2, <2>3, PolicyFineStays
  <1>4. \A p \in Paths : PolicyFine(v, References(d, p), p, d.policy[p])
    BY <1>3 DEF PolicyFine
  <1> QED
    BY <1>1, <1>2, <1>4 DEF AtRest

(* What a restore has retained, and no record names any more, is the user's now. *)
LEMMA FinishRests ==
    ASSUME NEW w, NEW d, NEW j, NEW files, NEW command, Works(w, d, j, files, command),
           j.written = j.files, NEW v, v.hand = w.hand, v.broken = w.broken,
           \A p \in Paths :
              v.mine[p] = IF /\ command = "restore" /\ PolicyFile(p) \notin j.files
                             /\ \E o \in Owners : Rec(j.before, o).path = p
                             /\ References(d, p) = {}
                          THEN d.policy[p] ELSE w.mine[p]
    PROVE  AtRest(v, d)
  <1>1. ASSUME NEW o \in Owners
        PROVE  Rec(d, o) = Rec(j.after, o)
    BY RecordsLand
  <1>2. ASSUME NEW o \in Owners
        PROVE  FineIn(w, d, o)
    <2>1. CASE o \in DOMAIN j.picked
      BY <1>1, <2>1 DEF Works, PickedFine, FineIn
    <2>2. CASE o \notin DOMAIN j.picked
      BY <2>2 DEF Works, OthersFine
    <2> QED
      BY <2>1, <2>2
  <1>3. ASSUME NEW o \in Owners
        PROVE  FineIn(v, d, o)
    <2>1. Fine(w, o, Entry(d, o), Rec(d, o)) /\ PathOf(o) \in Paths
      BY <1>2, OwnerParts DEF FineIn
    <2>2. Rec(d, o) = NoRecord \/ o \in References(d, PathOf(o))
      BY <2>1, PathIsOwners, ReferencesAre
    <2>3. Rec(d, o) = NoRecord \/ v.mine[PathOf(o)] = w.mine[PathOf(o)]
      BY <2>1, <2>2
    <2> QED
      BY <2>1, <2>3, FineStays DEF FineIn
  <1>4. ASSUME NEW p \in Paths
        PROVE  PolicyFine(v, References(d, p), p, d.policy[p])
    <2>1. References(d, p) = References(j.after, p)
      BY <1>1, SameRecordsSameReferences
    <2>2. CASE p \in Rewrites(j)
      <3>1. PolicyFile(p) \in j.files /\ v.mine[p] = w.mine[p]
        BY <2>2 DEF Rewrites
      <3>2. PolicyLands(w, d, j, files, p)
        BY <2>2 DEF Works
      <3>3. p \notin w.broken => d.policy[p] = j.after.policy[p]
        BY <3>1, <3>2 DEF PolicyLands
      <3>4. PolicyFine(w, References(j.after, p), p, j.after.policy[p])
        BY <3>2 DEF PolicyLands
      <3> QED
        BY <2>1, <3>1, <3>3, <3>4 DEF PolicyFine
    <2>3. CASE p \notin Rewrites(j)
      <3>1. PolicyFine(w, References(j.before, p), p, d.policy[p])
        BY <2>3 DEF Works
      <3>2. References(j.before, p) # {} <=> \E o \in Owners : Rec(j.before, o).path = p
        BY ReferencesAre
      <3>3. CASE command = "restore"
        <4>1. References(j.after, p) \subseteq References(j.before, p)
          BY <2>3, <3>3 DEF Works
        <4>2. PolicyFile(p) \notin j.files
          BY <2>3 DEF Rewrites
        <4> QED
          BY <2>1, <3>1, <3>2, <3>3, <4>1, <4>2 DEF PolicyFine
      <3>4. CASE command # "restore"
        <4>1. \A o \in Owners : Rec(j.after, o).path = p <=> Rec(j.before, o).path = p
          <5>1. ASSUME NEW o \in Owners, o \in DOMAIN j.picked
                PROVE  Rec(j.after, o).path # p /\ Rec(j.before, o).path # p
            <6>1. PathOf(o) # p
              BY <2>3, <3>4, <5>1 DEF Works, Installs
            <6>2. /\ Fine(w, o, Entry(j.before, o), Rec(j.before, o))
                  /\ Fine(w, o, Entry(j.after, o), Rec(j.after, o))
              BY <5>1 DEF Works, PickedFine, FineIn
            <6> QED
              BY <6>1, <6>2, PathIsOwners
          <5> QED
            BY <5>1 DEF Works, OthersFine
        <4>2. References(j.after, p) = References(j.before, p)
          BY <4>1, ReferencesAre
        <4>3. v.mine[p] = w.mine[p]
          BY <3>4
        <4> QED
          BY <2>1, <3>1, <4>2, <4>3 DEF PolicyFine
      <3> QED
        BY <3>3, <3>4
    <2> QED
      BY <2>2, <2>3
  <1> QED
    BY <1>3, <1>4 DEF AtRest

-----------------------------------------------------------------------------
(* The user edits an entry or a policy.                                    *)

NoWrapperByHand(w) == \A e \in w.hand : ~IsWrapper(e)

(* A wrapper stays one, or an entry of the user's gives way to another. *)
Edit(w, v, o, e, edited) ==
    \/ IsWrapper(e) /\ IsWrapper(edited)
    \/ Plainly(w, edited) /\ (Lost(v, o) \/ e \in w.hand)

LEMMA EditIsFine ==
    ASSUME NEW w, NEW v, NEW o, NEW e, NEW r, NEW edited, Fine(w, o, e, r), NoWrapperByHand(w),
           Edit(w, v, o, e, edited), v.hand = w.hand, v.mine = w.mine, w.broken \subseteq v.broken
    PROVE  Fine(v, o, edited, r)
  BY DEF Fine, Edit, Lost, Plainly, NoWrapperByHand

(* Disk x is d, with another entry of owner q. *)
Edited(w, v, d, x, q) ==
    /\ v.hand = w.hand /\ v.mine = w.mine /\ w.broken \subseteq v.broken
    /\ \A c \in Configs : x.state[c] = d.state[c] /\ (c # q[1] => x.config[c] = d.config[c])
    /\ \A p \in Paths : x.policy[p] = d.policy[p]
    /\ \A o \in Owners : Rec(x, o) = Rec(d, o) /\ (o # q => Entry(x, o) = Entry(d, o))
    /\ Edit(w, v, q, Entry(d, q), Entry(x, q))

LEMMA EditKeepsFine ==
    ASSUME NEW w, NEW v, NEW d, NEW x, NEW q, Edited(w, v, d, x, q), NoWrapperByHand(w),
           NEW o \in Owners, NEW r, Fine(w, o, Entry(d, o), r)
    PROVE  Fine(v, o, Entry(x, o), r)
  <1>1. CASE o = q
    BY <1>1, EditIsFine DEF Edited
  <1>2. CASE o # q
    BY <1>2, FineStays DEF Edited
  <1> QED
    BY <1>1, <1>2

LEMMA EditRests ==
    ASSUME NEW w, NEW v, NEW d, NEW x, NEW q, Edited(w, v, d, x, q), NoWrapperByHand(w),
           AtRest(w, d)
    PROVE  AtRest(v, x)
  <1>1. ASSUME NEW o \in Owners
        PROVE  FineIn(v, x, o)
    <2>1. Fine(w, o, Entry(d, o), Rec(d, o)) /\ Rec(x, o) = Rec(d, o)
      BY DEF AtRest, FineIn, Edited
    <2> QED
      BY <2>1, EditKeepsFine DEF FineIn
  <1>2. ASSUME NEW p \in Paths
        PROVE  PolicyFine(v, References(x, p), p, x.policy[p])
    <2>1. References(x, p) = References(d, p)
      BY SameRecordsSameReferences DEF Edited
    <2> QED
      BY <2>1, PolicyFineStays DEF AtRest, Edited
  <1> QED
    BY <1>1, <1>2 DEF AtRest

LEMMA EditKeepsWorks ==
    ASSUME NEW w, NEW v, NEW d, NEW x, NEW q, Edited(w, v, d, x, q), NoWrapperByHand(w),
           NEW j, NEW files, NEW command, Works(w, d, j, files, command)
    PROVE  Works(v, x, j, files \union {ConfigFile(q[1])}, command)
  <1> DEFINE more == files \union {ConfigFile(q[1])}
  <1>1. v.hand = w.hand /\ v.mine = w.mine /\ w.broken \subseteq v.broken
    BY DEF Edited
  <1>2. ASSUME NEW o \in Owners, o \in DOMAIN j.picked
        PROVE  PickedFine(v, x, j, o)
    <2>1. PickedFine(w, d, j, o)
      BY <1>2 DEF Works
    <2>2. FineIn(v, j.before, o) /\ FineIn(v, j.after, o)
      BY <1>1, <2>1, FineStays DEF FineIn, PickedFine
    <2>3. Fine(v, o, Entry(x, o), IF ConfigFile(o[1]) \in j.written THEN Rec(j.after, o)
                                  ELSE Rec(j.before, o))
      BY <2>1, EditKeepsFine DEF PickedFine
    <2>4. Known(v, x, o)
      BY <2>1 DEF PickedFine, Known, Edited, Edit, Lost, Plainly
    <2> QED
      BY <2>1, <2>2, <2>3, <2>4 DEF PickedFine
  <1>3. ASSUME NEW o \in Owners, o \notin DOMAIN j.picked
        PROVE  OthersFine(v, x, j, o)
    <2>1. OthersFine(w, d, j, o) /\ Rec(x, o) = Rec(d, o)
      BY <1>3 DEF Works, Edited
    <2>2. FineIn(v, x, o)
      BY <2>1, EditKeepsFine DEF OthersFine, FineIn
    <2> QED
      BY <2>1, <2>2 DEF OthersFine
  <1>4. ASSUME NEW c \in Configs
        PROVE  ConfigLands(x, j, more, c) /\ StateLands(x, j, more, c)
    <2>1. ConfigLands(d, j, files, c) /\ StateLands(d, j, files, c)
      BY DEF Works
    <2>2. x.state[c] = d.state[c] /\ (c # q[1] => x.config[c] = d.config[c])
      BY DEF Edited
    <2>3. StateFile(c) \notin more
      BY <2>1, FilesDiffer DEF StateLands
    <2>4. StateLands(x, j, more, c)
      BY <2>1, <2>2, <2>3 DEF StateLands
    <2> QED
      BY <2>1, <2>2, <2>4 DEF ConfigLands
  <1>5. ASSUME NEW p \in Rewrites(j)
        PROVE  PolicyLands(v, x, j, more, p)
    <2>1. PolicyLands(w, d, j, files, p) /\ p \in Paths
      BY DEF Works, Rewrites
    <2>2. x.policy[p] = d.policy[p] /\ PolicyFile(p) # ConfigFile(q[1])
      BY <2>1, FilesDiffer DEF Edited
    <2>3. /\ PolicyFine(v, References(j.before, p), p, j.before.policy[p])
          /\ PolicyFine(v, References(j.after, p), p, j.after.policy[p])
      BY <1>1, <2>1, PolicyFineStays DEF PolicyLands
    <2>4. p \notin v.broken => p \notin w.broken
      BY <1>1
    <2> QED
      BY <2>1, <2>2, <2>3, <2>4 DEF PolicyLands
  <1>6. ASSUME NEW p \in Paths \ Rewrites(j)
        PROVE  PolicyFine(v, References(j.before, p), p, x.policy[p])
    <2>1. PolicyFine(w, References(j.before, p), p, d.policy[p])
      BY DEF Works
    <2>2. x.policy[p] = d.policy[p]
      BY DEF Edited
    <2> QED
      BY <1>1, <2>1, <2>2, PolicyFineStays
  <1>7. IsTable(j.before.config) /\ IsTable(j.after.config)
    BY DEF Works
  <1>8. ASSUME command = "restore"
        PROVE  /\ \A o \in Owners : o \in DOMAIN j.picked =>
                     Lost(v, o) \/ Plainly(v, Entry(j.after, o))
               /\ \A p \in Rewrites(j) : p \in v.broken \/ j.after.policy[p] = v.mine[p]
               /\ \A p \in Paths \ Rewrites(j) :
                     References(j.after, p) \subseteq References(j.before, p)
    BY <1>1, <1>8 DEF Works, Lost, Plainly
  <1>9. ASSUME command # "restore", NEW o \in Owners, o \in DOMAIN j.picked
        PROVE  Installs(v, x, j, o)
    <2>1. Installs(w, d, j, o)
      BY <1>9 DEF Works
    <2>2. o # q => Entry(x, o) = Entry(d, o)
      BY DEF Edited
    <2>3. o = q => Edit(w, v, o, Entry(d, o), Entry(x, o))
      BY DEF Edited
    <2> QED
      BY <1>1, <2>1, <2>2, <2>3 DEF Installs, Edit, Lost, Plainly
  <1> QED
    BY <1>2, <1>3, <1>4, <1>5, <1>6, <1>7, <1>8, <1>9 DEF Works

(* Disk x is d with another content of policy q.  A policy that no record names, *)
(* and no session writes, is the user's.                                         *)
Rewritten(w, v, d, x, q) ==
    /\ v.hand = w.hand /\ w.broken \subseteq v.broken
    /\ \A c \in Configs : x.state[c] = d.state[c] /\ x.config[c] = d.config[c]
    /\ \A o \in Owners : Rec(x, o) = Rec(d, o) /\ Entry(x, o) = Entry(d, o)
    /\ \A p \in Paths : p # q => x.policy[p] = d.policy[p] /\ v.mine[p] = w.mine[p]

(* What becomes of it when nobody writes. *)
Settled(w, v, d, x, q) ==
    \/ References(d, q) = {} /\ v.mine[q] = x.policy[q]
    \/ q \in v.broken /\ v.mine[q] = w.mine[q]
    \/ References(d, q) # {} /\ x.policy[q] # NoFile /\ v.mine[q] = w.mine[q]

LEMMA RewrittenRests ==
    ASSUME NEW w, NEW v, NEW d, NEW x, NEW q \in Paths, Rewritten(w, v, d, x, q),
           Settled(w, v, d, x, q), AtRest(w, d)
    PROVE  AtRest(v, x)
  <1>1. ASSUME NEW o \in Owners
        PROVE  FineIn(v, x, o)
    <2>1. Fine(w, o, Entry(x, o), Rec(x, o)) /\ Rec(x, o) = Rec(d, o) /\ PathOf(o) \in Paths
      BY OwnerParts DEF AtRest, FineIn, Rewritten
    <2>2. Rec(x, o) = NoRecord \/ o \in References(d, PathOf(o))
      BY <2>1, PathIsOwners, ReferencesAre
    <2>3. Rec(x, o) = NoRecord \/ v.mine[PathOf(o)] = w.mine[PathOf(o)]
      BY <2>1, <2>2 DEF Rewritten, Settled
    <2> QED
      BY <2>1, <2>3, FineStays DEF FineIn, Rewritten
  <1>2. ASSUME NEW p \in Paths
        PROVE  PolicyFine(v, References(x, p), p, x.policy[p])
    <2>1. References(x, p) = References(d, p)
      BY SameRecordsSameReferences DEF Rewritten
    <2>2. PolicyFine(w, References(d, p), p, d.policy[p])
      BY DEF AtRest
    <2> QED
      BY <2>1, <2>2 DEF PolicyFine, Rewritten, Settled
  <1> QED
    BY <1>1, <1>2 DEF AtRest

LEMMA NamedBefore ==
    ASSUME NEW w, NEW d, NEW j, NEW files, NEW command, Works(w, d, j, files, command),
           NEW p \in Paths \ Rewrites(j)
    PROVE  /\ References(d, p) \subseteq References(j.before, p)
           /\ References(j.after, p) \subseteq References(j.before, p)
  <1>1. ASSUME NEW o \in Owners, Rec(j.after, o).path = p
        PROVE  Rec(j.before, o).path = p
    <2>1. CASE command = "restore"
      <3>1. References(j.after, p) \subseteq References(j.before, p)
        BY <2>1 DEF Works
      <3> QED
        BY <1>1, <3>1, ReferencesAre
    <2>2. CASE command # "restore" /\ o \in DOMAIN j.picked
      <3>1. PathOf(o) \in Rewrites(j) /\ Fine(w, o, Entry(j.after, o), Rec(j.after, o))
        BY <2>2 DEF Works, Installs, PickedFine, FineIn
      <3> QED
        BY <1>1, <3>1, PathIsOwners
    <2>3. CASE o \notin DOMAIN j.picked
      BY <1>1, <2>3 DEF Works, OthersFine
    <2> QED
      BY <2>1, <2>2, <2>3
  <1>2. ASSUME NEW o \in Owners, Rec(d, o).path = p
        PROVE  Rec(j.before, o).path = p
    BY <1>1, <1>2, RecordsLand
  <1> QED
    BY <1>1, <1>2, ReferencesAre

(* What a session that writes has to do with the policy the user rewrites. *)
Minds(w, v, d, x, j, q) ==
    \/ /\ References(j.before, q) = {} /\ References(d, q) = {} /\ q \notin Rewrites(j)
       /\ v.mine[q] = x.policy[q]
    \/ q \in v.broken /\ v.mine[q] = w.mine[q]
    \/ /\ References(j.before, q) # {} /\ x.policy[q] # NoFile /\ q \notin Rewrites(j)
       /\ v.mine[q] = w.mine[q]

LEMMA RewrittenKeepsWorks ==
    ASSUME NEW w, NEW v, NEW d, NEW x, NEW q \in Paths, Rewritten(w, v, d, x, q),
           NEW j, NEW files, NEW command, Works(w, d, j, files, command), Minds(w, v, d, x, j, q)
    PROVE  Works(v, x, j, files \union {PolicyFile(q)}, command)
  <1> DEFINE more == files \union {PolicyFile(q)}
  <1>1. v.hand = w.hand /\ w.broken \subseteq v.broken
    BY DEF Rewritten
  <1>2. ASSUME NEW p \in Paths, v.mine[p] # w.mine[p]
        PROVE  /\ p = q /\ References(j.before, p) = {} /\ References(d, p) = {}
               /\ References(j.after, p) = {} /\ p \notin Rewrites(j)
    <2>1. p = q
      BY <1>2 DEF Rewritten
    <2>2. References(j.before, p) = {} /\ References(d, p) = {} /\ p \notin Rewrites(j)
      BY <1>2, <2>1 DEF Minds
    <2> QED
      BY <2>1, <2>2, NamedBefore
  <1>3. ASSUME NEW o \in Owners, NEW e, NEW r, Fine(w, o, e, r),
               r = Rec(d, o) \/ r = Rec(j.before, o) \/ r = Rec(j.after, o)
        PROVE  Fine(v, o, e, r)
    <2>1. PathOf(o) \in Paths
      BY OwnerParts
    <2>2. \/ r = NoRecord
          \/ o \in References(d, PathOf(o)) \/ o \in References(j.before, PathOf(o))
          \/ o \in References(j.after, PathOf(o))
      BY <1>3, PathIsOwners, ReferencesAre
    <2>3. r = NoRecord \/ v.mine[PathOf(o)] = w.mine[PathOf(o)]
      BY <1>2, <2>1, <2>2
    <2> QED
      BY <1>1, <1>3, <2>3, FineStays
  <1>4. \A o \in Owners : Rec(x, o) = Rec(d, o) /\ Entry(x, o) = Entry(d, o)
    BY DEF Rewritten
  <1>5. ASSUME NEW o \in Owners, o \in DOMAIN j.picked
        PROVE  PickedFine(v, x, j, o)
    <2>1. PickedFine(w, d, j, o)
      BY <1>5 DEF Works
    <2>2. FineIn(v, j.before, o) /\ FineIn(v, j.after, o)
      BY <1>3, <2>1 DEF FineIn, PickedFine
    <2>3. Fine(v, o, Entry(d, o), IF ConfigFile(o[1]) \in j.written THEN Rec(j.after, o)
                                  ELSE Rec(j.before, o))
      BY <1>3, <2>1 DEF PickedFine
    <2>4. Known(v, x, o)
      BY <1>1, <1>4, <2>1 DEF PickedFine, Known, Lost, Plainly
    <2> QED
      BY <1>4, <2>1, <2>2, <2>3, <2>4 DEF PickedFine
  <1>6. ASSUME NEW o \in Owners, o \notin DOMAIN j.picked
        PROVE  OthersFine(v, x, j, o)
    <2>1. OthersFine(w, d, j, o)
      BY <1>6 DEF Works
    <2>2. Fine(v, o, Entry(d, o), Rec(d, o))
      BY <1>3, <2>1 DEF OthersFine, FineIn
    <2> QED
      BY <1>4, <2>1, <2>2 DEF OthersFine, FineIn
  <1>7. ASSUME NEW c \in Configs
        PROVE  ConfigLands(x, j, more, c) /\ StateLands(x, j, more, c)
    <2>1. ConfigLands(d, j, files, c) /\ StateLands(d, j, files, c)
      BY DEF Works
    <2>2. x.state[c] = d.state[c] /\ x.config[c] = d.config[c]
      BY DEF Rewritten
    <2>3. StateFile(c) \notin more
      BY <2>1, FilesDiffer DEF StateLands
    <2>4. StateLands(x, j, more, c)
      BY <2>1, <2>2, <2>3 DEF StateLands
    <2> QED
      BY <2>1, <2>2, <2>4 DEF ConfigLands
  <1>8. ASSUME NEW p \in Rewrites(j)
        PROVE  PolicyLands(v, x, j, more, p)
    <2>1. PolicyLands(w, d, j, files, p) /\ p \in Paths
      BY DEF Works, Rewrites
    <2>2. v.mine[p] = w.mine[p]
      BY <1>2, <2>1
    <2>3. /\ PolicyFine(v, References(j.before, p), p, j.before.policy[p])
          /\ PolicyFine(v, References(j.after, p), p, j.after.policy[p])
      BY <1>1, <2>1, <2>2, PolicyFineStays DEF PolicyLands
    <2>4. ASSUME p \notin v.broken
          PROVE  /\ PolicyFile(p) \notin more /\ x.policy[p] = d.policy[p]
                 /\ p \notin w.broken
      <3>1. p # q
        BY <2>4 DEF Minds
      <3>2. PolicyFile(p) # PolicyFile(q)
        BY <3>1, FilesDiffer
      <3>3. p \notin w.broken
        BY <1>1, <2>4
      <3> QED
        BY <2>1, <3>1, <3>2, <3>3 DEF Rewritten, PolicyLands
    <2> QED
      BY <2>1, <2>3, <2>4 DEF PolicyLands
  <1>9. ASSUME NEW p \in Paths \ Rewrites(j)
        PROVE  PolicyFine(v, References(j.before, p), p, x.policy[p])
    <2>1. PolicyFine(w, References(j.before, p), p, d.policy[p])
      BY DEF Works
    <2>2. CASE p # q
      BY <1>1, <2>1, <2>2, PolicyFineStays DEF Rewritten
    <2>3. CASE p = q
      BY <2>3 DEF Minds, PolicyFine
    <2> QED
      BY <2>2, <2>3
  <1>10. IsTable(j.before.config) /\ IsTable(j.after.config)
    BY DEF Works
  <1>11. ASSUME command = "restore"
         PROVE  /\ \A o \in Owners : o \in DOMAIN j.picked =>
                     Lost(v, o) \/ Plainly(v, Entry(j.after, o))
                /\ \A p \in Rewrites(j) : p \in v.broken \/ j.after.policy[p] = v.mine[p]
                /\ \A p \in Paths \ Rewrites(j) :
                     References(j.after, p) \subseteq References(j.before, p)
    <2>1. \A p \in Rewrites(j) : v.mine[p] = w.mine[p]
      BY <1>2 DEF Rewrites
    <2> QED
      BY <1>1, <1>11, <2>1 DEF Works, Lost, Plainly
  <1>12. ASSUME command # "restore", NEW o \in Owners, o \in DOMAIN j.picked
         PROVE  Installs(v, x, j, o)
    BY <1>1, <1>4, <1>12 DEF Works, Installs, Lost, Plainly
  <1> QED
    BY <1>5, <1>6, <1>7, <1>8, <1>9, <1>10, <1>11, <1>12 DEF Works

-----------------------------------------------------------------------------
(* A plan is begun.                                                        *)

(* Session k has planned on disk d, and its plan is fine. *)
Plans(v, d, k, command) ==
    /\ k.before = d /\ k.written = {} /\ IsTable(d.config) /\ IsTable(k.after.config)
    /\ \A c \in Configs : StateFile(c) \notin k.files => k.after.state[c] = d.state[c]
    /\ \A o \in Owners : IF o \in DOMAIN k.picked
                         THEN FineIn(v, k.after, o) /\ ConfigFile(o[1]) \in k.files
                         ELSE Entry(k.after, o) = Entry(d, o) /\ Rec(k.after, o) = Rec(d, o)
    /\ \A p \in Rewrites(k) : PolicyFine(v, References(k.after, p), p, k.after.policy[p])
    /\ IF command = "restore"
       THEN /\ \A o \in Owners : o \in DOMAIN k.picked =>
                  Lost(v, o) \/ Plainly(v, Entry(k.after, o))
            /\ \A p \in Rewrites(k) : p \in v.broken \/ k.after.policy[p] = v.mine[p]
            /\ \A p \in Paths \ Rewrites(k) : References(k.after, p) \subseteq References(d, p)
       ELSE \A o \in Owners : o \in DOMAIN k.picked =>
               PathOf(o) \in Rewrites(k) /\ (Lost(v, o) \/ Plainly(v, Entry(d, o)))

LEMMA PlanWorks ==
    ASSUME NEW w, NEW v, v.hand = w.hand, v.mine = w.mine, w.broken \subseteq v.broken,
           NEW d, AtRest(w, d), NEW x, x.config = d.config, x.state = d.state,
           x.policy = d.policy, NEW k, NEW command, Plans(v, d, k, command)
    PROVE  Works(v, x, k, {}, command)
  <1>1. ASSUME NEW o \in Owners
        PROVE  Entry(x, o) = Entry(d, o) /\ Rec(x, o) = Rec(d, o) /\ FineIn(v, d, o)
    BY FineStays DEF Plans, Entry, Rec, AtRest, FineIn
  <1>2. ASSUME NEW o \in Owners, o \in DOMAIN k.picked
        PROVE  PickedFine(v, x, k, o)
    <2>1. FineIn(v, d, o) /\ FineIn(v, x, o)
      BY <1>1 DEF FineIn
    <2>2. Known(v, x, o)
      BY <2>1, FineIsKnown
    <2> QED
      BY <1>1, <1>2, <2>1, <2>2 DEF Plans, PickedFine, FineIn
  <1>3. ASSUME NEW o \in Owners, o \notin DOMAIN k.picked
        PROVE  OthersFine(v, x, k, o)
    BY <1>1, <1>3 DEF Plans, OthersFine, FineIn
  <1>4. ASSUME NEW p \in Paths
        PROVE  PolicyFine(v, References(d, p), p, d.policy[p])
    BY PolicyFineStays DEF AtRest
  <1>5. ASSUME NEW p \in Rewrites(k)
        PROVE  PolicyLands(v, x, k, {}, p)
    BY <1>4, <1>5 DEF Plans, PolicyLands, Rewrites
  <1>6. ASSUME NEW c \in Configs
        PROVE  ConfigLands(x, k, {}, c) /\ StateLands(x, k, {}, c)
    BY <1>6 DEF Plans, ConfigLands, StateLands
  <1>7. ASSUME command # "restore", NEW o \in Owners, o \in DOMAIN k.picked
        PROVE  Installs(v, x, k, o)
    BY <1>1, <1>7 DEF Plans, Installs
  <1> QED
    BY <1>2, <1>3, <1>4, <1>5, <1>6, <1>7 DEF Plans, Works

(* What an Add or a Manual writes. *)

LEMMA RecordAsIs ==
    ASSUME NEW adoption \in {"fresh", "record", "legacy"}, NEW d, NEW c, NEW n, NEW installed,
           NEW policy, NEW created, NEW route
    PROVE  LET r == RecordAs(adoption, d, c, n, installed, policy, created, route)
           IN  /\ r.path = PolicyLocation(c, n) /\ r.before = EarlierPolicy(d, c, n, adoption)
               /\ adoption = "fresh" => r.original = d.config[c] /\ r.created = created
               /\ adoption = "record" => /\ r.original = d.state[c][n].original
                                         /\ r.created = d.state[c][n].created
  BY DEF RecordAs

LEMMA AdoptionIs ==
    ASSUME NEW d, NEW c, NEW n
    PROVE  /\ Adoption(d, c, n) \in {"fresh", "record", "legacy", "none"}
           /\ Adoption(d, c, n) = "fresh" => ManagedPolicy(d.config[c][n]) = ""
           /\ Adoption(d, c, n) # "fresh" => ManagedPolicy(d.config[c][n]) # ""
           /\ Adoption(d, c, n) = "record" => d.state[c][n] # NoRecord
  BY DEF Adoption

LEMMA SupportedWrapper ==
    ASSUME NEW e, IsWrapper(e), Supported(e)
    PROVE  ManagedPolicy(e) # ""
  <1>1. ParseEntry(e) = ParseManagedWrapper(Tail(e.words))
    BY DEF ParseEntry, IsWrapper
  <1>2. ASSUME NEW args
        PROVE  \/ ParseManagedWrapper(args) = NotManaged
               \/ ParseManagedWrapper(args).policy # ""
    <2> DEFINE dash == FirstDash(args)
               pairs == OptionPairs(args, dash)
    <2>1. \A policy, source : \/ Managed(policy, source) = NotManaged
                              \/ Managed(policy, source).policy # ""
      BY DEF Managed
    <2>2. \A given, rest : \/ ParseOptions(pairs, given, rest) = NotManaged
                           \/ ParseOptions(pairs, given, rest).policy # ""
      BY <2>1 DEF ParseOptions
    <2> HIDE DEF pairs, dash
    <2> QED
      BY <2>2 DEF ParseManagedWrapper, ParseWords, pairs, dash
  <1>3. NotManaged.source = NoSource
    BY DEF NotManaged
  <1> QED
    BY <1>1, <1>2, <1>3 DEF Supported, ManagedPolicy

LEMMA InstalledIs ==
    ASSUME Routed, IsTable(disk.config), NEW s, DOMAIN sess[s].picked \subseteq Owners,
           \A o \in DOMAIN sess[s].picked : disk.config[o[1]] = sess[s].seen[o[1]],
           NEW entries, NEW routes, NEW created,
           NEW after, after = Installed(s, entries, routes, created)
    PROVE  /\ IsTable(after.config)
           /\ \A o \in Owners :
                /\ Entry(after, o) = IF o \in DOMAIN sess[s].picked THEN entries[o]
                                     ELSE Entry(disk, o)
                /\ Rec(after, o) = IF o \in DOMAIN sess[s].picked
                                   THEN NewRecord(disk, o[1], o[2], after.config[o[1]],
                                                  sess[s].picked[o].policy, created, routes[o])
                                   ELSE Rec(disk, o)
           /\ \A o \in DOMAIN sess[s].picked : \E q \in DOMAIN sess[s].picked :
                PathOf(q) = PathOf(o) /\ after.policy[PathOf(o)] = sess[s].picked[q].policy
  <1> DEFINE T == DOMAIN sess[s].picked
             loaded == [c \in Configs |-> IF c \in ConfigsOf(T) THEN sess[s].seen[c]
                                          ELSE disk.config[c]]
             config == [c \in Configs |-> [n \in Names |->
                          IF <<c, n>> \in T THEN entries[<<c, n>>] ELSE loaded[c][n]]]
             seen == [disk EXCEPT !.config = loaded]
             state == [c \in Configs |-> [n \in Names |->
                         IF <<c, n>> \in T
                         THEN NewRecord(seen, c, n, config[c], sess[s].picked[<<c, n>>].policy,
                                        created, routes[<<c, n>>])
                         ELSE disk.state[c][n]]]
  <1>1. IsDisk(disk)
    BY DEF Routed, Shape
  <1>2. /\ after.config = config /\ after.state = state
        /\ after.policy = [p \in Paths |->
             IF \E o \in T : PathOf(o) = p
             THEN sess[s].picked[CHOOSE o \in T : PathOf(o) = p].policy ELSE disk.policy[p]]
    BY <1>1 DEF Installed, IsDisk
  <1>3. loaded = disk.config
    <2>1. \A c \in Configs : loaded[c] = disk.config[c]
      BY DEF ConfigsOf
    <2>2. disk.config = [c \in Configs |-> [n \in Names |-> disk.config[c][n]]]
      BY DEF IsTable
    <2> QED
      BY <2>1, <2>2
  <1>4. seen = disk
    BY <1>1, <1>3 DEF IsDisk
  <1> HIDE DEF loaded, seen
  <1>5. IsTable(after.config)
    <2>1. IsTable(config)
      BY TableIs
    <2> QED
      BY <1>2, <2>1
  <1>6. ASSUME NEW o \in Owners
        PROVE  /\ Entry(after, o) = IF o \in T THEN entries[o] ELSE Entry(disk, o)
               /\ Rec(after, o) = IF o \in T
                                  THEN NewRecord(disk, o[1], o[2], after.config[o[1]],
                                                 sess[s].picked[o].policy, created, routes[o])
                                  ELSE Rec(disk, o)
    <2>1. o[1] \in Configs /\ o[2] \in Names /\ o = <<o[1], o[2]>>
      BY OwnerParts
    <2>2. config[o[1]][o[2]] = IF o \in T THEN entries[o] ELSE disk.config[o[1]][o[2]]
      BY <1>3, <2>1
    <2>3. state[o[1]][o[2]] = IF o \in T
                              THEN NewRecord(disk, o[1], o[2], config[o[1]],
                                             sess[s].picked[o].policy, created, routes[o])
                              ELSE disk.state[o[1]][o[2]]
      BY <1>4, <2>1
    <2> HIDE DEF config, state
    <2> QED
      BY <1>2, <2>2, <2>3 DEF Entry, Rec
  <1>7. ASSUME NEW o \in T
        PROVE  \E q \in T : /\ PathOf(q) = PathOf(o)
                            /\ after.policy[PathOf(o)] = sess[s].picked[q].policy
    <2> DEFINE q == CHOOSE q \in T : PathOf(q) = PathOf(o)
    <2>1. q \in T /\ PathOf(q) = PathOf(o)
      OBVIOUS
    <2>2. PathOf(o) \in Paths
      BY OwnerParts
    <2>3. after.policy[PathOf(o)] = sess[s].picked[q].policy
      BY <1>2, <2>2
    <2> QED
      BY <2>1, <2>3
  <1> QED
    BY <1>5, <1>6, <1>7

LEMMA Begun ==
    ASSUME Routed, NEW s \in Sessions, ~Writing(s), NEW files, NEW after, NEW healed,
           Begin(s, files, after, healed)
    PROVE  /\ sess'[s].before = disk /\ sess'[s].after = after /\ sess'[s].files = files
           /\ sess'[s].written = {} /\ sess'[s].picked = sess[s].picked
           /\ sess'[s].pc = "writing" /\ moved'[s] = {}
           /\ \A r \in Sessions : r # s => sess'[r] = sess[r] /\ moved'[r] = moved[r]
           /\ disk'.config = disk.config /\ disk'.state = disk.state /\ disk'.policy = disk.policy
  <1> DEFINE new == [sess[s] EXCEPT !.pc = "writing", !.files = files, !.before = disk,
                                    !.after = after, !.healed = healed]
  <1>1. Becomes(s, new) /\ moved' = [moved EXCEPT ![s] = {}]
    BY DEF Begin
  <1>2. IsSession(sess[s]) /\ sess[s].written = {} /\ IsDisk(disk)
        /\ moved = [r \in Sessions |-> moved[r]]
    BY DEF Routed, Shape
  <1>3. /\ new.before = disk /\ new.after = after /\ new.files = files /\ new.written = {}
        /\ new.picked = sess[s].picked /\ new.pc = "writing"
    BY <1>2 DEF IsSession
  <1>4. disk'.config = disk.config /\ disk'.state = disk.state /\ disk'.policy = disk.policy
    BY <1>2 DEF Begin, IsDisk
  <1>5. sess'[s] = new /\ \A r \in Sessions : r # s => sess'[r] = sess[r]
    BY <1>1, BecomesIs DEF Routed
  <1>6. moved'[s] = {} /\ \A r \in Sessions : r # s => moved'[r] = moved[r]
    BY <1>1, <1>2
  <1> HIDE DEF new
  <1> QED
    BY <1>3, <1>4, <1>5, <1>6

(* What owner o's entry is, and what setup may do with it: install a wrapper, or, *)
(* where there was no wrapper, an entry of the gateway.                           *)
Suits(w, v, d, o, entry, created) ==
    /\ Adoption(d, o[1], o[2]) \in {"legacy", "none"} => Lost(v, o)
    /\ Lost(v, o) \/ Plainly(v, Entry(d, o))
    /\ Adoption(d, o[1], o[2]) = "fresh" /\ ~Lost(v, o) =>
          Entry(d, o) \in w.hand /\ d.policy[PathOf(o)] = w.mine[PathOf(o)]
    /\ \/ IsWrapper(entry)
       \/ /\ Adoption(d, o[1], o[2]) = "fresh" /\ created
          /\ entry.type = "http" /\ entry \notin w.hand

LEMMA InstalledFine ==
    ASSUME NEW w, NEW v, v.hand = w.hand, v.mine = w.mine, w.broken \subseteq v.broken,
           NEW d, NEW o \in Owners, FineIn(w, d, o), NEW entry, NEW created \in BOOLEAN,
           Suits(w, v, d, o, entry, created), NEW installed, NEW policy, NEW route,
           NEW r, r = NewRecord(d, o[1], o[2], installed, policy, created, route)
    PROVE  /\ Fine(v, o, entry, r)
           /\ Lost(v, o) \/ r.path = PathOf(o)
  <1> DEFINE adoption == Adoption(d, o[1], o[2])
  <1>1. adoption \in {"fresh", "record", "legacy", "none"}
        /\ (adoption = "record" => Rec(d, o) # NoRecord)
    BY AdoptionIs DEF Rec
  <1>2. r = RecordAs(adoption, d, o[1], o[2], installed, policy, created, route)
    BY DEF NewRecord
  <1>3. adoption \in {"legacy", "none"} => Lost(v, o)
    BY DEF Suits
  <1>4. ~Lost(v, o) => ~Lost(w, o)
    BY DEF Lost
  <1>5. PathOf(o) # ""
    BY OwnerParts
  <1>6. CASE adoption = "none"
    <2>1. r = NoRecord
      BY <1>2, <1>6 DEF RecordAs
    <2> QED
      BY <1>3, <1>6, <2>1 DEF Fine
  <1>7. CASE adoption # "none"
    <2>1. /\ r.path = PathOf(o) /\ r.before = EarlierPolicy(d, o[1], o[2], adoption)
          /\ adoption = "fresh" => r.original = d.config[o[1]] /\ r.created = created
          /\ adoption = "record" => r.original = Rec(d, o).original
      <3> HIDE DEF adoption
      <3>1. adoption \in {"fresh", "record", "legacy"}
        BY <1>1, <1>7
      <3> QED
        BY <1>2, <3>1, RecordAsIs DEF PathOf, Rec
    <2>2. r # NoRecord
      BY <1>5, <2>1, NoRecordIs
    <2>3. CASE Lost(v, o)
      BY <2>1, <2>3 DEF Fine
    <2>4. CASE ~Lost(v, o) /\ adoption = "fresh"
      <3>1. Entry(d, o) \in w.hand /\ d.policy[PathOf(o)] = w.mine[PathOf(o)]
        BY <2>4 DEF Suits
      <3>2. r.before = v.mine[PathOf(o)]
        BY <2>1, <2>4, <3>1 DEF EarlierPolicy, PathOf
      <3>3. r.original[o[2]] \in v.hand
        BY <2>1, <2>4, <3>1 DEF Entry
      <3>4. IsWrapper(entry) \/ (r.created /\ entry.type = "http" /\ entry \notin v.hand)
        BY <2>1, <2>4 DEF Suits
      <3> QED
        BY <2>1, <2>2, <3>2, <3>3, <3>4 DEF Fine
    <2>5. CASE ~Lost(v, o) /\ adoption = "record"
      <3>1. /\ Rec(d, o).before = w.mine[PathOf(o)] /\ Rec(d, o).original[o[2]] \in w.hand
        BY <1>1, <1>4, <2>5 DEF FineIn, Fine
      <3>2. r.before = v.mine[PathOf(o)]
        BY <2>1, <2>5, <3>1 DEF EarlierPolicy, Rec
      <3>3. r.original[o[2]] \in v.hand
        BY <2>1, <2>5, <3>1
      <3>4. IsWrapper(entry)
        BY <2>5 DEF Suits
      <3> QED
        BY <2>1, <2>2, <3>2, <3>3, <3>4 DEF Fine
    <2> QED
      BY <1>1, <1>3, <1>7, <2>1, <2>3, <2>4, <2>5
  <1> QED
    BY <1>6, <1>7

LEMMA SetupWorks ==
    ASSUME Routed, IsTable(disk.config), NEW s \in Sessions, ~Writing(s),
           NEW command, command # "restore",
           DOMAIN sess[s].picked \subseteq Owners,
           \A o \in DOMAIN sess[s].picked : disk.config[o[1]] = sess[s].seen[o[1]],
           \A o \in DOMAIN sess[s].picked : sess[s].picked[o].policy # NoFile,
           NEW w, NEW v, v.hand = w.hand, v.mine = w.mine, w.broken \subseteq v.broken,
           AtRest(w, disk),
           NEW entries, NEW routes, NEW created \in BOOLEAN, NEW healed,
           BeginSetup(s, Installed(s, entries, routes, created), healed),
           \A o \in DOMAIN sess[s].picked : Suits(w, v, disk, o, entries[o], created)
    PROVE  Works(v, disk', sess'[s], moved'[s], command)
  <1> DEFINE T == DOMAIN sess[s].picked
             after == Installed(s, entries, routes, created)
             files == SavedFiles(s) \union ProfileFiles(s) \union PolicyFiles(s)
                        \union RouteFiles(after) \union StateFiles(after) \union ConfigFiles(s)
             k == sess'[s]
  <1>1. /\ k.before = disk /\ k.after = after /\ k.files = files /\ k.written = {}
        /\ k.picked = sess[s].picked /\ moved'[s] = {}
        /\ disk'.config = disk.config /\ disk'.state = disk.state /\ disk'.policy = disk.policy
    <2>1. Begin(s, files, after, healed)
      BY Zenon DEF BeginSetup
    <2> HIDE DEF files, after
    <2> QED
      BY <2>1, Begun
  <1>2. /\ IsTable(after.config)
        /\ \A o \in Owners :
             /\ Entry(after, o) = IF o \in T THEN entries[o] ELSE Entry(disk, o)
             /\ Rec(after, o) = IF o \in T
                                THEN NewRecord(disk, o[1], o[2], after.config[o[1]],
                                               sess[s].picked[o].policy, created, routes[o])
                                ELSE Rec(disk, o)
        /\ \A o \in T : \E q \in T :
             PathOf(q) = PathOf(o) /\ after.policy[PathOf(o)] = sess[s].picked[q].policy
    <2>1. after = Installed(s, entries, routes, created)
      OBVIOUS
    <2> HIDE DEF after
    <2> QED
      BY <2>1, InstalledIs
  <1> HIDE DEF after
  <1>3. \A c \in Configs : StateFile(c) \notin files => after.state[c] = disk.state[c]
    BY DEF StateFiles
  <1>4. \A o \in T : ConfigFile(o[1]) \in files
    BY DEF ConfigFiles, ConfigsOf
  <1>5. \A o \in T : PathOf(o) \in Rewrites(k)
    BY <1>1, OwnerParts DEF Rewrites, PolicyFiles
  <1>6. ASSUME NEW p \in Rewrites(k)
        PROVE  p \in Paths /\ \E o \in T : PathOf(o) = p
    <2>1. PolicyFile(p) \in files /\ p \in Paths
      BY <1>1 DEF Rewrites
    <2>2. PolicyFile(p) \in PolicyFiles(s)
      <3>1. PolicyFile(p) \notin SavedFiles(s) \union ProfileFiles(s)
        BY DEF SavedFiles, ProfileFiles, SavedFile, ProfileFile, PolicyFile, File
      <3>2. PolicyFile(p) \notin RouteFiles(after)
        BY DEF RouteFiles, RouteFile, PolicyFile, File
      <3>3. PolicyFile(p) \notin StateFiles(after)
        BY FilesDiffer DEF StateFiles
      <3>4. PolicyFile(p) \notin ConfigFiles(s)
        BY FilesDiffer DEF ConfigFiles
      <3> QED
        BY <2>1, <3>1, <3>2, <3>3, <3>4
    <2>3. PICK o \in T : PolicyFile(p) = PolicyFile(PathOf(o))
      BY <2>2 DEF PolicyFiles
    <2> QED
      BY <2>1, <2>3, FilesDiffer
  <1> HIDE DEF files
  <1>7. ASSUME NEW o \in T
        PROVE  /\ FineIn(v, after, o)
               /\ Lost(v, o) \/ Rec(after, o).path = PathOf(o)
               /\ Lost(v, o) \/ Plainly(v, Entry(disk, o))
    <2>1. FineIn(w, disk, o) /\ Suits(w, v, disk, o, entries[o], created) /\ o \in Owners
      BY DEF AtRest
    <2>2. /\ Entry(after, o) = entries[o]
          /\ Rec(after, o) = NewRecord(disk, o[1], o[2], after.config[o[1]],
                                       sess[s].picked[o].policy, created, routes[o])
      BY <1>2, <2>1
    <2>3. /\ Fine(v, o, entries[o], Rec(after, o))
          /\ Lost(v, o) \/ Rec(after, o).path = PathOf(o)
      BY <2>1, <2>2, InstalledFine
    <2> QED
      BY <2>1, <2>2, <2>3 DEF FineIn, Suits
  <1>8. ASSUME NEW p \in Rewrites(k)
        PROVE  PolicyFine(v, References(after, p), p, after.policy[p])
    <2>1. PICK o \in T : PathOf(o) = p
      BY <1>6
    <2>2. after.policy[p] # NoFile
      BY <1>2, <2>1
    <2>3. p \notin v.broken => o \in References(after, p)
      BY <1>7, <2>1, ReferencesAre DEF Lost
    <2> QED
      BY <2>2, <2>3 DEF PolicyFine
  <1> HIDE DEF k
  <1>9. \A o \in Owners : IF o \in DOMAIN k.picked
                          THEN FineIn(v, k.after, o) /\ ConfigFile(o[1]) \in k.files
                          ELSE Entry(k.after, o) = Entry(disk, o) /\ Rec(k.after, o) = Rec(disk, o)
    BY <1>1, <1>2, <1>4, <1>7
  <1>10. \A o \in Owners : o \in DOMAIN k.picked =>
            PathOf(o) \in Rewrites(k) /\ (Lost(v, o) \/ Plainly(v, Entry(disk, o)))
    BY <1>1, <1>5, <1>7
  <1>11. /\ IsTable(k.after.config)
         /\ \A c \in Configs : StateFile(c) \notin k.files => k.after.state[c] = disk.state[c]
         /\ \A p \in Rewrites(k) : PolicyFine(v, References(k.after, p), p, k.after.policy[p])
    BY <1>1, <1>2, <1>3, <1>8
  <1>12. Works(v, disk', k, {}, command)
    <2>1. Plans(v, disk, k, command)
      <3>1. k.before = disk /\ k.written = {}
        BY <1>1
      <3> QED
        BY <1>9, <1>10, <1>11, <3>1 DEF Plans
    <2>2. disk'.config = disk.config /\ disk'.state = disk.state /\ disk'.policy = disk.policy
      BY <1>1
    <2> QED
      BY <2>1, <2>2, PlanWorks, Zenon
  <1> QED
    BY <1>1, <1>12 DEF k

LEMMA WrapperIsOne ==
    ASSUME NEW policy \in STRING, Plain(policy), NEW src, WritableSource(src), NEW entry
    PROVE  IsWrapper(WrapperEntry(policy, src, entry))
  <1> DEFINE pairs == BuildOptions(policy, src)
             words == Words(pairs)
             rest == Rest(src)
             S == Word \union {Command}
  <1>1. policy \in Word
    BY DEF Word
  <1>2. src.kind \in {"stdio", "http", "sse", "websocket"}
    BY DEF WritableSource, Sources
  <1>3. pairs \in Pairs
    BY <1>1, LocalGiven, RemoteGiven DEF Gives, Pairs
  <1>4. words \in Seq(Word)
    BY <1>3, WordsAre
  <1>5. rest \in Seq(Word)
    BY RestIs
  <1>6. BuildWrapperArgs(policy, src) = words \o rest
    BY DEF BuildWrapperArgs, Rest
  <1> HIDE DEF pairs, words, rest
  <1> DEFINE args == words \o rest
  <1>7. args \in Seq(Word)
    BY <1>4, <1>5, Joined
  <1> HIDE DEF args
  <1>8. args \in Seq(S)
    <2>1. Len(args) \in Nat /\ args = [i \in 1..Len(args) |-> args[i]]
          /\ \A i \in 1..Len(args) : args[i] \in S
      BY <1>7
    <2> QED
      BY <2>1, FunctionSeq
  <1> DEFINE first == <<Command>>
  <1>9. first \in Seq(S) /\ Len(first) = 1 /\ first[1] = Command
    BY Singleton
  <1> HIDE DEF first, S
  <1>10. (first \o args)[1] = Command
    <2>1. \A i \in 1..Len(first) : (first \o args)[i] = first[i]
      BY <1>8, <1>9, Joined
    <2> QED
      BY <1>9, <2>1
  <1> DEFINE line == first \o args
  <1>11. WrapperEntry(policy, src, entry) =
            [type |-> "stdio", words |-> line, env |-> src.env, bearer |-> "",
             extra |-> entry.extra]
    <2>1. line = <<Command>> \o BuildWrapperArgs(policy, src)
      BY <1>6 DEF first, args
    <2> HIDE DEF line
    <2> QED
      BY <2>1 DEF WrapperEntry
  <1>12. line[1] = Command
    BY <1>10
  <1> HIDE DEF line
  <1> DEFINE new == WrapperEntry(policy, src, entry)
  <1>13. new = [type |-> "stdio", words |-> line, env |-> src.env, bearer |-> "",
                extra |-> entry.extra]
    BY <1>11
  <1> HIDE DEF new
  <1>14. IsWrapper(new)
    BY <1>12, <1>13 DEF IsWrapper
  <1> QED
    BY <1>14 DEF new

LEMMA NoneByHand ==
    ASSUME Routed
    PROVE  /\ NoWrapperByHand(World) /\ NoEntry \in World.hand
           /\ \A port \in Ports, o \in Owners : HttpEntry(port, o) \notin World.hand
           /\ NoFile \notin scene.choices
  <1>1. scene \in Scenes
    BY DEF Routed, Shape
  <1>2. World.hand = Hands(scene)
    BY WorldIs
  <1>3. NoEntry \in Hands(scene)
    BY DEF Hands
  <1>4. \A entry \in Hands(scene) :
           ~IsWrapper(entry) /\ \A port \in Ports, o \in Owners : entry # HttpEntry(port, o)
    BY <1>1, SceneAssumption
  <1>5. NoFile \notin scene.choices
    BY <1>1, SceneAssumption
  <1> QED
    BY <1>2, <1>3, <1>4, <1>5, Zenon DEF NoWrapperByHand

LEMMA NoEntryIsPlain ==
    ManagedPolicy(NoEntry) = "" /\ NoEntry.type = "none" /\ ~IsWrapper(NoEntry)
  BY DEF ManagedPolicy, ParseEntry, NoEntry, IsWrapper

(* A server that setup does not know: its entry and its policy are the user's. *)
LEMMA FreshIsOwn ==
    ASSUME Routed, NEW w, w.hand = World.hand, AtRest(w, disk), NEW o \in Owners,
           Lost(w, o) \/ Entry(disk, o) \in w.hand,
           disk.policy[PathOf(o)] # NoFile => TakeoverAllowed(disk, PathOf(o), {o})
    PROVE  Lost(w, o) \/ disk.policy[PathOf(o)] = w.mine[PathOf(o)]
  <1> SUFFICES ASSUME ~Lost(w, o)
               PROVE  disk.policy[PathOf(o)] = w.mine[PathOf(o)]
    OBVIOUS
  <1>1. PathOf(o) \in Paths /\ PathOf(o) # ""
    BY OwnerParts
  <1>2. PolicyFine(w, References(disk, PathOf(o)), PathOf(o), disk.policy[PathOf(o)])
    BY <1>1 DEF AtRest
  <1>3. FineIn(w, disk, o) /\ ~IsWrapper(Entry(disk, o))
    BY NoneByHand DEF AtRest, NoWrapperByHand
  <1>4. Rec(disk, o) = NoRecord
    BY <1>3 DEF FineIn, Fine
  <1>5. o \notin References(disk, PathOf(o))
    BY <1>1, <1>4, NoRecordIs, ReferencesAre
  <1>6. References(disk, PathOf(o)) = {}
    <2>1. CASE disk.policy[PathOf(o)] # NoFile
      BY <1>5, <2>1 DEF TakeoverAllowed
    <2>2. CASE disk.policy[PathOf(o)] = NoFile
      BY <1>2, <2>2 DEF PolicyFine, Lost
    <2> QED
      BY <2>1, <2>2
  <1> QED
    BY <1>2, <1>6 DEF PolicyFine, Lost

LEMMA WorldNext ==
    ASSUME UNCHANGED scene
    PROVE  World'.hand = World.hand /\ World'.broken = broken' /\ World'.mine = mine'
  BY DEF World

LEMMA AddPlanWorks ==
    ASSUME Routed, Kept, NEW s \in Sessions, AddPlan(s)
    PROVE  Works(World', disk', sess'[s], moved'[s], "add")
  <1> DEFINE T == DOMAIN sess[s].picked
             entries == [o \in T |-> WrapperEntry(PathOf(o), sess[s].picked[o].source,
                                                  sess[s].seen[o[1]][o[2]])]
             routes == [o \in T |-> NoRoute]
             w == World
             v == World'
  <1>1. /\ Runs(s, "add", "chosen") /\ LockFree /\ AddReady(s) /\ UNCHANGED <<scene, mine>>
        /\ BeginSetup(s, Installed(s, entries, routes, FALSE), Refound(T))
        /\ broken' = broken \cup {PathOf(o) : o \in Owned({"legacy", "none"}, T)}
    BY Zenon DEF AddPlan
  <1>2. /\ v.hand = w.hand /\ v.mine = w.mine /\ v.broken = broken' /\ w.broken = broken
    BY <1>1, WorldNext, WorldIs
  <1>3. /\ T \subseteq Owners /\ AtRest(w, disk) /\ IsTable(disk.config)
        /\ Chooses(w, disk, sess[s], moved[s], scene.command[s])
    BY <1>1 DEF Kept, Tables
  <1>4. scene.command[s] = "add" /\ sess[s].pc = "chosen" /\ ~Writing(s)
    BY <1>1 DEF Runs, Writing
  <1> HIDE DEF v, w, entries, routes
  <1>5. ASSUME NEW o \in T
        PROVE  /\ disk.config[o[1]] = sess[s].seen[o[1]] /\ sess[s].picked[o].policy # NoFile
               /\ Supported(Entry(disk, o)) /\ (Lost(w, o) \/ Plainly(w, Entry(disk, o)))
               /\ WritableSource(sess[s].picked[o].source)
               /\ disk.policy[PathOf(o)] # NoFile
                    /\ ManagedPolicy(disk.config[o[1]][o[2]]) # PathOf(o)
                      => TakeoverAllowed(disk, PathOf(o), {o})
    BY <1>1, <1>3, <1>4 DEF AddReady, PlanIsCurrent, Chooses, Entry
  <1>6. ASSUME NEW o \in T
        PROVE  Suits(w, v, disk, o, entries[o], FALSE)
    <2>1. o \in Owners /\ PathOf(o) # "" /\ o[1] \in Configs /\ o[2] \in Names
      BY <1>3, OwnerParts
    <2>2. Adoption(disk, o[1], o[2]) \in {"legacy", "none"} => Lost(v, o)
      BY <1>1, <1>2 DEF Owned, Lost
    <2>3. Lost(w, o) => Lost(v, o)
      BY <1>1, <1>2 DEF Lost
    <2>4. Lost(v, o) \/ Plainly(v, Entry(disk, o))
      BY <1>2, <1>5, <2>3 DEF Plainly
    <2>5. ASSUME Adoption(disk, o[1], o[2]) = "fresh", ~Lost(v, o)
          PROVE  Entry(disk, o) \in w.hand /\ disk.policy[PathOf(o)] = w.mine[PathOf(o)]
      <3>1. ManagedPolicy(Entry(disk, o)) = ""
        BY <2>5, AdoptionIs DEF Entry
      <3>2. Entry(disk, o) \in w.hand
        BY <1>5, <2>3, <2>5, <3>1, SupportedWrapper DEF Plainly
      <3>3. disk.policy[PathOf(o)] # NoFile => TakeoverAllowed(disk, PathOf(o), {o})
        BY <1>5, <2>1, <3>1 DEF Entry
      <3>4. Lost(w, o) \/ disk.policy[PathOf(o)] = w.mine[PathOf(o)]
        BY <1>3, <2>1, <3>2, <3>3, FreshIsOwn DEF w
      <3> QED
        BY <2>3, <2>5, <3>2, <3>4
    <2>6. IsWrapper(entries[o])
      BY <1>5, <2>1, WrapperIsOne, SceneAssumption DEF entries
    <2> QED
      BY <2>2, <2>4, <2>5, <2>6 DEF Suits
  <1>7. w.broken \subseteq v.broken
    BY <1>1, <1>2
  <1>8. Works(v, disk', sess'[s], moved'[s], "add")
    BY <1>1, <1>2, <1>3, <1>4, <1>5, <1>6, <1>7, SetupWorks
  <1> QED
    BY <1>8 DEF v

LEMMA ManualPlanWorks ==
    ASSUME Routed, Kept, NEW s \in Sessions, ManualPlan(s)
    PROVE  Works(World', disk', sess'[s], moved'[s], "manual")
  <1> DEFINE T == DOMAIN sess[s].picked
             entries == [o \in T |-> IF sess[s].picked[o].port = ""
                                     THEN WrapperEntry(PathOf(o), sess[s].picked[o].source, NoEntry)
                                     ELSE HttpEntry(sess[s].picked[o].port, o)]
             w == World
             v == World'
  <1>1. /\ Runs(s, "manual", "chosen") /\ LockFree /\ ManualReady(s)
        /\ BeginSetup(s, Installed(s, entries, ManualRoutes(s), TRUE), {})
        /\ UNCHANGED <<scene, mine, broken>>
    BY Zenon DEF ManualPlan
  <1>2. /\ v.hand = w.hand /\ v.mine = w.mine /\ v.broken = w.broken
    BY <1>1, WorldNext, WorldIs
  <1>3. /\ T \subseteq Owners /\ AtRest(w, disk) /\ IsTable(disk.config)
        /\ Chooses(w, disk, sess[s], moved[s], scene.command[s])
    BY <1>1 DEF Kept, Tables
  <1>4. scene.command[s] = "manual" /\ sess[s].pc = "chosen" /\ ~Writing(s) /\ PortStands(s)
    BY <1>1 DEF Runs, Writing, Routed, Chosen
  <1> HIDE DEF v, w, entries
  <1>5. ASSUME NEW o \in T
        PROVE  /\ disk.config[o[1]] = sess[s].seen[o[1]] /\ sess[s].picked[o].policy # NoFile
               /\ Entry(disk, o) = NoEntry
               /\ WritableSource(sess[s].picked[o].source)
               /\ TakeoverAllowed(disk, PathOf(o), {})
    BY <1>1, <1>3, <1>4 DEF ManualReady, PlanIsCurrent, Chooses, Entry
  <1>6. ASSUME NEW o \in T
        PROVE  Suits(w, v, disk, o, entries[o], TRUE)
    <2>1. o \in Owners /\ PathOf(o) \in STRING /\ Plain(PathOf(o))
      BY <1>3, SceneAssumption
    <2>2. Entry(disk, o) \in w.hand
      BY <1>5, NoneByHand DEF w
    <2>3. Adoption(disk, o[1], o[2]) = "fresh"
      <3>1. ManagedPolicy(disk.config[o[1]][o[2]]) = ""
        BY <1>5, NoEntryIsPlain DEF Entry
      <3> QED
        BY <3>1, AdoptionIs
    <2>4. Lost(w, o) \/ disk.policy[PathOf(o)] = w.mine[PathOf(o)]
      <3>1. TakeoverAllowed(disk, PathOf(o), {o})
        BY <1>5 DEF TakeoverAllowed
      <3> QED
        BY <1>3, <2>1, <2>2, <3>1, FreshIsOwn DEF w
    <2>5. CASE sess[s].picked[o].port = ""
      <3>1. IsWrapper(entries[o])
        BY <1>5, <2>1, <2>5, WrapperIsOne DEF entries
      <3> QED
        BY <1>2, <2>2, <2>3, <2>4, <3>1 DEF Suits, Lost, Plainly
    <2>6. CASE sess[s].picked[o].port # ""
      <3> DEFINE port == sess[s].picked[o].port
      <3>1. port \in Ports
        <4>1. port \in PortsPicked(s)
          BY <2>6 DEF PortsPicked
        <4> QED
          BY <1>4, <4>1 DEF PortStands
      <3>2. entries[o] = HttpEntry(port, o)
        BY <2>6 DEF entries
      <3>3. HttpEntry(port, o) \notin w.hand
        BY <2>1, <3>1, NoneByHand DEF w
      <3>4. HttpEntry(port, o).type = "http"
        BY DEF HttpEntry, NoEntry
      <3> QED
        BY <1>2, <2>2, <2>3, <2>4, <3>2, <3>3, <3>4 DEF Suits, Lost, Plainly
    <2> QED
      BY <2>5, <2>6
  <1>7. w.broken \subseteq v.broken
    BY <1>2
  <1>8. Works(v, disk', sess'[s], moved'[s], "manual")
    BY <1>1, <1>2, <1>3, <1>4, <1>5, <1>6, <1>7, SetupWorks
  <1> QED
    BY <1>8 DEF v

(* What a restore writes. *)

LEMMA NoOriginals ==
    ASSUME NEW n \in Names
    PROVE  NoRecord.original[n] = NoEntry
  <1> DEFINE blank == [m \in Names |-> NoEntry]
  <1>1. blank[n] = NoEntry
    OBVIOUS
  <1> HIDE DEF blank
  <1>2. NoRecord = [original |-> blank, installed |-> blank, created |-> FALSE, path |-> "",
                    before |-> NoFile, policy |-> NoFile, route |-> NoRoute]
    BY DEF NoRecord, blank
  <1> QED
    BY <1>1, <1>2

Tracked(picked) == {o \in DOMAIN picked : picked[o].kind # "legacy"}

LEMMA AfterRestoreIs ==
    ASSUME NEW d, IsDisk(d), NEW picked, DOMAIN picked \subseteq Owners,
           NEW x, x = AfterRestore(d, picked)
    PROVE  /\ IsTable(x.config)
           /\ \A o \in Owners :
                /\ Entry(x, o) = IF o \in DOMAIN picked THEN picked[o].by.original[o[2]]
                                 ELSE Entry(d, o)
                /\ Rec(x, o) = IF o \in Tracked(picked) THEN NoRecord ELSE Rec(d, o)
           /\ \A p \in Paths :
                x.policy[p] = IF PolicyIsRestored(d, Tracked(picked), p)
                              THEN BeforePolicy(d, Tracked(picked), p) ELSE d.policy[p]
  <1> DEFINE T == Tracked(picked)
             By(c) == [n \in {m \in Names : <<c, m>> \in DOMAIN picked} |-> picked[<<c, n>>].by]
             config == [c \in Configs |-> RestoredConfig(d.config[c], By(c))]
             state == [c \in Configs |-> [n \in Names |->
                         IF <<c, n>> \in T THEN NoRecord ELSE d.state[c][n]]]
             policy == [p \in Paths |-> IF PolicyIsRestored(d, T, p) THEN BeforePolicy(d, T, p)
                                        ELSE d.policy[p]]
  <1>1. x = [d EXCEPT !.config = config, !.route = [o \in Owners |->
                IF o \in DOMAIN picked /\ picked[o].kind = "route" THEN NoRoute ELSE d.route[o]],
                      !.policy = policy, !.state = state]
    BY Zenon DEF AfterRestore, Tracked
  <1> HIDE DEF config, state, policy
  <1>2. x.config = config /\ x.state = state /\ x.policy = policy
    BY <1>1 DEF IsDisk
  <1>3. ASSUME NEW c \in Configs
        PROVE  config[c] = [n \in Names |-> IF <<c, n>> \in DOMAIN picked
                                            THEN picked[<<c, n>>].by.original[n]
                                            ELSE d.config[c][n]]
    <2>1. config[c] = RestoredConfig(d.config[c], By(c))
      BY DEF config
    <2>2. DOMAIN By(c) = {m \in Names : <<c, m>> \in DOMAIN picked}
          /\ \A n \in DOMAIN By(c) : By(c)[n] = picked[<<c, n>>].by
      OBVIOUS
    <2> HIDE DEF By
    <2> QED
      BY <2>1, <2>2 DEF RestoredConfig
  <1>4. IsTable(x.config)
    <2>1. config = [c \in Configs |-> config[c]]
      BY DEF config
    <2>2. \A c \in Configs : config[c] = [n \in Names |-> config[c][n]]
      BY <1>3
    <2> QED
      BY <1>2, <2>1, <2>2, TableIs
  <1>5. ASSUME NEW o \in Owners
        PROVE  /\ Entry(x, o) = IF o \in DOMAIN picked THEN picked[o].by.original[o[2]]
                                ELSE Entry(d, o)
               /\ Rec(x, o) = IF o \in T THEN NoRecord ELSE Rec(d, o)
    <2>1. o[1] \in Configs /\ o[2] \in Names /\ o = <<o[1], o[2]>>
      BY OwnerParts
    <2>2. config[o[1]][o[2]] = IF o \in DOMAIN picked THEN picked[o].by.original[o[2]]
                               ELSE d.config[o[1]][o[2]]
      <3>1. ASSUME NEW c \in Configs, NEW n \in Names
            PROVE  config[c][n] = IF <<c, n>> \in DOMAIN picked
                                  THEN picked[<<c, n>>].by.original[n] ELSE d.config[c][n]
        <4> DEFINE new(m) == IF <<c, m>> \in DOMAIN picked
                             THEN picked[<<c, m>>].by.original[m] ELSE d.config[c][m]
        <4>1. config[c] = [m \in Names |-> new(m)]
          BY <1>3
        <4> HIDE DEF new
        <4>2. config[c][n] = new(n)
          BY <4>1
        <4> QED
          BY <4>2 DEF new
      <3>2. config[o[1]][o[2]] = IF <<o[1], o[2]>> \in DOMAIN picked
                                 THEN picked[<<o[1], o[2]>>].by.original[o[2]]
                                 ELSE d.config[o[1]][o[2]]
        <4> HIDE DEF config
        <4> QED
          BY <2>1, <3>1
      <3> QED
        BY <2>1, <3>2
    <2>3. state[o[1]][o[2]] = IF o \in T THEN NoRecord ELSE d.state[o[1]][o[2]]
      BY <2>1 DEF state
    <2> QED
      BY <1>2, <2>2, <2>3 DEF Entry, Rec
  <1>6. \A p \in Paths : x.policy[p] = IF PolicyIsRestored(d, T, p) THEN BeforePolicy(d, T, p)
                                       ELSE d.policy[p]
    BY <1>2 DEF policy
  <1> QED
    BY <1>4, <1>5, <1>6

(* The policy that is put back is one that a selected record kept. *)
LEMMA RestoredPolicy ==
    ASSUME NEW w, NEW d, AtRest(w, d), NEW T \in SUBSET Owners, NEW p \in Paths,
           PolicyIsRestored(d, T, p)
    PROVE  /\ References(d, p) \subseteq T
           /\ p \in w.broken \/ BeforePolicy(d, T, p) = w.mine[p]
  <1> DEFINE records == {d.state[o[1]][o[2]] : o \in T}
             kept == CHOOSE r \in records : r.path = p
  <1>1. References(d, p) \subseteq T /\ \E o \in T : Rec(d, o).path = p
    BY DEF PolicyIsRestored, Rec
  <1>2. kept \in records /\ kept.path = p
    <2>1. \E r \in records : r.path = p
      BY <1>1 DEF Rec
    <2> HIDE DEF records
    <2> QED
      BY <2>1
  <1>3. PICK o \in T : kept = Rec(d, o)
    BY <1>2 DEF Rec
  <1>4. FineIn(w, d, o) /\ o \in Owners
    BY DEF AtRest
  <1>5. BeforePolicy(d, T, p) = kept.before
    BY DEF BeforePolicy
  <1> HIDE DEF kept, records
  <1>6. kept # NoRecord
    BY <1>2, NoRecordIs, NoPathIsEmpty
  <1>7. PathOf(o) = p
    BY <1>2, <1>3, <1>4, <1>6 DEF FineIn, Fine
  <1>8. p \in w.broken \/ kept.before = w.mine[p]
    BY <1>3, <1>4, <1>6, <1>7 DEF FineIn, Fine, Lost
  <1> QED
    BY <1>1, <1>5, <1>8

LEMMA RestorePlanWorks ==
    ASSUME Routed, Kept, NEW s \in Sessions, RestorePlan(s)
    PROVE  Works(World', disk', sess'[s], moved'[s], "restore")
  <1> DEFINE picked == sess[s].picked
             T == Tracked(picked)
             after == AfterRestore(disk, picked)
             policies == {PolicyFile(p) : p \in {q \in Paths : PolicyIsRestored(disk, T, q)}}
             files == RouteFiles(after) \union ConfigFiles(s) \union policies
                        \union StateFiles(after)
             healed == {o \in tampered \cap DOMAIN picked : after.config[o[1]][o[2]] = own[o]}
             w == World
             v == World'
             k == sess'[s]
  <1>1. /\ Runs(s, "restore", "chosen") /\ LockFree /\ RestoreReady(s)
        /\ Begin(s, files, after, healed)
        /\ broken' = broken \union {PathOf(o) : o \in DOMAIN picked \ T}
        /\ UNCHANGED <<scene, mine>>
    BY Zenon DEF RestorePlan, BeginRestore, Tracked
  <1>2. /\ v.hand = w.hand /\ v.mine = w.mine /\ v.broken = broken' /\ w.broken = broken
        /\ w.broken \subseteq v.broken
    BY <1>1, WorldNext, WorldIs
  <1>3. /\ DOMAIN picked \subseteq Owners /\ AtRest(w, disk) /\ IsTable(disk.config)
        /\ Chooses(w, disk, sess[s], moved[s], scene.command[s])
        /\ IsDisk(disk) /\ NoEntry \in w.hand
    BY <1>1, NoneByHand DEF Kept, Tables, Routed, Shape
  <1>4. scene.command[s] = "restore" /\ sess[s].pc = "chosen" /\ ~Writing(s)
    BY <1>1 DEF Runs, Writing
  <1>5. /\ k.before = disk /\ k.after = after /\ k.files = files /\ k.written = {}
        /\ k.picked = picked /\ moved'[s] = {}
        /\ disk'.config = disk.config /\ disk'.state = disk.state /\ disk'.policy = disk.policy
    <2> HIDE DEF files, after, healed
    <2> QED
      BY <1>1, <1>4, Begun
  <1>6. /\ IsTable(after.config)
        /\ \A o \in Owners :
             /\ Entry(after, o) = IF o \in DOMAIN picked THEN picked[o].by.original[o[2]]
                                  ELSE Entry(disk, o)
             /\ Rec(after, o) = IF o \in T THEN NoRecord ELSE Rec(disk, o)
        /\ \A p \in Paths : after.policy[p] = IF PolicyIsRestored(disk, T, p)
                                                THEN BeforePolicy(disk, T, p) ELSE disk.policy[p]
    <2>1. after = AfterRestore(disk, picked)
      OBVIOUS
    <2> HIDE DEF after
    <2> QED
      BY <1>3, <2>1, AfterRestoreIs
  <1> HIDE DEF after
  <1>7. \A c \in Configs : StateFile(c) \notin files => after.state[c] = disk.state[c]
    BY DEF StateFiles
  <1>8. \A o \in DOMAIN picked : ConfigFile(o[1]) \in files
    BY DEF ConfigFiles, ConfigsOf
  <1>9. ASSUME NEW p \in Rewrites(k)
        PROVE  p \in Paths /\ PolicyIsRestored(disk, T, p)
    <2>1. PolicyFile(p) \in files /\ p \in Paths
      BY <1>5 DEF Rewrites
    <2>2. PolicyFile(p) \in policies
      <3>1. PolicyFile(p) \notin RouteFiles(after)
        BY DEF RouteFiles, RouteFile, PolicyFile, File
      <3>2. PolicyFile(p) \notin StateFiles(after)
        BY DEF StateFiles, StateFile, PolicyFile, File
      <3>3. PolicyFile(p) \notin ConfigFiles(s)
        BY DEF ConfigFiles, ConfigFile, PolicyFile, File
      <3> QED
        BY <2>1, <3>1, <3>2, <3>3
    <2>3. PICK q \in Paths : PolicyIsRestored(disk, T, q) /\ PolicyFile(p) = PolicyFile(q)
      BY <2>2
    <2> QED
      BY <2>1, <2>3, FilesDiffer
  <1> HIDE DEF files, policies
  <1>10. ASSUME NEW o \in DOMAIN picked
         PROVE  /\ FineIn(v, after, o)
                /\ Lost(v, o) \/ Plainly(v, Entry(after, o))
    <2>1. o \in Owners /\ FineIn(w, disk, o) /\ o[2] \in Names
      BY <1>3, OwnerParts DEF AtRest
    <2>2. CASE o \notin T
      <3>1. Lost(v, o)
        BY <1>1, <1>2, <2>2 DEF Lost
      <3>2. Rec(after, o) = Rec(disk, o)
        BY <1>6, <2>1, <2>2
      <3> QED
        BY <2>1, <3>1, <3>2 DEF FineIn, Fine
    <2>3. CASE o \in T
      <3>1. picked[o].kind # "legacy" /\ StateFile(o[1]) \notin moved[s]
        BY <1>1, <2>3 DEF RestoreReady, Tracked
      <3>2. picked[o].by = FromRecord(Rec(disk, o))
        BY <1>3, <1>4, <3>1 DEF Chooses
      <3>3. Entry(after, o) = Rec(disk, o).original[o[2]]
        BY <1>6, <2>1, <3>2 DEF FromRecord
      <3>4. Lost(w, o) \/ Entry(after, o) \in w.hand
        BY <1>3, <2>1, <3>3, NoOriginals DEF FineIn, Fine
      <3>5. Rec(after, o) = NoRecord
        BY <1>6, <2>1, <2>3
      <3> QED
        BY <1>2, <3>4, <3>5 DEF FineIn, Fine, Lost, Plainly
    <2> QED
      BY <2>2, <2>3
  <1>11. ASSUME NEW p \in Paths
         PROVE  References(after, p) \subseteq References(disk, p) \ T
    <2>1. ASSUME NEW o \in Owners, Rec(after, o).path = p
          PROVE  o \notin T /\ Rec(disk, o).path = p
      BY <1>6, <2>1, NoRecordIs, NoPathIsEmpty
    <2> QED
      BY <2>1, ReferencesAre
  <1>12. ASSUME NEW p \in Rewrites(k)
         PROVE  /\ PolicyFine(v, References(after, p), p, after.policy[p])
                /\ p \in v.broken \/ after.policy[p] = v.mine[p]
    <2>1. p \in Paths /\ PolicyIsRestored(disk, T, p)
      BY <1>9
    <2>2. T \in SUBSET Owners
      BY <1>3 DEF Tracked
    <2>3. /\ References(disk, p) \subseteq T
          /\ p \in w.broken \/ BeforePolicy(disk, T, p) = w.mine[p]
      BY <1>3, <2>1, <2>2, RestoredPolicy
    <2>4. after.policy[p] = BeforePolicy(disk, T, p)
      BY <1>6, <2>1
    <2>5. References(after, p) = {}
      BY <1>11, <2>1, <2>3
    <2> QED
      BY <1>2, <2>3, <2>4, <2>5 DEF PolicyFine
  <1> HIDE DEF k, v, w, T
  <1>13. Plans(v, disk, k, "restore")
    <2>1. /\ k.before = disk /\ k.written = {} /\ IsTable(disk.config) /\ IsTable(k.after.config)
          /\ \A c \in Configs : StateFile(c) \notin k.files => k.after.state[c] = disk.state[c]
      BY <1>3, <1>5, <1>6, <1>7
    <2>2. \A o \in Owners :
             IF o \in DOMAIN k.picked
             THEN FineIn(v, k.after, o) /\ ConfigFile(o[1]) \in k.files
             ELSE Entry(k.after, o) = Entry(disk, o) /\ Rec(k.after, o) = Rec(disk, o)
      BY <1>5, <1>6, <1>8, <1>10 DEF T, Tracked
    <2>3. \A p \in Rewrites(k) : PolicyFine(v, References(k.after, p), p, k.after.policy[p])
      BY <1>5, <1>12
    <2>4. /\ \A o \in Owners : o \in DOMAIN k.picked =>
                Lost(v, o) \/ Plainly(v, Entry(k.after, o))
          /\ \A p \in Rewrites(k) : p \in v.broken \/ k.after.policy[p] = v.mine[p]
          /\ \A p \in Paths \ Rewrites(k) : References(k.after, p) \subseteq References(disk, p)
      BY <1>5, <1>10, <1>11, <1>12
    <2> QED
      BY <2>1, <2>2, <2>3, <2>4 DEF Plans
  <1>14. Works(v, disk', k, {}, "restore")
    <2>1. disk'.config = disk.config /\ disk'.state = disk.state /\ disk'.policy = disk.policy
      BY <1>5
    <2> QED
      BY <1>2, <1>3, <1>13, <2>1, PlanWorks
  <1> QED
    BY <1>5, <1>14 DEF k, v

-----------------------------------------------------------------------------
(* A session looks at the disk and lets the user choose.                   *)

LEMMA ChoosesStays ==
    ASSUME NEW w, NEW d, NEW j, NEW files, NEW command, Chooses(w, d, j, files, command),
           DOMAIN j.picked \subseteq Owners,
           NEW v, v.hand = w.hand, w.broken \subseteq v.broken, NEW more, files \subseteq more,
           NEW x, \A o \in Owners : StateFile(o[1]) \notin more => Rec(x, o) = Rec(d, o)
    PROVE  Chooses(v, x, j, more, command)
  BY DEF Chooses, Lost, Plainly

LEMMA ChoosesNothing ==
    ASSUME NEW w, NEW d, NEW j, NEW files, NEW command, j.pc \notin {"loaded", "chosen"}
    PROVE  Chooses(w, d, j, files, command)
  BY DEF Chooses

(* What a step leaves of the invariant for session r. *)
Proceeds(r) ==
    /\ DOMAIN sess'[r].picked \subseteq Owners
    /\ sess'[r].pc = "writing" => Works(World', disk', sess'[r], moved'[r], scene.command[r])
    /\ \/ Chooses(World', disk', sess'[r], moved'[r], scene.command[r])
       \/ sess'[r].pc \notin {"loaded", "chosen"}
       \/ /\ sess'[r] = sess[r] /\ moved[r] \subseteq moved'[r]
          /\ \A o \in Owners : StateFile(o[1]) \notin moved'[r] => Rec(disk', o) = Rec(disk, o)

LEMMA KeptStays ==
    ASSUME Routed, Kept, UNCHANGED scene, broken \subseteq broken', Tables',
           \A o \in Owners : own'[o] \in Hands(scene),
           LockFree' => AtRest(World', disk'), \A r \in Sessions : Proceeds(r)
    PROVE  Kept'
  <1>1. /\ World'.hand = World.hand /\ World.broken \subseteq World'.broken
    BY WorldNext, WorldIs
  <1>2. ASSUME NEW r \in Sessions
        PROVE  Chooses(World', disk', sess'[r], moved'[r], scene.command[r])
    <2>1. Proceeds(r)
      OBVIOUS
    <2>2. CASE sess'[r].pc \notin {"loaded", "chosen"}
      BY <2>2, ChoosesNothing
    <2>3. CASE /\ sess'[r] = sess[r] /\ moved[r] \subseteq moved'[r]
               /\ \A o \in Owners : StateFile(o[1]) \notin moved'[r] => Rec(disk', o) = Rec(disk, o)
      <3>1. Chooses(World, disk, sess[r], moved[r], scene.command[r])
            /\ DOMAIN sess[r].picked \subseteq Owners
        BY DEF Kept
      <3>2. Chooses(World', disk', sess[r], moved'[r], scene.command[r])
        BY <1>1, <2>3, <3>1, ChoosesStays
      <3> QED
        BY <2>3, <3>2
    <2> QED
      BY <2>1, <2>2, <2>3 DEF Proceeds
  <1>3. ASSUME NEW r \in Sessions
        PROVE  /\ DOMAIN sess'[r].picked \subseteq Owners
               /\ Writing(r)' => Works(World', disk', sess'[r], moved'[r], scene.command[r])
    BY DEF Proceeds, Writing
  <1> QED
    BY <1>2, <1>3 DEF Kept

(* A session that does not write goes on to one that does not. *)
LEMMA QuietKeeps ==
    ASSUME Routed, Kept, NEW s \in Sessions, UNCHANGED <<scene, disk, own, mine, broken>>,
           ~Writing(s), sess'[s].pc # "writing", DOMAIN sess'[s].picked \subseteq Owners,
           Chooses(World, disk, sess'[s], moved'[s], scene.command[s]),
           \A r \in Sessions : r # s => sess'[r] = sess[r] /\ moved'[r] = moved[r]
    PROVE  Kept'
  <1>1. World' = World
    BY DEF World
  <1>2. Tables' /\ \A o \in Owners : own'[o] \in Hands(scene)
    BY DEF Kept, Tables
  <1>3. LockFree' => AtRest(World', disk')
    BY <1>1 DEF LockFree, Kept, Writing
  <1>4. Proceeds(s)
    BY <1>1 DEF Proceeds
  <1>5. ASSUME NEW r \in Sessions, r # s
        PROVE  Proceeds(r)
    BY <1>1, <1>5 DEF Proceeds, Kept, Writing
  <1> QED
    BY <1>2, <1>3, <1>4, <1>5, KeptStays

LEMMA AllKnown ==
    ASSUME Kept, NEW o \in Owners
    PROVE  Known(World, disk, o)
  <1>1. CASE LockFree
    BY <1>1, FineIsKnown DEF Kept, AtRest
  <1>2. CASE ~LockFree
    <2>1. PICK s \in Sessions : Works(World, disk, sess[s], moved[s], scene.command[s])
      BY <1>2 DEF LockFree, Kept, Writing
    <2>2. CASE o \in DOMAIN sess[s].picked
      BY <2>1, <2>2 DEF Works, PickedFine
    <2>3. CASE o \notin DOMAIN sess[s].picked
      BY <2>1, <2>3, FineIsKnown DEF Works, OthersFine
    <2> QED
      BY <2>2, <2>3
  <1> QED
    BY <1>1, <1>2

LEMMA LoadedIs ==
    ASSUME NEW pc, NEW picked
    PROVE  /\ Loaded(pc, picked).pc = pc /\ Loaded(pc, picked).picked = picked
           /\ Loaded(pc, picked).seen = disk.config
  BY DEF Loaded, Idle

LEMMA AddLoadKeeps ==
    ASSUME Routed, Kept, NEW s \in Sessions, AddLoad(s)
    PROVE  Kept'
  <1>1. PICK T \in SUBSET {o \in Owners : /\ o[1] \in scene.files[s]
                                          /\ o[2] \in OfferedToAdd(disk, o[1])} :
           Becomes(s, Loaded("loaded", [o \in T |-> NoPick]))
    BY DEF AddLoad
  <1>2. /\ scene.command[s] = "add" /\ ~Writing(s)
        /\ UNCHANGED <<scene, disk, moved, own, mine, broken>>
    BY DEF AddLoad, Runs, Writing
  <1> DEFINE picked == [o \in T |-> NoPick]
  <1>3. DOMAIN picked = T
    OBVIOUS
  <1> HIDE DEF picked
  <1>4. /\ sess'[s].pc = "loaded" /\ sess'[s].picked = picked /\ sess'[s].seen = disk.config
        /\ \A r \in Sessions : r # s => sess'[r] = sess[r]
    BY <1>1, BecomesIs, LoadedIs DEF Routed, picked
  <1>5. ASSUME NEW o \in T
        PROVE  LET e == disk.config[o[1]][o[2]]
               IN  Supported(e) /\ (Lost(World, o) \/ Plainly(World, e))
    <2>1. o \in Owners /\ o[2] \in OfferedToAdd(disk, o[1])
      OBVIOUS
    <2>2. Known(World, disk, o)
      BY <2>1, AllKnown
    <2> QED
      BY <2>1, <2>2 DEF OfferedToAdd, IsLocalHttp, Known, Entry, Rec
  <1>6. Chooses(World, disk, sess'[s], moved'[s], scene.command[s])
    BY <1>2, <1>3, <1>4, <1>5 DEF Chooses
  <1> QED
    BY <1>2, <1>3, <1>4, <1>6, QuietKeeps

LEMMA PickHasPolicy ==
    ASSUME NoFile \notin scene.choices, NEW p, NEW managed, NEW servers, NEW ports,
           NEW pick \in Picks(PolicySources(p, managed), servers, ports)
    PROVE  pick.policy # NoFile
  <1> DEFINE by == FromBackup([m \in Names |-> NoEntry])
  <1> HIDE DEF by
  <1>1. NoPick = [kind |-> "", by |-> by, from |-> "", policy |-> NoFile, source |-> NoSource,
                  port |-> "", save |-> FALSE]
    BY DEF NoPick, by
  <1>2. PICK choice, found, q : /\ choice \in PolicySources(p, managed)
                                /\ pick = Pick(choice, found, q)
    BY DEF Picks
  <1>3. choice.policy # NoFile
    <2> DEFINE Existing == {[from |-> "existing", policy |-> disk.policy[p], save |-> FALSE] :
                              x \in IF disk.policy[p] # NoFile /\ ~managed THEN {1} ELSE {}}
               Saved == {[from |-> "saved", policy |-> disk.saved[p], save |-> FALSE] :
                           x \in IF disk.saved[p] # NoFile THEN {1} ELSE {}}
               saves == IF disk.saved[p] = NoFile THEN scene.saves ELSE {FALSE}
               New == {[from |-> "configure", policy |-> policy, save |-> save] :
                         policy \in scene.choices, save \in saves}
    <2>1. \A x \in Existing : x.policy # NoFile
      OBVIOUS
    <2>2. \A x \in Saved : x.policy # NoFile
      OBVIOUS
    <2>3. ASSUME NEW x \in New
          PROVE  x.policy # NoFile
      <3>1. PICK policy \in scene.choices, save \in saves :
               x = [from |-> "configure", policy |-> policy, save |-> save]
        <4> HIDE DEF saves
        <4> QED
          OBVIOUS
      <3>2. x.policy = policy
        BY <3>1
      <3> QED
        BY <3>2
    <2>4. PolicySources(p, managed) = Existing \union Saved \union New
      BY DEF PolicySources
    <2> HIDE DEF Existing, Saved, New
    <2> QED
      BY <1>2, <2>1, <2>2, <2>3, <2>4
  <1> QED
    BY <1>1, <1>2, <1>3 DEF Pick

LEMMA ChosenHavePolicies ==
    ASSUME Routed
    PROVE  /\ \A s, o : \A pick \in AddPicks(s, o) : pick.policy # NoFile
           /\ \A s, c, n, port : \A pick \in ManualPicks(s, c, n, port) : pick.policy # NoFile
  <1>1. NoFile \notin scene.choices
    BY NoneByHand
  <1>2. ASSUME NEW s, NEW o, NEW pick \in AddPicks(s, o)
        PROVE  pick.policy # NoFile
    <2>1. \E p, managed, servers, ports : pick \in Picks(PolicySources(p, managed), servers, ports)
      BY Zenon DEF AddPicks
    <2> QED
      BY <1>1, <2>1, PickHasPolicy
  <1>3. ASSUME NEW s, NEW c, NEW n, NEW port, NEW pick \in ManualPicks(s, c, n, port)
        PROVE  pick.policy # NoFile
    BY <1>1, PickHasPolicy, Zenon DEF ManualPicks
  <1> QED
    BY <1>2, <1>3

LEMMA AddChooseKeeps ==
    ASSUME Routed, Kept, NEW s \in Sessions, AddChoose(s)
    PROVE  Kept'
  <1> DEFINE T == DOMAIN sess[s].picked
             Session(picked) ==
               [sess[s] EXCEPT !.pc = "chosen", !.picked = picked, !.policies = disk.policy]
  <1>1. PICK kept, picked :
           /\ kept \subseteq T /\ picked \in [kept -> UNION {AddPicks(s, o) : o \in kept}]
           /\ \A o \in kept : picked[o] \in AddPicks(s, o)
           /\ Becomes(s, Session(picked))
    <2>1. \E kept \in (SUBSET T) \ {{}} :
          \E picked \in [kept -> UNION {AddPicks(s, o) : o \in kept}] :
             /\ \A o \in kept : picked[o] \in AddPicks(s, o)
             /\ Becomes(s, Session(picked))
      BY Zenon DEF AddChoose
    <2> HIDE DEF Session
    <2> QED
      BY <2>1
  <1>2. /\ scene.command[s] = "add" /\ sess[s].pc = "loaded" /\ ~Writing(s)
        /\ UNCHANGED <<scene, disk, own, mine, broken>> /\ \E F : Reads(s, F)
    BY Zenon DEF AddChoose, Runs, Writing
  <1>3. /\ DOMAIN picked = kept /\ kept \subseteq T /\ T \subseteq Owners
        /\ Chooses(World, disk, sess[s], moved[s], scene.command[s])
    BY <1>1 DEF Kept
  <1> DEFINE chosen == Session(picked)
  <1>4. chosen.pc = "chosen" /\ chosen.picked = picked /\ chosen.seen = sess[s].seen
    BY DEF Routed, Shape, IsSession
  <1> HIDE DEF chosen
  <1>5. /\ sess'[s].pc = "chosen" /\ sess'[s].picked = picked /\ sess'[s].seen = sess[s].seen
        /\ \A r \in Sessions : r # s => sess'[r] = sess[r]
    BY <1>1, <1>4, BecomesIs DEF Routed, chosen
  <1>6. \A o \in kept : picked[o].policy # NoFile
    BY <1>1, ChosenHavePolicies
  <1>7. ASSUME NEW o \in kept
        PROVE  LET e == sess[s].seen[o[1]][o[2]]
               IN  Supported(e) /\ (Lost(World, o) \/ Plainly(World, e))
    BY <1>2, <1>3 DEF Chooses
  <1>8. Chooses(World, disk, sess'[s], moved'[s], scene.command[s])
    BY <1>2, <1>3, <1>5, <1>6, <1>7 DEF Chooses
  <1>9. \A r \in Sessions : r # s => moved'[r] = moved[r]
    BY <1>2 DEF Reads, Routed, Shape
  <1>10. DOMAIN sess'[s].picked \subseteq Owners
    BY <1>3, <1>5
  <1> QED
    BY <1>2, <1>5, <1>8, <1>9, <1>10, QuietKeeps

LEMMA ManualLoadKeeps ==
    ASSUME Routed, Kept, NEW s \in Sessions, ManualLoad(s)
    PROVE  Kept'
  <1>1. /\ scene.command[s] = "manual" /\ ~Writing(s)
        /\ UNCHANGED <<scene, disk, moved, own, mine, broken>>
    BY DEF ManualLoad, Runs, Writing
  <1> DEFINE Picked(n, C, pick) == [o \in {<<c, n>> : c \in C} |-> pick[o[1]]]
             Session(n, C, pick) ==
               [Loaded("chosen", Picked(n, C, pick)) EXCEPT !.policies = disk.policy]
  <1>2. PICK n, port, C, pick :
           /\ n \in scene.names
           /\ C \subseteq {c \in scene.files[s] : disk.config[c][n] = NoEntry}
           /\ \A c \in C : pick[c] \in ManualPicks(s, c, n, port)
           /\ Becomes(s, Session(n, C, pick))
    <2>1. \E n \in scene.names, port \in IF UsedPorts = {} THEN Ports ELSE UsedPorts :
          \E C \in SUBSET {c \in scene.files[s] : disk.config[c][n] = NoEntry} :
          \E pick \in [C -> UNION {ManualPicks(s, c, n, port) : c \in C}] :
             /\ \A c \in C : pick[c] \in ManualPicks(s, c, n, port)
             /\ Becomes(s, Session(n, C, pick))
      BY ZenonT(40) DEF ManualLoad
    <2> HIDE DEF Session
    <2> QED
      BY <2>1
  <1> DEFINE picked == Picked(n, C, pick)
             chosen == Session(n, C, pick)
  <1>3. n \in Names /\ C \subseteq Configs
    <2>1. scene \in Scenes
      BY DEF Routed, Shape
    <2>2. scene.names \subseteq Names /\ scene.files[s] \subseteq Configs
      BY <2>1, SceneAssumption
    <2> QED
      BY <1>2, <2>2
  <1>4. /\ DOMAIN picked \subseteq Owners
        /\ \A o \in DOMAIN picked : /\ o[1] \in C /\ o[2] = n /\ picked[o] = pick[o[1]]
                                    /\ disk.config[o[1]][o[2]] = NoEntry
    BY <1>2, <1>3 DEF Owners
  <1> HIDE DEF picked
  <1>5. /\ chosen.pc = "chosen" /\ chosen.picked = picked /\ chosen.seen = disk.config
    <2>1. ASSUME NEW p
          PROVE  LET session == [Loaded("chosen", p) EXCEPT !.policies = disk.policy]
                 IN  session.pc = "chosen" /\ session.picked = p /\ session.seen = disk.config
      BY DEF Loaded, Idle
    <2> HIDE DEF Picked
    <2> QED
      BY <2>1 DEF picked
  <1>6. /\ sess'[s] = chosen /\ \A r \in Sessions : r # s => sess'[r] = sess[r]
    BY <1>2, BecomesIs DEF picked, Routed
  <1> HIDE DEF chosen
  <1>7. \A c \in C : pick[c].policy # NoFile
    BY <1>2, ChosenHavePolicies
  <1>8. Chooses(World, disk, sess'[s], moved'[s], scene.command[s])
    <2>1. \A o \in DOMAIN picked : picked[o].policy # NoFile
      BY <1>4, <1>7
    <2> QED
      BY <1>1, <1>4, <1>5, <1>6, <2>1 DEF Chooses
  <1>9. sess'[s].pc # "writing" /\ DOMAIN sess'[s].picked \subseteq Owners
        /\ \A r \in Sessions : r # s => sess'[r] = sess[r] /\ moved'[r] = moved[r]
    BY <1>1, <1>4, <1>5, <1>6
  <1> QED
    BY <1>1, <1>8, <1>9, QuietKeeps

LEMMA ChoiceIsRecord ==
    ASSUME NEW d, NEW c, NEW n, NEW choice \in RestoreChoices(d, c, n), choice.kind # "legacy"
    PROVE  choice.by = FromRecord(d.state[c][n])
  <1> DEFINE record == d.state[c][n]
             managed == ManagedPolicy(d.config[c][n])
  <1>1. ASSUME NEW entries, NEW x \in {[kind |-> "legacy", by |-> entry] : entry \in entries}
        PROVE  x.kind = "legacy"
    OBVIOUS
  <1>2. choice \in ChoicesFor(d, c, n, record, managed)
    BY DEF RestoreChoices
  <1> HIDE DEF record, managed
  <1>3. choice = [kind |-> "route", by |-> FromRecord(record)]
        \/ choice = [kind |-> "record", by |-> FromRecord(record)]
    BY <1>1, <1>2 DEF ChoicesFor
  <1> QED
    BY <1>3 DEF record

LEMMA RestoreLoadKeeps ==
    ASSUME Routed, Kept, NEW s \in Sessions, RestoreLoad(s)
    PROVE  Kept'
  <1> DEFINE Choice(o) == CHOOSE choice \in RestoreChoices(disk, o[1], o[2]) : TRUE
             Picked(T) == [o \in T |-> [NoPick EXCEPT !.kind = Choice(o).kind, !.by = Choice(o).by]]
             Session(T, missing) == [Loaded("chosen", Picked(T)) EXCEPT !.missing = missing]
  <1>1. /\ scene.command[s] = "restore" /\ ~Writing(s)
        /\ UNCHANGED <<scene, disk, moved, own, mine, broken>>
    BY DEF RestoreLoad, Runs, Writing
  <1>2. PICK T \in SUBSET Owners, missing \in SUBSET Owners :
           /\ \A o \in T : RestoreChoices(disk, o[1], o[2]) # {}
           /\ Becomes(s, Session(T, missing))
    <2>1. \E T \in (SUBSET {o \in Owners : /\ o[1] \in scene.files[s]
                                           /\ RestoreChoices(disk, o[1], o[2]) # {}}) \ {{}} :
             Becomes(s, Session(T, {o \in T : disk.route[o] = NoRoute}))
      BY Zenon DEF RestoreLoad
    <2> HIDE DEF Session
    <2> QED
      BY <2>1
  <1> DEFINE picked == Picked(T)
             chosen == Session(T, missing)
  <1>3. ASSUME NEW o \in T, picked[o].kind # "legacy"
        PROVE  picked[o].by = FromRecord(Rec(disk, o))
    <2> DEFINE choice == Choice(o)
               blank == FromBackup([m \in Names |-> NoEntry])
    <2>1. choice \in RestoreChoices(disk, o[1], o[2])
      BY <1>2
    <2> HIDE DEF choice, blank
    <2>2. NoPick = [kind |-> "", by |-> blank, from |-> "", policy |-> NoFile, source |-> NoSource,
                    port |-> "", save |-> FALSE]
      BY DEF NoPick, blank
    <2>3. picked[o] = [NoPick EXCEPT !.kind = choice.kind, !.by = choice.by]
      BY DEF choice
    <2>4. ASSUME NEW item, NEW kind, NEW by, item = [NoPick EXCEPT !.kind = kind, !.by = by]
          PROVE  item.kind = kind /\ item.by = by
      BY <2>2, <2>4
    <2>5. picked[o].kind = choice.kind /\ picked[o].by = choice.by
      <3> HIDE DEF picked
      <3> QED
        BY <2>3, <2>4
    <2> QED
      BY <1>3, <2>1, <2>5, ChoiceIsRecord DEF Rec
  <1>4. DOMAIN picked = T
    OBVIOUS
  <1> HIDE DEF picked
  <1>5. chosen.pc = "chosen" /\ chosen.picked = picked
    <2>1. ASSUME NEW p
          PROVE  LET session == [Loaded("chosen", p) EXCEPT !.missing = missing]
                 IN  session.pc = "chosen" /\ session.picked = p
      BY DEF Loaded, Idle
    <2> HIDE DEF Picked
    <2> QED
      BY <2>1 DEF picked
  <1>6. /\ sess'[s] = chosen /\ \A r \in Sessions : r # s => sess'[r] = sess[r]
    BY <1>2, BecomesIs DEF picked, Routed
  <1> HIDE DEF chosen
  <1>7. Chooses(World, disk, sess'[s], moved'[s], scene.command[s])
    BY <1>1, <1>3, <1>4, <1>5, <1>6 DEF Chooses
  <1>8. sess'[s].pc # "writing" /\ DOMAIN sess'[s].picked \subseteq Owners
        /\ \A r \in Sessions : r # s => sess'[r] = sess[r] /\ moved'[r] = moved[r]
    BY <1>1, <1>4, <1>5, <1>6
  <1> QED
    BY <1>1, <1>7, <1>8, QuietKeeps

LEMMA EndedIs ==
    ASSUME Routed, NEW s \in Sessions, Becomes(s, [Idle EXCEPT !.pc = "ended"])
    PROVE  /\ sess'[s].pc = "ended" /\ DOMAIN sess'[s].picked \subseteq Owners
           /\ \A r \in Sessions : r # s => sess'[r] = sess[r]
  <1>1. [Idle EXCEPT !.pc = "ended"].pc = "ended" /\ [Idle EXCEPT !.pc = "ended"].picked = <<>>
    BY DEF Idle
  <1>2. DOMAIN <<>> \subseteq Owners
    OBVIOUS
  <1> QED
    BY <1>1, <1>2, BecomesIs DEF Routed

(* A command that is cancelled or refused. *)
LEMMA QuitKeeps ==
    ASSUME Routed, Kept, NEW s \in Sessions, ~Writing(s), Ends(s),
           UNCHANGED <<scene, disk, own, mine, broken>>
    PROVE  Kept'
  <1>1. /\ Becomes(s, [Idle EXCEPT !.pc = "ended"])
        /\ \A r \in Sessions : r # s => moved'[r] = moved[r]
    BY DEF Ends, Routed, Shape
  <1>2. /\ sess'[s].pc = "ended" /\ DOMAIN sess'[s].picked \subseteq Owners
        /\ \A r \in Sessions : r # s => sess'[r] = sess[r]
    BY <1>1, EndedIs
  <1>3. Chooses(World, disk, sess'[s], moved'[s], scene.command[s])
    BY <1>2, ChoosesNothing
  <1> QED
    BY <1>1, <1>2, <1>3, QuietKeeps

-----------------------------------------------------------------------------
(* What each step does to what is kept.                                    *)

LEMMA PlanKeeps ==
    ASSUME Routed, Kept, NEW s \in Sessions, ~Writing(s), LockFree,
           NEW files, NEW after, NEW healed,
           Begin(s, files, after, healed), UNCHANGED <<scene, own, mine>>, broken \subseteq broken',
           Works(World', disk', sess'[s], moved'[s], scene.command[s])
    PROVE  Kept'
  <1>1. /\ sess'[s].pc = "writing" /\ sess'[s].picked = sess[s].picked
        /\ \A r \in Sessions : r # s => sess'[r] = sess[r] /\ moved'[r] = moved[r]
        /\ disk'.config = disk.config /\ disk'.state = disk.state /\ disk'.policy = disk.policy
    BY Begun
  <1>2. Tables' /\ \A o \in Owners : own'[o] \in Hands(scene)
    BY <1>1 DEF Kept, Tables
  <1>3. ~LockFree'
    BY <1>1 DEF LockFree
  <1>4. \A o \in Owners : Rec(disk', o) = Rec(disk, o)
    BY <1>1 DEF Rec
  <1>5. Proceeds(s)
    BY <1>1 DEF Proceeds, Kept
  <1>6. ASSUME NEW r \in Sessions, r # s
        PROVE  Proceeds(r)
    <2>1. sess'[r] = sess[r] /\ moved'[r] = moved[r] /\ sess[r].pc # "writing"
          /\ DOMAIN sess[r].picked \subseteq Owners
      BY <1>1, <1>6 DEF LockFree, Kept
    <2> QED
      BY <1>4, <2>1 DEF Proceeds
  <1> QED
    BY <1>2, <1>3, <1>5, <1>6, KeptStays

LEMMA PlansKeep ==
    ASSUME Routed, Kept, NEW s \in Sessions, AddPlan(s) \/ ManualPlan(s) \/ RestorePlan(s)
    PROVE  Kept'
  <1>1. CASE AddPlan(s)
    <2>1. \E entries, routes, healed : BeginSetup(s, Installed(s, entries, routes, FALSE), healed)
      BY <1>1, Zenon DEF AddPlan
    <2>2. \E files, after, healed : Begin(s, files, after, healed)
      BY <2>1, Zenon DEF BeginSetup
    <2>3. /\ ~Writing(s) /\ LockFree /\ UNCHANGED <<scene, own, mine>> /\ broken \subseteq broken'
          /\ scene.command[s] = "add"
      BY <1>1 DEF AddPlan, Runs, Writing
    <2>4. Works(World', disk', sess'[s], moved'[s], "add")
      BY <1>1, AddPlanWorks
    <2> QED
      BY <2>2, <2>3, <2>4, PlanKeeps
  <1>2. CASE ManualPlan(s)
    <2>1. \E entries, routes, healed : BeginSetup(s, Installed(s, entries, routes, TRUE), healed)
      BY <1>2, Zenon DEF ManualPlan
    <2>2. \E files, after, healed : Begin(s, files, after, healed)
      BY <2>1, Zenon DEF BeginSetup
    <2>3. /\ ~Writing(s) /\ LockFree /\ UNCHANGED <<scene, own, mine>> /\ broken \subseteq broken'
          /\ scene.command[s] = "manual"
      BY <1>2 DEF ManualPlan, Runs, Writing
    <2>4. Works(World', disk', sess'[s], moved'[s], "manual")
      BY <1>2, ManualPlanWorks
    <2> QED
      BY <2>2, <2>3, <2>4, PlanKeeps
  <1>3. CASE RestorePlan(s)
    <2>1. \E after, policies : BeginRestore(s, after, policies)
      BY <1>3, Zenon DEF RestorePlan
    <2>2. \E files, after, healed : Begin(s, files, after, healed)
      BY <2>1, Zenon DEF BeginRestore
    <2>3. /\ ~Writing(s) /\ LockFree /\ UNCHANGED <<scene, own, mine>> /\ broken \subseteq broken'
          /\ scene.command[s] = "restore"
      BY <1>3 DEF RestorePlan, Runs, Writing
    <2>4. Works(World', disk', sess'[s], moved'[s], "restore")
      BY <1>3, RestorePlanWorks
    <2> QED
      BY <2>2, <2>3, <2>4, PlanKeeps
  <1> QED
    BY <1>1, <1>2, <1>3

(* The order of the kinds of file. *)
LEMMA DueIsInOrder ==
    ASSUME NEW s \in Sessions, NEW f \in Due(s), IsSession(sess[s])
    PROVE  InOrder(sess[s], f, scene.command[s])
  <1> DEFINE j == sess[s]
             pending == j.files \ j.written
  <1>1. CASE scene.command[s] = "restore"
    <2>1. f \in pending /\ \A g \in pending : RestoreRank[f[1]] <= RestoreRank[g[1]]
      BY <1>1 DEF Due, Files, Written
    <2>2. ASSUME NEW c \in Configs, f = StateFile(c), NEW e \in Configs, ConfigFile(e) \in j.files
          PROVE  ConfigFile(e) \in j.written
      <3>1. RestoreRank[f[1]] = 4 /\ RestoreRank[ConfigFile(e)[1]] = 2
        BY <2>2 DEF RestoreRank, StateFile, ConfigFile, File
      <3>2. ~(4 <= 2)
        OBVIOUS
      <3> QED
        BY <2>1, <2>2, <3>1, <3>2
    <2> QED
      BY <1>1, <2>2 DEF InOrder
  <1>2. CASE scene.command[s] # "restore"
    <2>1. f \in pending /\ \A g \in pending : SetupRank[f[1]] <= SetupRank[g[1]]
      BY <1>2 DEF Due, Files, Written
    <2>2. ASSUME NEW c \in Configs, f = ConfigFile(c), NEW e \in Configs, StateFile(e) \in j.files
          PROVE  StateFile(e) \in j.written
      <3>1. SetupRank[f[1]] = 6 /\ SetupRank[StateFile(e)[1]] = 5
        BY <2>2 DEF SetupRank, StateFile, ConfigFile, File
      <3>2. ~(6 <= 5)
        OBVIOUS
      <3> QED
        BY <2>1, <2>2, <3>1, <3>2
    <2> QED
      BY <1>2, <2>2 DEF InOrder
  <1> QED
    BY <1>1, <1>2

(* A write, seen from the files. *)
LEMMA Writes ==
    ASSUME Routed, NEW s \in Sessions, Write(s)
    PROVE  /\ Writing(s) /\ UNCHANGED <<scene, own, mine, broken>>
           /\ \E f \in Due(s) \ moved[s] :
                /\ f \in sess[s].files /\ f \notin sess[s].written
                /\ disk' = Copy(disk, {f}, sess[s].after)
                /\ Wrote(sess[s], sess'[s], f) /\ sess'[s].pc = "writing"
                /\ moved'[s] = moved[s]
                /\ \A r \in Sessions : r # s =>
                      /\ sess'[r] = sess[r]
                      /\ sess[r].pc \in {"loaded", "chosen", "writing"} =>
                            moved'[r] = moved[r] \union {f}
  <1>1. Writing(s) /\ UNCHANGED <<scene, own, mine, broken>>
    BY DEF Write
  <1>2. PICK f \in Due(s) \ moved[s] :
           /\ disk' = Copy(disk, {f}, sess[s].after)
           /\ Becomes(s, [sess[s] EXCEPT !.written = @ \union {f}]) /\ Moved({f}, {s})
    BY DEF Write
  <1>3. f \in sess[s].files /\ f \notin sess[s].written
    BY DEF Due, Files, Written
  <1> DEFINE new == [sess[s] EXCEPT !.written = @ \union {f}]
  <1>4. Wrote(sess[s], new, f) /\ new.pc = "writing"
    <2>1. IsSession(sess[s]) /\ sess[s].pc = "writing"
      BY <1>1 DEF Routed, Shape, Writing
    <2> QED
      BY <2>1 DEF Wrote, IsSession
  <1>5. Becomes(s, new)
    BY <1>2
  <1> HIDE DEF new
  <1>6. sess'[s] = new /\ \A r \in Sessions : r # s => sess'[r] = sess[r]
    BY <1>5, BecomesIs DEF Routed
  <1>7. /\ moved'[s] = moved[s]
        /\ \A r \in Sessions : r # s /\ sess[r].pc \in {"loaded", "chosen", "writing"} =>
              moved'[r] = moved[r] \union {f}
    BY <1>2 DEF Moved
  <1> QED
    BY <1>1, <1>2, <1>3, <1>4, <1>6, <1>7

LEMMA CopiedTables ==
    ASSUME IsDisk(disk), IsTable(disk.config), NEW F, NEW a, IsTable(a.config),
           disk' = Copy(disk, F, a)
    PROVE  IsTable(disk'.config) /\ disk'.policy = [p \in Paths |-> disk'.policy[p]]
  <1> DEFINE x == disk'
  <1>1. x = Copy(disk, F, a)
    OBVIOUS
  <1> HIDE DEF x
  <1>2. IsTable(x.config)
    BY <1>1, CopyIsTable
  <1>3. x.policy = [p \in Paths |-> x.policy[p]]
    BY <1>1, CopyIsTable
  <1> QED
    BY <1>2, <1>3 DEF x

LEMMA WriteKeeps ==
    ASSUME Routed, Kept, NEW s \in Sessions, Write(s)
    PROVE  Kept'
  <1>1. Writing(s) /\ UNCHANGED <<scene, own, mine, broken>>
    BY Writes
  <1>2. PICK f \in Due(s) \ moved[s] :
           /\ f \in sess[s].files /\ f \notin sess[s].written
           /\ disk' = Copy(disk, {f}, sess[s].after)
           /\ Wrote(sess[s], sess'[s], f) /\ sess'[s].pc = "writing"
           /\ moved'[s] = moved[s]
           /\ \A r \in Sessions : r # s =>
                 /\ sess'[r] = sess[r]
                 /\ sess[r].pc \in {"loaded", "chosen", "writing"} =>
                       moved'[r] = moved[r] \union {f}
    BY Writes
  <1>3. /\ Works(World, disk, sess[s], moved[s], scene.command[s])
        /\ IsDisk(disk) /\ IsSession(sess[s]) /\ IsTable(disk.config)
    BY <1>1 DEF Kept, Tables, Routed, Shape
  <1>4. World' = World
    BY <1>1 DEF World
  <1>5. InOrder(sess[s], f, scene.command[s])
    BY <1>3, DueIsInOrder
  <1>6. Works(World, disk', sess'[s], moved[s], scene.command[s])
    BY <1>2, <1>3, <1>5, WriteKeepsWorks
  <1>7. Tables' /\ \A o \in Owners : own'[o] \in Hands(scene)
    <2>1. IsTable(sess[s].after.config)
      BY <1>3, Zenon DEF Works
    <2>2. IsTable(disk'.config) /\ disk'.policy = [p \in Paths |-> disk'.policy[p]]
      <3> DEFINE a == sess[s].after
      <3>1. IsTable(a.config) /\ disk' = Copy(disk, {f}, a)
        BY <1>2, <2>1
      <3> HIDE DEF a
      <3> QED
        BY <1>3, <3>1, CopiedTables
    <2> QED
      BY <1>1, <2>2 DEF Tables, Kept
  <1>8. ~LockFree'
    BY <1>2 DEF LockFree
  <1>9. Proceeds(s)
    BY <1>2, <1>4, <1>6 DEF Proceeds, Kept, Wrote
  <1>10. ASSUME NEW r \in Sessions, r # s
         PROVE  Proceeds(r)
    <2>1. sess'[r] = sess[r] /\ sess[r].pc # "writing" /\ DOMAIN sess[r].picked \subseteq Owners
      BY <1>1, <1>2, <1>10 DEF Routed, OneWriter, Writing, Kept
    <2>2. CASE sess[r].pc \notin {"loaded", "chosen"}
      BY <2>1, <2>2 DEF Proceeds
    <2>3. CASE sess[r].pc \in {"loaded", "chosen"}
      <3>1. moved'[r] = moved[r] \union {f}
        BY <1>2, <1>10, <2>3
      <3>2. \A o \in Owners : Rec(disk', o) = IF StateFile(o[1]) \in {f} THEN Rec(sess[s].after, o)
                                              ELSE Rec(disk, o)
        BY <1>2, <1>3, CopyEntries
      <3> QED
        BY <2>1, <3>1, <3>2 DEF Proceeds
    <2> QED
      BY <2>2, <2>3
  <1> QED
    BY <1>1, <1>7, <1>8, <1>9, <1>10, KeptStays

-----------------------------------------------------------------------------
(* A session that writes comes to its end.                                 *)

LEMMA EndKeeps ==
    ASSUME Routed, Kept, NEW s \in Sessions, Writing(s), UNCHANGED <<scene, own>>,
           broken \subseteq broken', sess'[s].pc = "ended", DOMAIN sess'[s].picked \subseteq Owners,
           Tables', AtRest(World', disk'), NEW F,
           \A r \in Sessions : r # s =>
              /\ sess'[r] = sess[r]
              /\ sess[r].pc \in {"loaded", "chosen"} => moved[r] \union F \subseteq moved'[r],
           \A o \in Owners : StateFile(o[1]) \notin F => Rec(disk', o) = Rec(disk, o)
    PROVE  Kept'
  <1>1. \A o \in Owners : own'[o] \in Hands(scene)
    BY DEF Kept
  <1>2. Proceeds(s)
    BY DEF Proceeds
  <1>3. ASSUME NEW r \in Sessions, r # s
        PROVE  Proceeds(r)
    <2>1. sess'[r] = sess[r] /\ sess[r].pc # "writing" /\ DOMAIN sess[r].picked \subseteq Owners
      BY <1>3 DEF Routed, OneWriter, Writing, Kept
    <2>2. CASE sess[r].pc \notin {"loaded", "chosen"}
      BY <2>1, <2>2 DEF Proceeds
    <2>3. CASE sess[r].pc \in {"loaded", "chosen"}
      <3>1. moved[r] \subseteq moved'[r] /\ F \subseteq moved'[r]
        BY <1>3, <2>3
      <3> QED
        BY <2>1, <3>1 DEF Proceeds
    <2> QED
      BY <2>2, <2>3
  <1> QED
    BY <1>1, <1>2, <1>3, KeptStays

LEMMA FinishKeeps ==
    ASSUME Routed, Kept, NEW s \in Sessions, Finish(s)
    PROVE  Kept'
  <1>1. /\ Writing(s) /\ sess[s].written = sess[s].files
        /\ Becomes(s, [Idle EXCEPT !.pc = "ended"]) /\ moved' = [moved EXCEPT ![s] = {}]
        /\ UNCHANGED <<scene, disk, own, broken>>
    BY DEF Finish, Ends, Written, Files
  <1>2. mine' = [p \in Paths |->
                   IF /\ scene.command[s] = "restore" /\ PolicyFile(p) \notin sess[s].files
                      /\ \E o \in Owners : Rec(sess[s].before, o).path = p
                      /\ References(disk, p) = {}
                   THEN disk.policy[p] ELSE mine[p]]
    BY DEF Finish, Files, Rec
  <1>3. /\ sess'[s].pc = "ended" /\ DOMAIN sess'[s].picked \subseteq Owners
        /\ \A r \in Sessions : r # s => sess'[r] = sess[r] /\ moved'[r] = moved[r]
    BY <1>1, EndedIs DEF Routed, Shape
  <1>4. World'.hand = World.hand /\ World'.broken = World.broken /\ World'.mine = mine'
        /\ World.mine = mine
    BY <1>1, WorldNext, WorldIs
  <1>5. \A p \in Paths :
           World'.mine[p] = IF /\ scene.command[s] = "restore" /\ PolicyFile(p) \notin sess[s].files
                               /\ \E o \in Owners : Rec(sess[s].before, o).path = p
                               /\ References(disk, p) = {}
                            THEN disk.policy[p] ELSE World.mine[p]
    BY <1>2, <1>4
  <1>6. Works(World, disk, sess[s], moved[s], scene.command[s])
    BY <1>1 DEF Kept
  <1>7. AtRest(World', disk')
    <2> DEFINE v == World'
               w == World
               j == sess[s]
               command == scene.command[s]
    <2>1. v.hand = w.hand /\ v.broken = w.broken /\ j.written = j.files
          /\ Works(w, disk, j, moved[s], command)
      BY <1>1, <1>4, <1>6
    <2>2. \A p \in Paths :
             v.mine[p] = IF /\ command = "restore" /\ PolicyFile(p) \notin j.files
                            /\ \E o \in Owners : Rec(j.before, o).path = p
                            /\ References(disk, p) = {}
                         THEN disk.policy[p] ELSE w.mine[p]
      BY <1>5
    <2> HIDE DEF v, w, j, command
    <2>3. AtRest(v, disk)
      BY <2>1, <2>2, FinishRests, SMTT(40)
    <2> QED
      BY <1>1, <2>3 DEF v
  <1>8. Tables'
    <2>1. mine' = [p \in Paths |-> mine'[p]]
      BY <1>2
    <2> QED
      BY <1>1, <2>1 DEF Tables, Kept
  <1> DEFINE F == {}
  <1>9. \A o \in Owners : StateFile(o[1]) \notin F => Rec(disk', o) = Rec(disk, o)
    BY <1>1
  <1>10. \A r \in Sessions : r # s =>
            /\ sess'[r] = sess[r]
            /\ sess[r].pc \in {"loaded", "chosen"} => moved[r] \union F \subseteq moved'[r]
    BY <1>3
  <1>11. UNCHANGED <<scene, own>> /\ broken \subseteq broken' /\ Writing(s)
    BY <1>1
  <1> HIDE DEF F
  <1> QED
    BY <1>3, <1>7, <1>8, <1>9, <1>10, <1>11, EndKeeps

(* What Touched stands for. *)
LEMMA TouchedLost ==
    ASSUME NEW s \in Sessions, Touched(s) \subseteq broken', UNCHANGED scene
    PROVE  /\ Rewrites(sess[s]) \subseteq World'.broken
           /\ \A o \in DOMAIN sess[s].picked : Lost(World', o)
  BY WorldNext DEF Touched, WrittenPaths, Files, Rewrites, Lost

LEMMA RollBackKeeps ==
    ASSUME Routed, Kept, NEW s \in Sessions, Writing(s), RollBack(s),
           UNCHANGED <<scene, own, mine>>
    PROVE  Kept'
  <1> DEFINE undo == sess[s].written \ moved[s]
             spared == sess[s].written \cap moved[s]
  <1>1. /\ disk' = Copy(disk, undo, sess[s].before)
        /\ Becomes(s, [Idle EXCEPT !.pc = "ended"])
        /\ moved' = [r \in Sessions |->
              IF r = s THEN {}
              ELSE IF sess[r].pc \in {"loaded", "chosen"} THEN moved[r] \union undo
                   ELSE moved[r]]
        /\ broken' = broken \union IF spared = {} THEN {} ELSE Touched(s)
    BY DEF RollBack, Written
  <1>2. /\ sess'[s].pc = "ended" /\ DOMAIN sess'[s].picked \subseteq Owners
        /\ \A r \in Sessions : r # s => sess'[r] = sess[r]
    BY <1>1, EndedIs
  <1>3. /\ Works(World, disk, sess[s], moved[s], scene.command[s])
        /\ IsDisk(disk) /\ IsTable(disk.config) /\ sess[s].written \subseteq sess[s].files
    BY DEF Kept, Tables, Routed, Shape, IsSession, Writing
  <1>4. World'.hand = World.hand /\ World'.mine = World.mine /\ World.broken \subseteq World'.broken
    BY <1>1, WorldNext, WorldIs
  <1>5. spared # {} => /\ Rewrites(sess[s]) \subseteq World'.broken
                       /\ \A o \in DOMAIN sess[s].picked : Lost(World', o)
    BY <1>1, TouchedLost
  <1>6. AtRest(World', disk')
    <2> DEFINE v == World'
               w == World
               j == sess[s]
               x == disk'
    <2>1. v.hand = w.hand /\ v.mine = w.mine /\ w.broken \subseteq v.broken
          /\ Works(w, disk, j, moved[s], scene.command[s])
          /\ j.written \subseteq j.files /\ x = Copy(disk, j.written \ moved[s], j.before)
          /\ (j.written \cap moved[s] # {} => /\ Rewrites(j) \subseteq v.broken
                                              /\ \A o \in DOMAIN j.picked : Lost(v, o))
      BY <1>1, <1>3, <1>4, <1>5
    <2> HIDE DEF v, w, j, x
    <2>2. AtRest(v, x)
      BY <1>3, <2>1, RollBackRests
    <2> QED
      BY <2>2 DEF v, x
  <1>7. Tables'
    <2>1. IsTable(sess[s].before.config)
      BY <1>3, Zenon DEF Works
    <2>2. IsTable(disk'.config) /\ disk'.policy = [p \in Paths |-> disk'.policy[p]]
      <3> DEFINE a == sess[s].before
      <3>1. IsTable(a.config) /\ disk' = Copy(disk, undo, a)
        BY <1>1, <2>1
      <3> HIDE DEF a, undo
      <3> QED
        BY <1>3, <3>1, CopiedTables
    <2> QED
      BY <2>2 DEF Tables, Kept
  <1>8. \A o \in Owners : StateFile(o[1]) \notin undo => Rec(disk', o) = Rec(disk, o)
    <2> HIDE DEF undo
    <2> QED
      BY <1>1, <1>3, CopyEntries
  <1>9. \A r \in Sessions : r # s =>
           /\ sess'[r] = sess[r]
           /\ sess[r].pc \in {"loaded", "chosen"} => moved[r] \union undo \subseteq moved'[r]
    BY <1>1, <1>2
  <1>10. UNCHANGED <<scene, own>> /\ broken \subseteq broken'
    BY <1>1
  <1> HIDE DEF undo, spared
  <1> QED
    BY <1>2, <1>6, <1>7, <1>8, <1>9, <1>10, EndKeeps

LEMMA CrashKeeps ==
    ASSUME Routed, Kept, NEW s \in Sessions, Crash(s)
    PROVE  Kept'
  <1>1. /\ Writing(s) /\ Becomes(s, [Idle EXCEPT !.pc = "ended"])
        /\ moved' = [moved EXCEPT ![s] = {}] /\ broken' = broken \union Touched(s)
        /\ UNCHANGED <<scene, disk, own, mine>>
    BY DEF Crash, Ends
  <1>2. /\ sess'[s].pc = "ended" /\ DOMAIN sess'[s].picked \subseteq Owners
        /\ \A r \in Sessions : r # s => sess'[r] = sess[r] /\ moved'[r] = moved[r]
    BY <1>1, EndedIs DEF Routed, Shape
  <1>3. Works(World, disk, sess[s], moved[s], scene.command[s])
    BY <1>1 DEF Kept
  <1>4. World'.hand = World.hand /\ World'.mine = World.mine /\ World.broken \subseteq World'.broken
    BY <1>1, WorldNext, WorldIs
  <1>5. /\ Rewrites(sess[s]) \subseteq World'.broken
        /\ \A o \in DOMAIN sess[s].picked : Lost(World', o)
    BY <1>1, TouchedLost
  <1>6. AtRest(World', disk')
    <2> DEFINE v == World'
               w == World
               j == sess[s]
    <2>1. v.hand = w.hand /\ v.mine = w.mine /\ w.broken \subseteq v.broken
          /\ Works(w, disk, j, moved[s], scene.command[s])
          /\ Rewrites(j) \subseteq v.broken /\ \A o \in DOMAIN j.picked : Lost(v, o)
      BY <1>3, <1>4, <1>5
    <2> HIDE DEF v, w, j
    <2>2. AtRest(v, disk)
      BY <2>1, CrashRests
    <2> QED
      BY <1>1, <2>2 DEF v
  <1>7. Tables' /\ broken \subseteq broken'
    BY <1>1 DEF Tables, Kept
  <1> DEFINE F == {}
  <1>8. \A o \in Owners : StateFile(o[1]) \notin F => Rec(disk', o) = Rec(disk, o)
    BY <1>1
  <1>9. \A r \in Sessions : r # s =>
           /\ sess'[r] = sess[r]
           /\ sess[r].pc \in {"loaded", "chosen"} => moved[r] \union F \subseteq moved'[r]
    BY <1>2
  <1>10. UNCHANGED <<scene, own>> /\ Writing(s)
    BY <1>1
  <1> HIDE DEF F
  <1> QED
    BY <1>2, <1>6, <1>7, <1>8, <1>9, <1>10, EndKeeps

-----------------------------------------------------------------------------
(* The user edits a configuration or a policy.                             *)

WithEntry(d, q, entry) == [d EXCEPT !.config[q[1]][q[2]] = entry]

LEMMA EditedIs ==
    ASSUME NEW d, IsDisk(d), IsTable(d.config), NEW q \in Owners, NEW entry,
           NEW x, x = WithEntry(d, q, entry)
    PROVE  /\ IsTable(x.config) /\ x.policy = d.policy /\ x.state = d.state
           /\ \A c \in Configs : c # q[1] => x.config[c] = d.config[c]
           /\ Entry(x, q) = entry
           /\ \A o \in Owners : o # q => Entry(x, o) = Entry(d, o)
  <1>1. /\ x.config = [d.config EXCEPT ![q[1]] = [d.config[q[1]] EXCEPT ![q[2]] = entry]]
        /\ x.policy = d.policy /\ x.state = d.state
    BY DEF IsDisk, WithEntry
  <1> DEFINE t == d.config
             u == x.config
             row == [t[q[1]] EXCEPT ![q[2]] = entry]
  <1>2. /\ u = [t EXCEPT ![q[1]] = row] /\ t = [c \in Configs |-> t[c]]
        /\ \A c \in Configs : t[c] = [n \in Names |-> t[c][n]]
    BY <1>1 DEF IsTable
  <1>3. q[1] \in Configs /\ q[2] \in Names /\ q = <<q[1], q[2]>>
    BY OwnerParts
  <1>4. t[q[1]] = [n \in Names |-> t[q[1]][n]]
    BY <1>2, <1>3
  <1>5. /\ row = [n \in Names |-> row[n]]
        /\ \A n \in Names : row[n] = IF n = q[2] THEN entry ELSE t[q[1]][n]
    BY <1>3, <1>4
  <1> HIDE DEF t, u, row
  <1>6. /\ u = [c \in Configs |-> u[c]]
        /\ \A c \in Configs : u[c] = IF c = q[1] THEN row ELSE t[c]
    BY <1>2
  <1>7. \A c \in Configs : u[c] = [n \in Names |-> u[c][n]]
    BY <1>2, <1>5, <1>6
  <1>8. IsTable(u)
    BY <1>6, <1>7, TableIs
  <1>9. ASSUME NEW o \in Owners
        PROVE  u[o[1]][o[2]] = IF o = q THEN entry ELSE t[o[1]][o[2]]
    <2>1. o[1] \in Configs /\ o[2] \in Names /\ o = <<o[1], o[2]>>
      BY OwnerParts
    <2>2. CASE o[1] = q[1]
      BY <1>3, <1>5, <1>6, <2>1, <2>2
    <2>3. CASE o[1] # q[1]
      BY <1>6, <2>1, <2>3
    <2> QED
      BY <2>2, <2>3
  <1> QED
    BY <1>1, <1>6, <1>8, <1>9 DEF t, u, Entry

(* The files an edit of the user's moves, and the sessions it leaves as they are. *)
LEMMA EditProceeds ==
    ASSUME Routed, Kept, UNCHANGED <<scene, sess>>, NEW f, Moved({f}, {}),
           \A o \in Owners : Rec(disk', o) = Rec(disk, o), NEW r \in Sessions,
           Writing(r) =>
              Works(World', disk', sess[r], moved[r] \union {f}, scene.command[r])
    PROVE  Proceeds(r)
  <1>1. /\ moved[r] \subseteq moved'[r]
        /\ sess[r].pc = "writing" => moved'[r] = moved[r] \union {f}
    BY DEF Moved
  <1>2. DOMAIN sess[r].picked \subseteq Owners /\ sess'[r] = sess[r]
    BY DEF Kept
  <1> QED
    BY <1>1, <1>2 DEF Proceeds, Writing

LEMMA UserWritesKeeps ==
    ASSUME Routed, Kept, NEW q \in Owners, NEW entry, UserWrites(q, entry),
           UNCHANGED <<scene, sess, mine>>, broken \subseteq broken',
           Edit(World, World', q, Entry(disk, q), entry),
           own' = [o \in Owners |-> own'[o]], \A o \in Owners : own'[o] \in Hands(scene)
    PROVE  Kept'
  <1> DEFINE f == ConfigFile(q[1])
             w == World
             v == World'
             x == disk'
  <1>1. /\ disk' = [disk EXCEPT !.config[q[1]][q[2]] = entry] /\ Moved({f}, {})
        /\ IsDisk(disk) /\ IsTable(disk.config)
    BY DEF UserWrites, Routed, Shape, Kept, Tables
  <1>2. /\ IsTable(x.config) /\ x.policy = disk.policy /\ x.state = disk.state
        /\ \A c \in Configs : c # q[1] => x.config[c] = disk.config[c]
        /\ \A o \in Owners : Entry(x, o) = IF o = q THEN entry ELSE Entry(disk, o)
    <2>1. x = WithEntry(disk, q, entry)
      BY <1>1 DEF WithEntry
    <2> HIDE DEF x
    <2>2. IsTable(x.config)
      BY <1>1, <2>1, EditedIs
    <2>3. x.policy = disk.policy /\ x.state = disk.state
      BY <1>1, <2>1, EditedIs
    <2>4. \A c \in Configs : c # q[1] => x.config[c] = disk.config[c]
      BY <1>1, <2>1, EditedIs
    <2>5. Entry(x, q) = entry
      BY <1>1, <2>1, EditedIs
    <2>6. \A o \in Owners : o # q => Entry(x, o) = Entry(disk, o)
      BY <1>1, <2>1, EditedIs
    <2> QED
      BY <2>2, <2>3, <2>4, <2>5, <2>6
  <1>3. v.hand = w.hand /\ v.mine = w.mine /\ w.broken \subseteq v.broken
        /\ NoWrapperByHand(w) /\ Edit(w, v, q, Entry(disk, q), entry)
    BY WorldNext, WorldIs, NoneByHand
  <1>4. Tables'
    <2>1. x.policy = [p \in Paths |-> x.policy[p]]
      BY <1>2 DEF Kept, Tables
    <2> QED
      BY <1>2, <2>1 DEF Tables, Kept
  <1>5. LockFree <=> LockFree'
    BY DEF LockFree
  <1>6. LockFree => AtRest(w, disk)
    BY DEF Kept
  <1>7. ASSUME NEW r \in Sessions, Writing(r)
        PROVE  Works(w, disk, sess[r], moved[r], scene.command[r])
    BY <1>7 DEF Kept
  <1>8. \A o \in Owners : Rec(x, o) = Rec(disk, o)
    BY <1>2 DEF Rec
  <1> HIDE DEF v, w, x, f
  <1>9. Edited(w, v, disk, x, q)
    BY <1>2, <1>3, <1>8 DEF Edited
  <1>10. LockFree' => AtRest(v, x)
    BY <1>3, <1>5, <1>6, <1>9, EditRests
  <1>11. ASSUME NEW r \in Sessions, Writing(r)
         PROVE  Works(v, x, sess[r], moved[r] \union {f}, scene.command[r])
    <2> DEFINE j == sess[r]
               files == moved[r]
               command == scene.command[r]
    <2>1. Works(w, disk, j, files, command)
      BY <1>7, <1>11
    <2> HIDE DEF j, files, command
    <2>2. Works(v, x, j, files \union {f}, command)
      BY <1>3, <1>9, <2>1, EditKeepsWorks DEF f
    <2> QED
      BY <2>2 DEF j, files, command
  <1>12. ASSUME NEW r \in Sessions
         PROVE  Proceeds(r)
    BY <1>1, <1>8, <1>11, EditProceeds DEF v, x
  <1> QED
    BY <1>4, <1>10, <1>12, KeptStays DEF v, x

LEMMA UserReplacesKeeps ==
    ASSUME Routed, Kept, NEW q \in Owners, UserReplaces(q)
    PROVE  Kept'
  <1>1. PICK edit \in scene.edits \union {[entry |-> NoEntry, own |-> NoEntry]} :
           /\ UserWrites(q, edit.entry) /\ own' = [own EXCEPT ![q] = edit.own]
           /\ broken' = IF disk.config[q[1]][q[2]] = own[q] THEN broken
                        ELSE broken \union {PathOf(q)}
           /\ UNCHANGED <<scene, sess, mine>>
    BY DEF UserReplaces
  <1>2. scene \in Scenes /\ own = [o \in Owners |-> own[o]]
        /\ \A o \in Owners : own[o] \in Hands(scene)
    BY DEF Routed, Shape, Kept, Tables
  <1>3. edit.own \in Hands(scene)
    BY DEF Hands
  <1>4. edit.entry = edit.own \/ IsWrapper(edit.entry)
    <2>1. CASE edit \in scene.edits
      BY <1>2, <2>1, SceneAssumption
    <2>2. CASE edit = [entry |-> NoEntry, own |-> NoEntry]
      BY <2>2
    <2> QED
      BY <2>1, <2>2
  <1>5. World.hand = Hands(scene) /\ World'.broken = broken'
    BY <1>1, WorldIs, WorldNext
  <1>6. Plainly(World, edit.entry)
    BY <1>3, <1>4, <1>5 DEF Plainly
  <1>7. Lost(World', q) \/ Entry(disk, q) \in World.hand
    BY <1>1, <1>2, <1>5 DEF Lost, Entry
  <1>8. Edit(World, World', q, Entry(disk, q), edit.entry)
    BY <1>6, <1>7 DEF Edit
  <1>9. own' = [o \in Owners |-> own'[o]] /\ \A o \in Owners : own'[o] \in Hands(scene)
    BY <1>1, <1>2, <1>3
  <1> QED
    BY <1>1, <1>8, <1>9, UserWritesKeeps

LEMMA UserTweaksKeeps ==
    ASSUME Routed, Kept, NEW q \in Owners, UserTweaks(q)
    PROVE  Kept'
  <1> DEFINE e == disk.config[q[1]][q[2]]
  <1>1. /\ ManagedPolicy(e) # "" /\ UserWrites(q, Tweaked(e))
        /\ UNCHANGED <<scene, sess, own, mine, broken>>
    BY DEF UserTweaks
  <1>2. IsWrapper(e)
    <2> HIDE DEF e
    <2> QED
      BY <1>1 DEF ManagedPolicy, ParseEntry, IsWrapper
  <1>3. IsWrapper(Tweaked(e))
    BY <1>2 DEF Tweaked, IsWrapper
  <1>4. Edit(World, World', q, Entry(disk, q), Tweaked(e))
    BY <1>2, <1>3 DEF Edit, Entry
  <1>5. own' = [o \in Owners |-> own'[o]] /\ \A o \in Owners : own'[o] \in Hands(scene)
    BY <1>1 DEF Kept, Tables
  <1> HIDE DEF e
  <1> QED
    BY <1>1, <1>4, <1>5, UserWritesKeeps

LEMMA UserPolicyKeeps ==
    ASSUME Routed, Kept, NEW q \in Paths, UserPolicy(q)
    PROVE  Kept'
  <1> DEFINE f == PolicyFile(q)
             w == World
             v == World'
             x == disk'
             written == \E s \in Sessions : Writing(s) /\ q \in WrittenPaths(s)
             owned == /\ References(disk, q) = {} /\ ~written
                      /\ \A s \in Sessions : Writing(s) => References(sess[s].before, q) = {}
  <1>1. PICK policy :
           /\ disk' = [disk EXCEPT !.policy[q] = policy] /\ Moved({f}, {})
           /\ mine' = IF owned THEN [mine EXCEPT ![q] = policy] ELSE mine
           /\ broken' = IF ~owned /\ (written \/ policy = NoFile) THEN broken \union {q}
                        ELSE broken
           /\ UNCHANGED <<scene, sess, own>>
    BY DEF UserPolicy
  <1>2. /\ IsDisk(disk) /\ IsTable(disk.config) /\ disk.policy = [p \in Paths |-> disk.policy[p]]
        /\ mine = [p \in Paths |-> mine[p]]
    BY DEF Routed, Shape, Kept, Tables
  <1>3. /\ disk'.config = disk.config /\ disk'.state = disk.state
        /\ disk'.policy = [disk.policy EXCEPT ![q] = policy]
    BY <1>1, <1>2 DEF IsDisk
  <1>4. /\ v.hand = w.hand /\ v.broken = broken' /\ w.broken = broken /\ v.mine = mine'
        /\ w.mine = mine
    BY <1>1, WorldNext, WorldIs
  <1>5. disk'.policy[q] = policy /\ \A p \in Paths : p # q => disk'.policy[p] = disk.policy[p]
    BY <1>2, <1>3
  <1>6. \A p \in Paths : p # q => mine'[p] = mine[p]
    BY <1>1, <1>2
  <1>7. Tables'
    <2>1. disk'.policy = [p \in Paths |-> disk'.policy[p]]
      BY <1>2, <1>3
    <2>2. mine' = [p \in Paths |-> mine'[p]]
      BY <1>1, <1>2
    <2> QED
      BY <1>1, <1>3, <2>1, <2>2 DEF Tables, Kept
  <1>8. \A o \in Owners : own'[o] \in Hands(scene)
    BY <1>1 DEF Kept
  <1>9. \A o \in Owners : Rec(x, o) = Rec(disk, o) /\ Entry(x, o) = Entry(disk, o)
    BY <1>3 DEF Rec, Entry
  <1>10. broken \subseteq broken'
    BY <1>1
  <1>11. Rewritten(w, v, disk, x, q)
    BY <1>3, <1>4, <1>5, <1>6, <1>9, <1>10 DEF Rewritten
  <1>12. /\ owned => mine'[q] = x.policy[q]
         /\ ~owned => mine' = mine
         /\ ~owned /\ (written \/ x.policy[q] = NoFile) => q \in broken'
    BY <1>1, <1>2, <1>5
  <1>13. LockFree' => AtRest(v, x)
    <2> SUFFICES ASSUME LockFree PROVE AtRest(v, x)
      BY <1>1 DEF LockFree
    <2>1. AtRest(w, disk)
      BY DEF Kept
    <2>2. ~written /\ (owned <=> References(disk, q) = {})
      BY DEF LockFree, Writing
    <2> HIDE DEF written, owned, v, w, x
    <2>3. Settled(w, v, disk, x, q)
      BY <1>4, <1>12, <2>2 DEF Settled
    <2> QED
      BY <1>11, <2>1, <2>3, RewrittenRests
  <1>14. ASSUME NEW r \in Sessions, Writing(r)
         PROVE  Works(v, x, sess[r], moved[r] \union {f}, scene.command[r])
    <2> DEFINE j == sess[r]
               files == moved[r]
               command == scene.command[r]
    <2>1. Works(w, disk, j, files, command)
      BY <1>14 DEF Kept
    <2>2. written <=> q \in Rewrites(j)
      BY <1>14 DEF Routed, OneWriter, WrittenPaths, Files, Rewrites
    <2>3. owned <=> /\ References(disk, q) = {} /\ q \notin Rewrites(j)
                    /\ References(j.before, q) = {}
      BY <1>14, <2>2 DEF Routed, OneWriter
    <2> HIDE DEF written, owned, v, w, x, j, files, command
    <2>4. q \notin Rewrites(j) => References(disk, q) \subseteq References(j.before, q)
      BY <2>1, NamedBefore
    <2>5. Minds(w, v, disk, x, j, q)
      BY <1>4, <1>12, <2>2, <2>3, <2>4 DEF Minds
    <2>6. Works(v, x, j, files \union {f}, command)
      BY <1>11, <2>1, <2>5, RewrittenKeepsWorks
    <2> QED
      BY <2>6 DEF j, files, command
  <1>15. ASSUME NEW r \in Sessions
         PROVE  Proceeds(r)
    <2> HIDE DEF f
    <2> QED
      BY <1>1, <1>9, <1>14, EditProceeds
  <1> HIDE DEF written, owned, f
  <1>16. UNCHANGED scene
    BY <1>1
  <1> QED
    BY <1>7, <1>8, <1>10, <1>13, <1>15, <1>16, KeptStays

-----------------------------------------------------------------------------
(* All steps.                                                              *)

LEMMA InitKept == Init => Kept
  <1> SUFFICES ASSUME Init PROVE Kept
    OBVIOUS
  <1>1. /\ scene \in Scenes /\ disk.config = scene.entries /\ disk.policy = scene.policies
        /\ disk.state = [c \in Configs |-> [n \in Names |-> NoRecord]]
        /\ own = [o \in Owners |-> scene.entries[o[1]][o[2]]] /\ mine = scene.policies
        /\ sess = [s \in Sessions |-> Idle]
    BY DEF Init
  <1>2. /\ IsTable(scene.entries) /\ scene.policies = [p \in Paths |-> scene.policies[p]]
    BY <1>1, SceneAssumption DEF IsTable
  <1>3. Tables
    BY <1>1, <1>2 DEF Tables
  <1>4. \A o \in Owners : own[o] \in Hands(scene) /\ Entry(disk, o) \in Hands(scene)
    BY <1>1 DEF Hands, Entry
  <1>5. ASSUME NEW o \in Owners
        PROVE  Rec(disk, o) = NoRecord /\ PathOf(o) \in Paths
    <2>1. o[1] \in Configs /\ o[2] \in Names /\ PathOf(o) \in Paths
      BY OwnerParts
    <2>2. disk.state[o[1]][o[2]] = NoRecord
      <3> HIDE DEF NoRecord
      <3> QED
        BY <1>1, <2>1
    <2> QED
      BY <2>1, <2>2 DEF Rec
  <1>6. AtRest(World, disk)
    <2>1. ASSUME NEW o \in Owners
          PROVE  FineIn(World, disk, o)
      BY <1>4, <1>5, WorldIs DEF FineIn, Fine, Plainly
    <2>2. ASSUME NEW p \in Paths
          PROVE  PolicyFine(World, References(disk, p), p, disk.policy[p])
      <3>1. References(disk, p) = {}
        <4>1. p # ""
          BY NoPathIsEmpty
        <4> QED
          BY <1>5, <4>1, NoRecordIs, ReferencesAre
      <3> QED
        BY <1>1, <3>1, WorldIs DEF PolicyFine
    <2> QED
      BY <2>1, <2>2 DEF AtRest
  <1>7. ASSUME NEW s \in Sessions
        PROVE  sess[s].pc = "start" /\ sess[s].picked = <<>>
    BY <1>1 DEF Idle
  <1>8. ASSUME NEW s \in Sessions
        PROVE  /\ DOMAIN sess[s].picked \subseteq Owners /\ ~Writing(s)
               /\ Chooses(World, disk, sess[s], moved[s], scene.command[s])
    BY <1>7, ChoosesNothing DEF Writing
  <1> QED
    BY <1>3, <1>4, <1>6, <1>8 DEF Kept

LEMMA NextKeeps ==
    ASSUME Routed, Kept, Next
    PROVE  Kept'
  <1>1. ASSUME NEW s \in Sessions, Next1(s)
        PROVE  Kept'
    <2>1. CASE AddLoad(s)
      BY <2>1, AddLoadKeeps
    <2>2. CASE AddChoose(s)
      BY <2>2, AddChooseKeeps
    <2>3. CASE ManualLoad(s)
      BY <2>3, ManualLoadKeeps
    <2>4. CASE RestoreLoad(s)
      BY <2>4, RestoreLoadKeeps
    <2>5. CASE AddPlan(s) \/ ManualPlan(s) \/ RestorePlan(s)
      BY <2>5, PlansKeep
    <2>6. CASE Cancel(s)
      BY <2>6, QuitKeeps DEF Cancel, Writing
    <2>7. CASE Refused(s)
      BY <2>7, QuitKeeps DEF Refused, LockFree, Writing
    <2>8. CASE Write(s)
      BY <2>8, WriteKeeps
    <2>9. CASE Finish(s)
      BY <2>9, FinishKeeps
    <2>10. CASE Fail(s)
      BY <2>10, RollBackKeeps DEF Fail
    <2> QED
      BY <1>1, <2>1, <2>2, <2>3, <2>4, <2>5, <2>6, <2>7, <2>8, <2>9, <2>10 DEF Next1
  <1>2. ASSUME NEW s \in Sessions, Abort(s)
        PROVE  Kept'
    BY <1>2, RollBackKeeps DEF Abort
  <1>3. ASSUME NEW s \in Sessions, Crash(s)
        PROVE  Kept'
    BY <1>3, CrashKeeps
  <1>4. ASSUME NEW o \in Owners, UserReplaces(o) \/ UserTweaks(o)
        PROVE  Kept'
    BY <1>4, UserReplacesKeeps, UserTweaksKeeps
  <1>5. ASSUME NEW p \in Paths, UserPolicy(p)
        PROVE  Kept'
    BY <1>5, UserPolicyKeeps
  <1> QED
    BY <1>1, <1>2, <1>3, <1>4, <1>5 DEF Next

LEMMA StutterKeeps ==
    ASSUME Routed, Kept, UNCHANGED vars
    PROVE  Kept'
  <1>1. UNCHANGED <<scene, disk, sess, moved, own, mine, broken>>
    BY DEF vars
  <1>2. World' = World /\ (LockFree' <=> LockFree) /\ Tables'
    BY <1>1 DEF World, LockFree, Kept, Tables
  <1>3. (LockFree' => AtRest(World', disk')) /\ \A o \in Owners : own'[o] \in Hands(scene)
    BY <1>1, <1>2 DEF Kept
  <1>4. ASSUME NEW r \in Sessions
        PROVE  Proceeds(r)
    BY <1>1, <1>2 DEF Proceeds, Kept, Writing
  <1> QED
    BY <1>1, <1>2, <1>3, <1>4, KeptStays

LEMMA AlwaysKept == Spec => [](Routed /\ Kept)
  <1>1. Init => Kept
    BY InitKept
  <1>2. Routed /\ Kept /\ [Next]_vars => Kept'
    BY NextKeeps, StutterKeeps
  <1> QED
    BY <1>1, <1>2, AlwaysRouted, PTL DEF Spec

(* A step of a session is its own; only a write adds to what it has written. *)
LEMMA StepsBecome ==
    ASSUME NEW r \in Sessions, Next1(r) \/ Abort(r) \/ Crash(r)
    PROVE  \E session : Becomes(r, session)
  <1>1. CASE AddLoad(r) \/ AddChoose(r)
    BY <1>1, Zenon DEF AddLoad, AddChoose
  <1>2. CASE AddPlan(r) \/ ManualPlan(r)
    BY <1>2, Zenon DEF AddPlan, ManualPlan, BeginSetup, Begin
  <1>3. CASE RestorePlan(r)
    BY <1>3, Zenon DEF RestorePlan, BeginRestore, Begin
  <1>4. CASE ManualLoad(r)
    BY <1>4, Zenon DEF ManualLoad
  <1>5. CASE RestoreLoad(r)
    BY <1>5, Zenon DEF RestoreLoad
  <1>6. CASE Cancel(r) \/ Refused(r) \/ Finish(r) \/ Crash(r)
    BY <1>6, Zenon DEF Cancel, Refused, Finish, Crash, Ends
  <1>7. CASE Write(r)
    BY <1>7, Zenon DEF Write
  <1>8. CASE Fail(r) \/ Abort(r)
    BY <1>8, Zenon DEF Fail, Abort, RollBack
  <1> QED
    BY <1>1, <1>2, <1>3, <1>4, <1>5, <1>6, <1>7, <1>8 DEF Next1

LEMMA OnlyWritesWrite ==
    ASSUME Routed, Next, NEW s \in Sessions, Writing(s), NEW f,
           f \in sess'[s].written, f \notin sess[s].written
    PROVE  Write(s)
  <1>1. ASSUME NEW r \in Sessions, r # s, Next1(r) \/ Abort(r) \/ Crash(r)
        PROVE  sess'[s] = sess[s]
    BY <1>1, StepsBecome, BecomesIs DEF Routed
  <1>2. ASSUME Becomes(s, [Idle EXCEPT !.pc = "ended"])
        PROVE  FALSE
    <2>1. [Idle EXCEPT !.pc = "ended"].written = {}
      BY DEF Idle
    <2> QED
      BY <1>2, <2>1, BecomesIs DEF Routed
  <1>3. CASE Next1(s) \/ Abort(s) \/ Crash(s)
    <2>1. ~(AddLoad(s) \/ AddChoose(s) \/ ManualLoad(s) \/ RestoreLoad(s))
      BY DEF AddLoad, AddChoose, ManualLoad, RestoreLoad, Runs, Writing
    <2>2. ~(AddPlan(s) \/ ManualPlan(s) \/ RestorePlan(s))
      BY DEF AddPlan, ManualPlan, RestorePlan, Runs, Writing
    <2>3. ~(Cancel(s) \/ Refused(s))
      BY DEF Cancel, Refused, LockFree, Writing
    <2>4. ~(Finish(s) \/ Crash(s))
      BY <1>2 DEF Finish, Crash, Ends
    <2>5. ~(Fail(s) \/ Abort(s))
      BY <1>2 DEF Fail, Abort, RollBack
    <2> QED
      BY <1>3, <2>1, <2>2, <2>3, <2>4, <2>5 DEF Next1
  <1>4. ASSUME NEW o \in Owners, UserReplaces(o) \/ UserTweaks(o)
        PROVE  UNCHANGED sess
    BY <1>4, Zenon DEF UserReplaces, UserTweaks
  <1>5. ASSUME NEW p \in Paths, UserPolicy(p)
        PROVE  UNCHANGED sess
    BY <1>5, Zenon DEF UserPolicy
  <1> QED
    BY <1>1, <1>3, <1>4, <1>5 DEF Next

(* A step that writes for a restore writes what the user had. *)
LEMMA RestoreWritesOwn ==
    ASSUME Routed, Kept, Next, NEW s \in Sessions, NEW p \in Paths,
           scene.command[s] = "restore", Writing(s),
           PolicyFile(p) \in sess'[s].written \ sess[s].written, p \notin broken
    PROVE  disk'.policy[p] = mine[p]
  <1>1. Write(s)
    BY OnlyWritesWrite
  <1>2. PICK f \in Due(s) \ moved[s] :
           /\ f \in sess[s].files /\ disk' = Copy(disk, {f}, sess[s].after)
           /\ Wrote(sess[s], sess'[s], f)
    BY <1>1, Writes
  <1>3. f = PolicyFile(p)
    BY <1>2 DEF Wrote
  <1>4. p \in Rewrites(sess[s])
    BY <1>2, <1>3 DEF Rewrites
  <1>5. Works(World, disk, sess[s], moved[s], "restore")
    BY DEF Kept
  <1>6. sess[s].after.policy[p] = mine[p]
    BY <1>4, <1>5, WorldIs DEF Works
  <1>7. disk'.policy[p] = sess[s].after.policy[p]
    <2>1. IsDisk(disk)
      BY DEF Routed, Shape
    <2> QED
      BY <1>2, <1>3, <2>1, CopyEntries
  <1> QED
    BY <1>6, <1>7

(* What RestoresOwnPolicy says of the code: planSelectedRestore never writes a   *)
(* policy but the one that was there before setup, whatever setups, adoptions,   *)
(* rollbacks, crashes and edits of the user's went before, in any order.         *)
THEOREM OwnPolicyComesBack == Spec => RestoresOwnPolicy
  <1> DEFINE Own == \A s \in Sessions, p \in Paths :
                      /\ scene.command[s] = "restore" /\ Writing(s)
                      /\ PolicyFile(p) \in sess'[s].written \ sess[s].written /\ p \notin broken
                      => disk'.policy[p] = mine[p]
  <1>1. ASSUME Routed /\ Kept, [Next]_vars PROVE [Own]_vars
    <2>1. CASE Next
      BY <1>1, <2>1, RestoreWritesOwn
    <2>2. CASE UNCHANGED vars
      BY <2>2
    <2> QED
      BY <1>1, <2>1, <2>2
  <1> HIDE DEF Own
  <1>2. Spec => [][Own]_vars
    BY <1>1, AlwaysKept, PTL DEF Spec
  <1> QED
    BY <1>2 DEF RestoresOwnPolicy, Own

=============================================================================
