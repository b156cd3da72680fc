--------------------------- MODULE AuditLog_proofs ---------------------------
(***************************************************************************)
(* Proofs about AuditLog: for any number of processes and appends. What    *)
(* makes it work is that a row is chained to the last one its process      *)
(* knows: the rows of a file that loads are in the order of their trying   *)
(* (InOrder), so that a process whose new row still fits knows the whole   *)
(* file (KnowsAll), and a row of any other damages the file for good.      *)
(***************************************************************************)
EXTENDS AuditLog, SequenceTheorems, TLAPS

Good(f) == (\A i \in 1 .. Len(f) : Parses(f[i])) /\ Chained(RowsOf(f))

\* s is the beginning of t.
Begins(s, t) == Len(s) <= Len(t) /\ \A i \in 1 .. Len(s) : s[i] = t[i]

\* No line is without anything written to it.
LinesWritten ==
    /\ \A i \in 1 .. Len(file) : Len(file[i]) > 0
    /\ ~ended => Len(file) > 0

InOrder ==
    LET s == Loaded(file)
    IN  Good(file) => /\ \A i \in 1 .. Len(s) : s[i].id <= tried
                      /\ \A i, j \in 1 .. Len(s) : i < j => s[i].id < s[j].id

\* The acknowledged rows are in the log in their order.
Within(s, t) ==
    \E at \in [1 .. Len(s) -> 1 .. Len(t)] :
        /\ \A i \in 1 .. Len(s) : t[at[i]] = s[i]
        /\ \A i, j \in 1 .. Len(s) : i < j => at[i] < at[j]
AckedWithin == Good(file) => Within(acked, Loaded(file))

ShownBegins == Good(file) => \A p \in open : Begins(rows[p], Loaded(file))

CalmIsComplete ==
    calm => /\ ended /\ Loaded(file) = acked
            /\ \A p \in open : rows[p] = acked
            /\ \A p, q \in open : p = q

LogIInv ==
    /\ AuditTypeOK /\ LinesWritten /\ InOrder
    /\ AckedWithin /\ ShownBegins /\ CalmIsComplete

------------------------------------------------------------------------------
(* What a file says, and what one more piece of writing makes of it.        *)

Lines == Seq(Seq(Rows \union {Piece}))

LEMMA RowFacts ==
    /\ \A row \in Rows : row.id \in 1 .. MaxRows /\ row # Piece /\ row.id # Genesis
    /\ MaxRows \in Nat
BY UnlikeRows, AuditAssumption DEF Rows

\* Chained, without the recursion through the beginnings of the log.
LEMMA ChainedByPairs ==
    ASSUME NEW s \in Seq(Rows)
    PROVE  Chained(s) <=> \A i \in 1 .. Len(s) :
                            s[i].prev = IF i = 1 THEN Genesis ELSE s[i - 1].id
<1>1. ASSUME NEW i \in 1 .. Len(s)
      PROVE  LastId(SubSeq(s, 1, i - 1)) = IF i = 1 THEN Genesis ELSE s[i - 1].id
  <2>1. i - 1 \in Int /\ \A j \in 1 .. i - 1 : s[j] \in Rows
    BY <1>1
  <2> DEFINE b == SubSeq(s, 1, i - 1)
  <2>2. /\ b \in Seq(Rows)
        /\ Len(b) = IF 1 <= i - 1 THEN i - 1 ELSE 0
        /\ \A j \in 1 .. i - 1 : b[j] = s[j]
    <3>1. /\ b \in Seq(Rows)
          /\ Len(b) = IF 1 <= i - 1 THEN (i - 1) - 1 + 1 ELSE 0
          /\ \A j \in 1 .. (i - 1) - 1 + 1 : b[j] = s[1 + j - 1]
      BY <2>1, SubSeqProperties
    <3> QED
      BY <3>1, <1>1
  <2> HIDE DEF b
  <2>3. CASE i = 1
    <3>1. b = <<>>
      BY <2>2, <2>3
    <3> QED
      BY <2>3, <3>1 DEF LastId, b
  <2>4. CASE i # 1
    <3>1. Len(b) = i - 1 /\ b # <<>> /\ b[i - 1] = s[i - 1]
      BY <1>1, <2>2, <2>4
    <3> QED
      BY <2>4, <3>1 DEF LastId, b
  <2> QED
    BY <2>3, <2>4
<1> QED
  BY <1>1 DEF Chained

AllParse(f) == \A i \in 1 .. Len(f) : Parses(f[i])

LEMMA RowsTyped ==
    ASSUME NEW f \in Lines, AllParse(f)
    PROVE  RowsOf(f) \in Seq(Rows) /\ \A i \in 1 .. Len(f) : f[i][1] \in Rows
<1>1. ASSUME NEW i \in 1 .. Len(f)
      PROVE  f[i][1] \in Rows
  <2>1. Len(f[i]) = 1 /\ f[i][1] # Piece /\ f[i] \in Seq(Rows \union {Piece})
    BY <1>1 DEF AllParse, Parses, Lines
  <2> QED
    BY <2>1
<1>2. RowsOf(f) = [i \in 1 .. Len(f) |-> f[i][1]] /\ Len(f) \in Nat
  BY DEF RowsOf, Lines
<1> QED
  BY <1>1, <1>2

\* A file that is good is read as its rows, and any other is refused.
LEMMA Reading ==
    ASSUME NEW f \in Lines
    PROVE  /\ Good(f) => Loaded(f) = RowsOf(f) /\ Loaded(f) \in Seq(Rows)
           /\ Good(f) <=> Loaded(f) # Refused
           /\ ~Good(f) => Loaded(f) = Refused
<1>1. Good(f) => RowsOf(f) \in Seq(Rows)
  BY RowsTyped DEF Good, AllParse
<1>2. Loaded(f) = IF Good(f) THEN RowsOf(f) ELSE Refused
  BY DEF Loaded, Good
<1> QED
  BY <1>1, <1>2, UnlikeRows

\* What is written after the end of a line is one more row, if it is a row that
\* follows the last; whatever is written on a line without an end is damage.
LEMMA Extending ==
    ASSUME AuditTypeOK, LinesWritten, NEW what \in Rows \union {Piece}
    PROVE  LET g == Extended(what)
           IN  /\ g \in Lines /\ Len(g) > 0 /\ \A i \in 1 .. Len(g) : Len(g[i]) > 0
               /\ Good(g) <=> /\ Good(file) /\ ended /\ what # Piece
                              /\ what.prev = LastId(RowsOf(file))
               /\ Good(g) => Loaded(g) = Append(Loaded(file), what)
<1> DEFINE g == Extended(what)
           n == Len(file)
<1>1. file \in Lines /\ n \in Nat /\ <<what>> \in Seq(Rows \union {Piece})
  BY DEF AuditTypeOK, Lines
<1>2. CASE ended
  <2>1. g = Append(file, <<what>>)
    BY <1>2 DEF Extended
  <2>2. /\ g \in Lines /\ Len(g) = n + 1 /\ g[n + 1] = <<what>>
        /\ \A i \in 1 .. n : g[i] = file[i]
    BY <1>1, <2>1 DEF Lines
  <2>3. Len(g) > 0 /\ \A i \in 1 .. Len(g) : Len(g[i]) > 0
    <3>1. ASSUME NEW i \in 1 .. n + 1
          PROVE  Len(g[i]) > 0
      <4>1. CASE i = n + 1
        BY <2>2, <4>1
      <4>2. CASE i # n + 1
        <5>1. i \in 1 .. n
          BY <1>1, <4>2
        <5>2. g[i] = file[i] /\ Len(file[i]) > 0
          BY <2>2, <5>1 DEF LinesWritten
        <5> QED
          BY <5>2
      <4> QED
        BY <4>1, <4>2
    <3> HIDE DEF g
    <3> QED
      BY <1>1, <2>2, <3>1
  <2> HIDE DEF g
  <2>4. Parses(<<what>>) <=> what # Piece
    BY DEF Parses
  <2>5. AllParse(g) <=> AllParse(file) /\ what # Piece
    BY <1>1, <2>2, <2>4 DEF AllParse
  <2>6. ASSUME AllParse(file), what # Piece
        PROVE  /\ RowsOf(g) = Append(RowsOf(file), what)
               /\ Chained(RowsOf(g))
                    <=> Chained(RowsOf(file)) /\ what.prev = LastId(RowsOf(file))
    <3> DEFINE s == RowsOf(file)
               t == RowsOf(g)
    <3>1. s \in Seq(Rows) /\ t \in Seq(Rows) /\ what \in Rows
      BY <1>1, <2>2, <2>5, <2>6, RowsTyped
    <3>2. Len(s) = n /\ Len(t) = n + 1
      BY <1>1, <2>2 DEF RowsOf
    <3>3. /\ \A i \in 1 .. n : t[i] = s[i]
          /\ t[n + 1] = what
      BY <1>1, <2>2 DEF RowsOf
    <3> HIDE DEF s, t
    <3>4. t = Append(s, what)
      BY <1>1, <3>1, <3>2, <3>3
    <3>5. LastId(s) = IF n + 1 = 1 THEN Genesis ELSE t[n].id
      BY <1>1, <3>1, <3>2, <3>3 DEF LastId
    <3>6. \A i \in 1 .. n : /\ t[i].prev = s[i].prev
                            /\ i # 1 => t[i - 1].id = s[i - 1].id
      BY <1>1, <3>3
    <3>7. Chained(t) <=> /\ \A i \in 1 .. n :
                              t[i].prev = IF i = 1 THEN Genesis ELSE t[i - 1].id
                         /\ what.prev = IF n + 1 = 1 THEN Genesis ELSE t[n].id
      BY <1>1, <3>1, <3>2, <3>3, ChainedByPairs
    <3>8. Chained(s) <=> \A i \in 1 .. n :
                              s[i].prev = IF i = 1 THEN Genesis ELSE s[i - 1].id
      BY <3>1, <3>2, ChainedByPairs
    <3> QED
      BY <3>4, <3>5, <3>6, <3>7, <3>8 DEF s, t
  <2>7. Good(g) <=> Good(file) /\ what # Piece /\ what.prev = LastId(RowsOf(file))
    BY <2>5, <2>6 DEF Good, AllParse
  <2>8. Good(g) => Loaded(g) = Append(Loaded(file), what)
    BY <1>1, <2>2, <2>6, <2>7, Reading DEF Good, AllParse
  <2> QED
    BY <1>2, <2>2, <2>3, <2>7, <2>8 DEF g
<1>3. CASE ~ended
  <2>1. g = [file EXCEPT ![n] = Append(@, what)] /\ n >= 1
    BY <1>1, <1>3 DEF Extended, LinesWritten, Lines
  <2>2. file[n] \in Seq(Rows \union {Piece}) /\ Len(file[n]) > 0
    BY <1>1, <2>1 DEF Lines, LinesWritten
  <2>3. /\ g \in Lines /\ Len(g) = n /\ g[n] = Append(file[n], what)
        /\ \A i \in 1 .. n : i # n => g[i] = file[i]
    BY <1>1, <2>1, <2>2 DEF Lines
  <2>a. n \in Nat /\ n \in 1 .. n /\ Len(g) = n /\ Len(g) > 0
    <3> HIDE DEF g, n
    <3> QED
      BY <1>1, <2>1, <2>3
  <2>4. Len(g[n]) > 0 /\ Len(g[n]) # 1
    BY <2>2, <2>3
  <2> HIDE DEF g
  <2>5. Len(g) > 0 /\ \A i \in 1 .. Len(g) : Len(g[i]) > 0
    <3>1. ASSUME NEW i \in 1 .. n
          PROVE  Len(g[i]) > 0
      <4>1. CASE i = n
        BY <2>4, <4>1
      <4>2. CASE i # n
        <5>1. g[i] = file[i] /\ Len(file[i]) > 0
          BY <2>3, <4>2 DEF LinesWritten
        <5> QED
          BY <5>1
      <4> QED
        BY <4>1, <4>2
    <3> QED
      BY <2>a, <3>1
  <2>6. ~Parses(g[n])
    BY <2>4 DEF Parses
  <2>7. ~Good(g)
    <3>1. n \in 1 .. Len(g)
      BY <2>a
    <3> QED
      BY <2>6, <3>1 DEF Good
  <2> QED
    BY <1>3, <2>3, <2>5, <2>7 DEF g
<1> QED
  BY <1>2, <1>3

------------------------------------------------------------------------------
(* The invariant.                                                           *)

LEMMA InitLogIInv == AuditInit => LogIInv
<1> SUFFICES ASSUME AuditInit
             PROVE  LogIInv
  OBVIOUS
<1>1. /\ file = <<>> /\ ended = TRUE /\ open = {} /\ rows = [p \in Processes |-> <<>>]
      /\ tried = 0 /\ acked = <<>> /\ calm = TRUE
  BY DEF AuditInit
<1>2. AuditTypeOK
  BY <1>1, RowFacts DEF AuditTypeOK
<1>3. RowsOf(file) = <<>>
  BY <1>1 DEF RowsOf
<1>4. Good(file)
  BY <1>1, <1>3 DEF Good, Chained
<1>5. Loaded(file) = <<>>
  BY <1>2, <1>3, <1>4, Reading DEF AuditTypeOK, Lines
<1>6. Within(<<>>, <<>>)
  <2> DEFINE none == [i \in 1 .. Len(<<>>) |-> i]
  <2>1. none \in [1 .. Len(<<>>) -> 1 .. Len(<<>>)]
    OBVIOUS
  <2>2. /\ \A i \in 1 .. Len(<<>>) : <<>>[none[i]] = <<>>[i]
        /\ \A i, j \in 1 .. Len(<<>>) : i < j => none[i] < none[j]
    OBVIOUS
  <2> QED
    BY <2>1, <2>2 DEF Within
<1> QED
  BY <1>1, <1>2, <1>5, <1>6
     DEF LogIInv, LinesWritten, InOrder, AckedWithin, ShownBegins, CalmIsComplete

LEMMA LogFacts ==
    ASSUME LogIInv
    PROVE  /\ AuditTypeOK /\ LinesWritten /\ InOrder
           /\ AckedWithin /\ ShownBegins /\ CalmIsComplete
           /\ file \in Lines /\ tried \in Nat
           /\ Good(file) => Loaded(file) \in Seq(Rows) /\ Loaded(file) = RowsOf(file)
BY Reading, RowFacts DEF LogIInv, AuditTypeOK, Lines

\* A process whose next row follows the last one of the file knows all of it.
LEMMA KnowsAll ==
    ASSUME LogIInv, Good(file), NEW p \in open, LastId(rows[p]) = LastId(Loaded(file))
    PROVE  rows[p] = Loaded(file)
<1> DEFINE s == rows[p]
           t == Loaded(file)
<1>1. s \in Seq(Rows) /\ t \in Seq(Rows) /\ Len(s) \in Nat /\ Len(t) \in Nat
  BY LogFacts DEF AuditTypeOK
<1>2. Len(s) <= Len(t) /\ \A i \in 1 .. Len(s) : s[i] = t[i]
  BY LogFacts DEF ShownBegins, Begins
<1>3. \A i, j \in 1 .. Len(t) : i < j => t[i].id < t[j].id
  BY LogFacts DEF InOrder
<1>4. \A i \in 1 .. Len(t) : t[i].id \in Nat /\ t[i].id # Genesis
  <2>1. \A i \in 1 .. Len(t) : t[i] \in Rows
    BY <1>1
  <2>2. \A row \in Rows : row.id \in Nat /\ row.id # Genesis
    BY RowFacts
  <2> QED
    BY <2>1, <2>2
<1> HIDE DEF s, t
<1>5. ASSUME Len(s) < Len(t)
      PROVE  FALSE
  <2>1. LastId(t) = t[Len(t)].id /\ Len(t) \in 1 .. Len(t)
    BY <1>1, <1>5 DEF LastId
  <2>2. CASE Len(s) = 0
    <3>1. LastId(s) = Genesis
      BY <1>1, <2>2 DEF LastId
    <3> QED
      BY <1>4, <2>1, <3>1 DEF s, t
  <2>3. CASE Len(s) # 0
    <3>1. Len(s) \in 1 .. Len(s) /\ Len(s) \in 1 .. Len(t)
      BY <1>1, <1>5, <2>3
    <3>2. LastId(s) = t[Len(s)].id
      BY <1>1, <1>2, <2>3, <3>1 DEF LastId
    <3>3. t[Len(s)].id < t[Len(t)].id
      BY <1>3, <1>5, <2>1, <3>1
    <3> QED
      BY <1>4, <2>1, <3>1, <3>2, <3>3 DEF s, t
  <2> QED
    BY <2>2, <2>3
<1>6. Len(s) = Len(t)
  BY <1>1, <1>2, <1>5
<1>7. s = t
  BY <1>1, <1>2, <1>6, SeqEqual
<1> QED
  BY <1>7 DEF s, t

LEMMA WithinGrows ==
    ASSUME NEW s \in Seq(Rows), NEW t \in Seq(Rows), NEW row \in Rows, Within(s, t)
    PROVE  Within(s, Append(t, row)) /\ Within(Append(s, row), Append(t, row))
<1> DEFINE m == Len(s)
           n == Len(t)
<1>1. PICK at \in [1 .. m -> 1 .. n] :
        /\ \A i \in 1 .. m : t[at[i]] = s[i]
        /\ \A i, j \in 1 .. m : i < j => at[i] < at[j]
  BY DEF Within
<1>2. /\ m \in Nat /\ n \in Nat
      /\ Len(Append(s, row)) = m + 1 /\ Len(Append(t, row)) = n + 1
      /\ \A i \in 1 .. m : Append(s, row)[i] = s[i]
      /\ \A i \in 1 .. n : Append(t, row)[i] = t[i]
      /\ Append(s, row)[m + 1] = row /\ Append(t, row)[n + 1] = row
  OBVIOUS
<1> HIDE DEF m, n
<1>3. Within(s, Append(t, row))
  <2>1. at \in [1 .. m -> 1 .. n + 1]
    BY <1>1, <1>2
  <2>2. \A i \in 1 .. m : Append(t, row)[at[i]] = s[i]
    BY <1>1, <1>2
  <2> QED
    BY <1>1, <1>2, <2>1, <2>2 DEF Within, m
<1>4. Within(Append(s, row), Append(t, row))
  <2> DEFINE more == [i \in 1 .. m + 1 |-> IF i = m + 1 THEN n + 1 ELSE at[i]]
  <2>1. more \in [1 .. m + 1 -> 1 .. n + 1]
    BY <1>1, <1>2
  <2>2. more[m + 1] = n + 1 /\ \A i \in 1 .. m : more[i] = at[i] /\ at[i] \in 1 .. n
    BY <1>1, <1>2
  <2> HIDE DEF more
  <2>3. ASSUME NEW i \in 1 .. m + 1
        PROVE  Append(t, row)[more[i]] = Append(s, row)[i]
    <3>1. CASE i = m + 1
      BY <1>2, <2>2, <3>1
    <3>2. CASE i # m + 1
      <4>1. i \in 1 .. m
        BY <1>2, <3>2
      <4> QED
        BY <1>1, <1>2, <2>2, <4>1
    <3> QED
      BY <3>1, <3>2
  <2>4. ASSUME NEW i \in 1 .. m + 1, NEW j \in 1 .. m + 1, i < j
        PROVE  more[i] < more[j]
    <3>1. i \in 1 .. m
      BY <1>2, <2>4
    <3>2. CASE j = m + 1
      BY <1>2, <2>2, <3>1, <3>2
    <3>3. CASE j # m + 1
      <4>1. j \in 1 .. m
        BY <1>2, <3>3
      <4> QED
        BY <1>1, <2>2, <2>4, <3>1, <4>1
    <3> QED
      BY <3>2, <3>3
  <2> QED
    BY <1>2, <2>1, <2>3, <2>4 DEF Within
<1> QED
  BY <1>3, <1>4

LEMMA LaterIsSame == Good(file)' = Good(file') /\ Loaded(file)' = Loaded(file')
BY DEF Good, Loaded, Parses, Chained, RowsOf, LastId

\* The row of p reaches the file whole, by an append that returns or does not.
Writes(p) ==
    /\ p \in open
    /\ tried < MaxRows /\ tried' = tried + 1
    /\ file' = Extended(NewRow(p))

LEMMA NewRowIsRow ==
    ASSUME LogIInv, NEW p \in open, tried < MaxRows
    PROVE  /\ NewRow(p) \in Rows /\ NewRow(p).id = tried + 1
           /\ NewRow(p).prev = LastId(rows[p])
           /\ rows[p] \in Seq(Rows)
<1>1. rows[p] \in Seq(Rows)
  BY LogFacts DEF AuditTypeOK
<1>2. LastId(rows[p]) \in Ids
  <2>1. CASE rows[p] = <<>>
    BY <2>1 DEF LastId, Ids
  <2>2. CASE rows[p] # <<>>
    <3>1. rows[p][Len(rows[p])] \in Rows
      BY <1>1, <2>2
    <3> QED
      BY <2>2, <3>1 DEF LastId, Ids, Rows
  <2> QED
    BY <2>1, <2>2
<1>3. tried + 1 \in 1 .. MaxRows
  BY LogFacts, RowFacts DEF AuditTypeOK
<1> QED
  BY <1>1, <1>2, <1>3 DEF NewRow, Rows

\* If the file still loads, the row follows what p knows, which was all of it.
LEMMA WriteEffect ==
    ASSUME LogIInv, NEW p, Writes(p)
    PROVE  /\ file' \in Lines /\ Len(file') > 0
           /\ \A i \in 1 .. Len(file') : Len(file'[i]) > 0
           /\ Good(file') <=> Good(file) /\ ended /\ rows[p] = Loaded(file)
           /\ Good(file') => Loaded(file') = Append(Loaded(file), NewRow(p))
           /\ InOrder'
<1> DEFINE row == NewRow(p)
           s == Loaded(file)
           t == Loaded(file')
<1>1. /\ row \in Rows /\ row.id = tried + 1 /\ row.prev = LastId(rows[p])
      /\ row # Piece /\ p \in open /\ tried' = tried + 1 /\ tried \in Nat
  BY NewRowIsRow, LogFacts, RowFacts DEF Writes
<1>2. file' = Extended(row)
  BY DEF Writes
<1> HIDE DEF row
<1>3. /\ file' \in Lines /\ Len(file') > 0
      /\ \A i \in 1 .. Len(file') : Len(file'[i]) > 0
      /\ Good(file') <=> /\ Good(file) /\ ended /\ row # Piece
                         /\ row.prev = LastId(RowsOf(file))
      /\ Good(file') => t = Append(s, row)
  BY <1>1, <1>2, LogFacts, Extending
<1>4. Good(file') <=> Good(file) /\ ended /\ rows[p] = Loaded(file)
  BY <1>1, <1>3, LogFacts, KnowsAll
<1>5. InOrder'
  <2>1. SUFFICES ASSUME Good(file')
                 PROVE  /\ \A i \in 1 .. Len(t) : t[i].id <= tried + 1
                        /\ \A i, j \in 1 .. Len(t) : i < j => t[i].id < t[j].id
    BY <1>1, LaterIsSame DEF InOrder
  <2>2. t = Append(s, row) /\ s \in Seq(Rows)
    BY <1>3, <2>1, LogFacts
  <2> DEFINE n == Len(s)
  <2>3. /\ n \in Nat /\ Len(t) = n + 1 /\ t[n + 1] = row
        /\ \A i \in 1 .. n : t[i] = s[i] /\ s[i] \in Rows
    BY <2>2
  <2>4. /\ \A i \in 1 .. n : s[i].id <= tried
        /\ \A i, j \in 1 .. n : i < j => s[i].id < s[j].id
    BY <1>3, <2>1, LogFacts DEF InOrder
  <2>5. \A i \in 1 .. n : s[i].id \in Nat
    BY <2>3, RowFacts
  <2> HIDE DEF s, t, n
  <2>6. ASSUME NEW i \in 1 .. n + 1
        PROVE  t[i].id <= tried + 1
    <3>1. i = n + 1 \/ i \in 1 .. n
      BY <2>3
    <3> QED
      BY <1>1, <2>3, <2>4, <2>5, <3>1
  <2>7. ASSUME NEW i \in 1 .. n + 1, NEW j \in 1 .. n + 1, i < j
        PROVE  t[i].id < t[j].id
    <3>1. i \in 1 .. n /\ (j = n + 1 \/ j \in 1 .. n)
      BY <2>3, <2>7
    <3> QED
      BY <1>1, <2>3, <2>4, <2>5, <2>7, <3>1
  <2> QED
    BY <2>3, <2>6, <2>7 DEF n, t
<1> QED
  BY <1>3, <1>4, <1>5 DEF row

LEMMA BeginsGrows ==
    ASSUME NEW s \in Seq(Rows), NEW t \in Seq(Rows), NEW row \in Rows
    PROVE  /\ Begins(s, s)
           /\ Begins(s, t) => Begins(s, Append(t, row))
BY DEF Begins

\* A log that is calm is good.
LEMMA CalmIsGood ==
    ASSUME LogIInv, calm
    PROVE  /\ Good(file) /\ ended /\ Loaded(file) = acked /\ acked \in Seq(Rows)
           /\ \A p \in open : rows[p] = acked
           /\ \A p, q \in open : p = q
<1>1. /\ ended /\ Loaded(file) = acked /\ acked \in Seq(Rows)
      /\ \A p \in open : rows[p] = acked
      /\ \A p, q \in open : p = q
  BY LogFacts DEF CalmIsComplete, AuditTypeOK
<1> QED
  BY <1>1, LogFacts, Reading, UnlikeRows

LEMMA BuildKeeps == ASSUME LogIInv, NEW p \in Processes, Build(p) PROVE LogIInv'
<1>1. /\ open' = open \union {p} /\ rows' = [rows EXCEPT ![p] = Loaded(file)]
      /\ file' = file /\ ended' = ended /\ tried' = tried /\ acked' = acked
      /\ calm' = (calm /\ open = {}) /\ p \notin open
  BY DEF Build
<1>2. Good(file) /\ Loaded(file) \in Seq(Rows)
  BY LogFacts, Reading DEF Build
<1>3. AuditTypeOK'
  BY <1>1, <1>2, LogFacts DEF AuditTypeOK
<1>4. LinesWritten' /\ InOrder' /\ AckedWithin'
  BY <1>1, LogFacts, LaterIsSame DEF LinesWritten, InOrder, AckedWithin
<1>5. /\ rows'[p] = Loaded(file)
      /\ \A q \in open : rows'[q] = rows[q]
  BY <1>1, LogFacts DEF AuditTypeOK
<1>6. ShownBegins'
  <2>1. ASSUME NEW q \in open'
        PROVE  Begins(rows'[q], Loaded(file))
    <3>1. CASE q = p
      BY <1>2, <1>5, <3>1 DEF Begins
    <3>2. CASE q # p
      BY <1>1, <1>2, <1>5, <3>2, <2>1, LogFacts DEF ShownBegins
    <3> QED
      BY <3>1, <3>2
  <2> QED
    BY <1>1, <2>1, LaterIsSame DEF ShownBegins
<1>7. CalmIsComplete'
  <2>1. SUFFICES ASSUME calm, open = {}
                 PROVE  /\ ended' /\ Loaded(file') = acked'
                        /\ \A q \in open' : rows'[q] = acked'
                        /\ \A q, r \in open' : q = r
    BY <1>1, LaterIsSame DEF CalmIsComplete
  <2> QED
    BY <1>1, <1>5, <2>1, CalmIsGood
<1> QED
  BY <1>3, <1>4, <1>6, <1>7 DEF LogIInv

LEMMA AppendKeeps == ASSUME LogIInv, NEW p \in Processes, AppendRow(p) PROVE LogIInv'
<1> DEFINE row == NewRow(p)
<1>1. /\ Writes(p) /\ p \in open /\ tried < MaxRows /\ tried' = tried + 1
      /\ ended' = TRUE /\ open' = open /\ calm' = calm
      /\ rows' = [rows EXCEPT ![p] = Append(@, row)] /\ acked' = Append(acked, row)
  BY DEF AppendRow, Writes, Trying, Remembers
<1>2. row \in Rows /\ rows[p] \in Seq(Rows)
  BY <1>1, NewRowIsRow
<1> HIDE DEF row
<1>3. /\ file' \in Lines /\ Len(file') > 0
      /\ \A i \in 1 .. Len(file') : Len(file'[i]) > 0
      /\ Good(file') <=> Good(file) /\ ended /\ rows[p] = Loaded(file)
      /\ Good(file') => Loaded(file') = Append(Loaded(file), row)
      /\ InOrder'
  BY <1>1, WriteEffect DEF row
<1>4. /\ rows'[p] = Append(rows[p], row)
      /\ \A q \in open : q # p => rows'[q] = rows[q]
  BY <1>1, LogFacts DEF AuditTypeOK
<1>5. AuditTypeOK'
  BY <1>1, <1>2, <1>3, LogFacts, AuditAssumption DEF AuditTypeOK, Lines
<1>6. LinesWritten'
  BY <1>3 DEF LinesWritten
<1>7. AckedWithin'
  BY <1>1, <1>2, <1>3, LogFacts, LaterIsSame, WithinGrows DEF AckedWithin, AuditTypeOK
<1>8. ShownBegins'
  <2>1. ASSUME Good(file'), NEW q \in open
        PROVE  Begins(rows'[q], Loaded(file'))
    <3>1. Loaded(file) \in Seq(Rows) /\ rows[q] \in Seq(Rows) /\ Begins(rows[q], Loaded(file))
      BY <1>3, <2>1, LogFacts DEF ShownBegins, AuditTypeOK
    <3>2. CASE q = p
      <4>1. Loaded(file') = Append(Loaded(file), row) /\ rows[p] = Loaded(file)
        BY <1>3, <2>1
      <4>2. rows'[q] = Loaded(file')
        BY <1>4, <3>2, <4>1
      <4>3. Loaded(file') \in Seq(Rows)
        BY <1>2, <3>1, <4>1
      <4> QED
        BY <4>2, <4>3 DEF Begins
    <3>3. CASE q # p
      BY <1>2, <1>3, <1>4, <2>1, <3>1, <3>3, BeginsGrows
    <3> QED
      BY <3>2, <3>3
  <2> QED
    BY <1>1, <2>1, LaterIsSame DEF ShownBegins
<1>9. CalmIsComplete'
  <2>1. SUFFICES ASSUME calm
                 PROVE  /\ ended' /\ Loaded(file') = acked'
                        /\ \A q \in open' : rows'[q] = acked'
                        /\ \A q, r \in open' : q = r
    BY <1>1, LaterIsSame DEF CalmIsComplete
  <2> QED
    BY <1>1, <1>3, <1>4, <2>1, CalmIsGood
<1> QED
  BY <1>3, <1>5, <1>6, <1>7, <1>8, <1>9 DEF LogIInv

\* A write that is cut: nothing, a piece, or the whole row that nobody knows of.
LEMMA CutEffect ==
    ASSUME LogIInv, NEW p, Cut(p)
    PROVE  /\ file' \in Lines /\ tried' \in 0 .. MaxRows /\ ended' \in BOOLEAN
           /\ LinesWritten' /\ InOrder'
           /\ \/ Good(file') = Good(file) /\ Loaded(file') = Loaded(file)
              \/ ~Good(file') /\ Loaded(file') = Refused
              \/ /\ Good(file) /\ Good(file') /\ NewRow(p) \in Rows
                 /\ Loaded(file') = Append(Loaded(file), NewRow(p))
<1>1. p \in open /\ tried < MaxRows /\ tried' = tried + 1 /\ tried \in Nat
  BY LogFacts DEF Cut, Trying
<1>2. tried' \in 0 .. MaxRows
  BY <1>1, AuditAssumption
<1>3. CASE UNCHANGED <<file, ended>>
  <2>1. InOrder'
    <3>1. \A i \in 1 .. Len(Loaded(file)) :
            Good(file) => Loaded(file)[i].id <= tried /\ Loaded(file)[i].id \in Nat
      BY LogFacts, RowFacts DEF InOrder
    <3> QED
      BY <1>1, <1>3, <3>1, LogFacts, LaterIsSame DEF InOrder
  <2> QED
    BY <1>2, <1>3, <2>1, LogFacts DEF LinesWritten, AuditTypeOK
<1>4. CASE file' = Extended(Piece) /\ ended' = FALSE
  <2>1. /\ file' \in Lines /\ Len(file') > 0
        /\ \A i \in 1 .. Len(file') : Len(file'[i]) > 0
    BY <1>4, LogFacts, Extending
  <2>2. ~Good(file')
    BY <1>4, LogFacts, Extending
  <2> QED
    BY <1>2, <1>4, <2>1, <2>2, LaterIsSame, Reading DEF LinesWritten, InOrder
<1>5. CASE file' = Extended(NewRow(p)) /\ ended' \in BOOLEAN
  <2>1. Writes(p)
    BY <1>1, <1>5 DEF Writes
  <2>2. /\ file' \in Lines /\ Len(file') > 0
        /\ \A i \in 1 .. Len(file') : Len(file'[i]) > 0
        /\ Good(file') => Good(file) /\ Loaded(file') = Append(Loaded(file), NewRow(p))
        /\ InOrder'
    BY <2>1, WriteEffect
  <2>3. NewRow(p) \in Rows
    BY <1>1, NewRowIsRow
  <2> QED
    BY <1>2, <1>5, <2>2, <2>3, Reading DEF LinesWritten
<1> QED
  BY <1>3, <1>4, <1>5 DEF Cut

LEMMA CutKeeps ==
    ASSUME LogIInv, NEW p \in Processes, Cut(p), open' \subseteq open
    PROVE  LogIInv'
<1>1. rows' = rows /\ acked' = acked /\ calm' = FALSE
  BY DEF Cut
<1>2. AuditTypeOK'
  BY <1>1, CutEffect, LogFacts DEF AuditTypeOK, Lines
<1>3. AckedWithin'
  BY <1>1, CutEffect, LogFacts, LaterIsSame, WithinGrows DEF AckedWithin, AuditTypeOK
<1>4. ShownBegins'
  <2>1. ASSUME Good(file'), NEW q \in open'
        PROVE  Begins(rows[q], Loaded(file'))
    <3>1. /\ q \in open /\ rows[q] \in Seq(Rows) /\ Good(file)
          /\ Loaded(file) \in Seq(Rows) /\ Begins(rows[q], Loaded(file))
      BY <2>1, CutEffect, LogFacts DEF ShownBegins, AuditTypeOK
    <3> QED
      BY <2>1, <3>1, CutEffect, BeginsGrows
  <2> QED
    BY <1>1, <2>1, LaterIsSame DEF ShownBegins
<1>5. CalmIsComplete'
  BY <1>1 DEF CalmIsComplete
<1> QED
  BY <1>2, <1>3, <1>4, <1>5, CutEffect DEF LogIInv

LEMMA FileStaysKeeps ==
    ASSUME LogIInv, open' \subseteq open, UNCHANGED <<file, ended, rows, tried, acked, calm>>
    PROVE  LogIInv'
<1>1. AuditTypeOK' /\ LinesWritten' /\ InOrder' /\ AckedWithin'
  BY LogFacts, LaterIsSame DEF AuditTypeOK, LinesWritten, InOrder, AckedWithin
<1>2. ShownBegins' /\ CalmIsComplete'
  BY LogFacts, LaterIsSame DEF ShownBegins, CalmIsComplete
<1> QED
  BY <1>1, <1>2 DEF LogIInv

LEMMA StepLogIInv == LogIInv /\ [AuditNext]_auditVars => LogIInv'
<1> SUFFICES ASSUME LogIInv, [AuditNext]_auditVars
             PROVE  LogIInv'
  OBVIOUS
<1>1. ASSUME NEW p \in Processes, Build(p)
      PROVE  LogIInv'
  BY <1>1, BuildKeeps
<1>2. ASSUME NEW p \in Processes, AppendRow(p)
      PROVE  LogIInv'
  BY <1>2, AppendKeeps
<1>3. ASSUME NEW p \in Processes, AppendRaises(p) \/ DieWriting(p)
      PROVE  LogIInv'
  BY <1>3, CutKeeps DEF AppendRaises, DieWriting
<1>4. ASSUME NEW p \in Processes, Die(p)
      PROVE  LogIInv'
  BY <1>4, FileStaysKeeps DEF Die
<1>5. CASE UNCHANGED auditVars
  BY <1>5, FileStaysKeeps DEF auditVars
<1> QED
  BY <1>1, <1>2, <1>3, <1>4, <1>5 DEF AuditNext

------------------------------------------------------------------------------
(* The theorems.                                                            *)

\* The inductive invariant holds throughout.
THEOREM LogInvariance == AuditSpec => []LogIInv
BY InitLogIInv, StepLogIInv, PTL DEF AuditSpec

\* The file is always made of rows and pieces of rows, whatever was cut.
THEOREM AuditTypeCorrect == AuditSpec => []AuditTypeOK
<1>1. LogIInv => AuditTypeOK
  BY DEF LogIInv
<1> QED
  BY <1>1, LogInvariance, PTL

\* Every acknowledged row is in what _load returns, if it returns (persistence.py:
\* 4-6), and what a process shows as the log is its beginning.
THEOREM NoRowSilentlyLost == AuditSpec => []NothingSilentlyLost
<1>1. LogIInv => NothingSilentlyLost
  <2> SUFFICES ASSUME LogIInv
               PROVE  NothingSilentlyLost
    OBVIOUS
  <2>1. ASSUME Loaded(file) # Refused
        PROVE  /\ Within(acked, Loaded(file))
               /\ \A p \in open : /\ Len(rows[p]) <= Len(Loaded(file))
                                  /\ rows[p] = SubSeq(Loaded(file), 1, Len(rows[p]))
    <3>1. Good(file) /\ Loaded(file) \in Seq(Rows)
      BY <2>1, LogFacts, Reading
    <3>2. ASSUME NEW p \in open
          PROVE  /\ Len(rows[p]) <= Len(Loaded(file))
                 /\ rows[p] = SubSeq(Loaded(file), 1, Len(rows[p]))
      <4> DEFINE s == rows[p]
                 t == Loaded(file)
                 b == SubSeq(t, 1, Len(s))
      <4>1. s \in Seq(Rows) /\ t \in Seq(Rows) /\ Len(s) \in Nat /\ Begins(s, t)
        BY <3>1, LogFacts DEF AuditTypeOK, ShownBegins
      <4>2. \A i \in 1 .. Len(s) : t[i] \in Rows /\ s[i] = t[i]
        BY <4>1 DEF Begins
      <4> HIDE DEF s, t
      <4>3. /\ b \in Seq(Rows)
            /\ Len(b) = IF 1 <= Len(s) THEN Len(s) - 1 + 1 ELSE 0
            /\ \A i \in 1 .. Len(s) - 1 + 1 : b[i] = t[1 + i - 1]
        BY <4>1, <4>2, SubSeqProperties
      <4> HIDE DEF b
      <4>4. Len(b) = Len(s) /\ \A i \in 1 .. Len(s) : s[i] = b[i]
        BY <4>1, <4>2, <4>3
      <4>5. s = b
        BY <4>1, <4>3, <4>4, SeqEqual
      <4> QED
        BY <4>1, <4>5 DEF Begins, b, s, t
    <3> QED
      BY <3>1, <3>2, LogFacts DEF AckedWithin
  <2>2. calm => Loaded(file) = acked
    BY LogFacts DEF CalmIsComplete
  <2> QED
    BY <2>1, <2>2 DEF NothingSilentlyLost, Within
<1> QED
  BY <1>1, LogInvariance, PTL

\* What the invariant says of one step, in the terms of DurableLog.
LEMMA StepLogs ==
    ASSUME LogIInv, AuditNext
    PROVE  Log!Next \/ UNCHANGED <<acked, Loaded(file)>>
<1>1. ASSUME NEW p \in Processes, AppendRow(p)
      PROVE  Log!Next
  <2>1. Writes(p) /\ acked' = Append(acked, NewRow(p)) /\ NewRow(p) \in Rows
    BY <1>1, NewRowIsRow DEF AppendRow, Writes, Trying
  <2>2. CASE Good(file')
    <3>1. Loaded(file') = Append(Loaded(file), NewRow(p)) /\ Loaded(file) # Refused
      BY <2>1, <2>2, WriteEffect, LogFacts, Reading
    <3> QED
      BY <2>1, <3>1, LaterIsSame DEF Log!Next, Log!Store
  <2>3. CASE ~Good(file')
    <3>1. Loaded(file') = Refused
      BY <2>1, <2>3, WriteEffect, Reading
    <3> QED
      BY <2>1, <3>1, LaterIsSame DEF Log!Next, Log!Damage
  <2> QED
    BY <2>2, <2>3
<1>2. ASSUME NEW p \in Processes, Cut(p)
      PROVE  Log!Next \/ UNCHANGED <<acked, Loaded(file)>>
  <2>1. acked' = acked
    BY <1>2 DEF Cut
  <2>2. CASE Loaded(file') = Loaded(file)
    BY <2>1, <2>2, LaterIsSame
  <2>3. CASE Loaded(file') = Refused
    BY <2>1, <2>3, LaterIsSame DEF Log!Next, Log!Damage
  <2>4. CASE /\ Good(file) /\ NewRow(p) \in Rows
             /\ Loaded(file') = Append(Loaded(file), NewRow(p))
    BY <2>1, <2>4, LogFacts, Reading, LaterIsSame DEF Log!Next, Log!Store
  <2> QED
    BY <1>2, <2>2, <2>3, <2>4, CutEffect
<1>3. ASSUME NEW p \in Processes, Build(p) \/ Die(p)
      PROVE  UNCHANGED <<acked, Loaded(file)>>
  BY <1>3, LaterIsSame DEF Build, Die
<1> QED
  BY <1>1, <1>2, <1>3 DEF AuditNext, AppendRaises, DieWriting

\* The log keeps the promise of DurableLog: it is only ever extended, or refused
\* from some damage on for good.
THEOREM LogIsDurable == AuditSpec => LogSpec
<1>1. AuditInit => Log!Init
  <2> SUFFICES ASSUME AuditInit
               PROVE  Log!Init
    OBVIOUS
  <2>1. calm /\ acked = <<>>
    BY DEF AuditInit
  <2> QED
    BY <2>1, InitLogIInv, CalmIsGood DEF Log!Init
<1>2. LogIInv /\ [AuditNext]_auditVars => [Log!Next]_(Log!logVars)
  <2>1. LogIInv /\ AuditNext => [Log!Next]_(Log!logVars)
    BY StepLogs DEF Log!logVars
  <2>2. UNCHANGED auditVars => UNCHANGED Log!logVars
    BY LaterIsSame DEF auditVars, Log!logVars
  <2> QED
    BY <2>1, <2>2
<1> QED
  BY <1>1, <1>2, LogInvariance, PTL DEF AuditSpec, LogSpec, Log!Spec
=============================================================================
