-------------------------- MODULE EventStoreProofs --------------------------
(***************************************************************************)
(* Theorems about EventStore, for every value of its constants.            *)
(***************************************************************************)
EXTENDS EventStore, SequenceTheorems, FiniteSetTheorems, TLAPS

-----------------------------------------------------------------------------
(* Sequences of events and the sets of their elements.                     *)

Once(s) == \A i, j \in DOMAIN s : s[i] = s[j] => i = j
Rising(s) == \A i, j \in DOMAIN s : i < j => s[i] < s[j]
Before(E, F) == \A e \in E, f \in F : e < f

\* A sequence without elements, or with one.
LEMMA ShortSeq ==
    /\ << >> \in Seq(Event) /\ ToSet(<< >>) = {} /\ Once(<< >>) /\ Rising(<< >>)
    /\ \A e \in Event : /\ <<e>> \in Seq(Event) /\ <<e>> # << >> /\ ToSet(<<e>>) = {e}
                        /\ Once(<<e>>) /\ Rising(<<e>>)
  <1>1. ASSUME NEW e \in Event
        PROVE  /\ <<e>> \in Seq(Event) /\ <<e>> # << >> /\ ToSet(<<e>>) = {e}
               /\ Once(<<e>>) /\ Rising(<<e>>)
    <2>1. <<e>> \in Seq(Event) /\ <<e>> # << >>
      OBVIOUS
    <2>2. DOMAIN <<e>> = {1} /\ <<e>>[1] = e
      OBVIOUS
    <2> QED
      BY <2>1, <2>2 DEF ToSet, Once, Rising
  <1>2. << >> \in Seq(Event) /\ DOMAIN << >> = {}
    OBVIOUS
  <1> QED
    BY <1>1, <1>2 DEF ToSet, Once, Rising

\* The elements of a sequence are events, and an empty one has none.
LEMMA SeqSet ==
    \A s \in Seq(Event) : /\ ToSet(s) \subseteq Event /\ ((ToSet(s) = {}) <=> (s = << >>))
                          /\ Len(s) \in Nat /\ DOMAIN s = 1 .. Len(s)
  <1> SUFFICES ASSUME NEW s \in Seq(Event)
               PROVE  /\ ToSet(s) \subseteq Event /\ ((ToSet(s) = {}) <=> (s = << >>))
                      /\ Len(s) \in Nat /\ DOMAIN s = 1 .. Len(s)
    OBVIOUS
  <1>1. Len(s) \in Nat /\ DOMAIN s = 1 .. Len(s) /\ \A i \in 1 .. Len(s) : s[i] \in Event
    BY LenProperties, ElementOfSeq
  <1>2. s # << >> => Len(s) \in Nat \ {0}
    BY EmptySeq
  <1>3. s # << >> => ToSet(s) # {}
    BY <1>1, <1>2 DEF ToSet
  <1>4. ToSet(s) \subseteq Event
    BY <1>1 DEF ToSet
  <1>5. s = << >> => ToSet(s) = {}
    BY ShortSeq
  <1> QED
    BY <1>1, <1>3, <1>4, <1>5

\* A concatenation has the elements of both parts.
LEMMA ConcatSet ==
    ASSUME NEW s \in Seq(Event), NEW t \in Seq(Event)
    PROVE  /\ s \o t \in Seq(Event) /\ ToSet(s \o t) = ToSet(s) \cup ToSet(t)
           /\ Once(s) /\ Once(t) /\ ToSet(s) \cap ToSet(t) = {} => Once(s \o t)
           /\ Rising(s) /\ Rising(t) /\ Before(ToSet(s), ToSet(t)) => Rising(s \o t)
  <1> DEFINE u == s \o t  m == Len(s)  n == Len(t)
  <1>1. /\ m \in Nat /\ n \in Nat /\ DOMAIN s = 1 .. m /\ DOMAIN t = 1 .. n
        /\ u \in Seq(Event) /\ DOMAIN u = 1 .. (m + n)
    BY ConcatProperties, LenProperties
  <1>2. /\ \A i \in 1 .. m : u[i] = s[i]
        /\ \A i \in 1 .. n : u[m + i] = t[i]
    <2>1. \A i \in 1 .. (m + n) : u[i] = IF i <= m THEN s[i] ELSE t[i - m]
      BY ConcatProperties
    <2>2. \A i \in 1 .. n : m + i \in 1 .. (m + n) /\ ~(m + i <= m) /\ (m + i) - m = i
      BY <1>1
    <2>3. \A i \in 1 .. m : i \in 1 .. (m + n)
      BY <1>1
    <2> QED
      BY <2>1, <2>2, <2>3
  <1>3. \A i \in 1 .. (m + n) : \/ i \in 1 .. m /\ u[i] = s[i] /\ u[i] \in ToSet(s)
                                \/ /\ i - m \in 1 .. n /\ u[i] = t[i - m] /\ u[i] \in ToSet(t)
                                   /\ i > m
    <2> SUFFICES ASSUME NEW i \in 1 .. (m + n)
                 PROVE  \/ i \in 1 .. m /\ u[i] = s[i] /\ u[i] \in ToSet(s)
                        \/ /\ i - m \in 1 .. n /\ u[i] = t[i - m] /\ u[i] \in ToSet(t)
                           /\ i > m
      OBVIOUS
    <2>1. CASE i <= m
      <3>1. i \in 1 .. m
        BY <1>1, <2>1
      <3> QED
        BY <1>1, <1>2, <3>1 DEF ToSet
    <2>2. CASE ~(i <= m)
      <3>1. i - m \in 1 .. n /\ i = m + (i - m) /\ i > m
        BY <1>1, <2>2
      <3>2. u[i] = t[i - m]
        BY <1>2, <3>1
      <3> QED
        BY <1>1, <3>1, <3>2 DEF ToSet
    <2> QED
      BY <2>1, <2>2
  <1>4. ToSet(u) = ToSet(s) \cup ToSet(t)
    <2>1. \A i \in 1 .. m : s[i] \in ToSet(u)
      <3>1. \A i \in 1 .. m : i \in 1 .. (m + n)
        BY <1>1
      <3> QED
        BY <1>1, <1>2, <3>1 DEF ToSet
    <2>2. \A i \in 1 .. n : t[i] \in ToSet(u)
      <3>1. \A i \in 1 .. n : m + i \in 1 .. (m + n)
        BY <1>1
      <3> QED
        BY <1>1, <1>2, <3>1 DEF ToSet
    <2>3. ToSet(u) \subseteq ToSet(s) \cup ToSet(t)
      BY <1>1, <1>3 DEF ToSet
    <2> QED
      BY <1>1, <2>1, <2>2, <2>3 DEF ToSet
  <1>5. ASSUME Once(s), Once(t), ToSet(s) \cap ToSet(t) = {}
        PROVE  Once(u)
    <2> SUFFICES ASSUME NEW i \in 1 .. (m + n), NEW j \in 1 .. (m + n), u[i] = u[j]
                 PROVE  i = j
      BY <1>1 DEF Once
    <2>1. CASE i \in 1 .. m /\ j \in 1 .. m
      BY <1>1, <1>2, <1>5, <2>1 DEF Once
    <2>2. CASE i - m \in 1 .. n /\ j - m \in 1 .. n /\ i > m /\ j > m
      <3>1. i - m = j - m
        BY <1>1, <1>3, <1>5, <2>2 DEF Once
      <3> QED
        BY <1>1, <3>1
    <2> QED
      BY <1>3, <1>5, <2>1, <2>2
  <1>6. ASSUME Rising(s), Rising(t), Before(ToSet(s), ToSet(t))
        PROVE  Rising(u)
    <2> SUFFICES ASSUME NEW i \in 1 .. (m + n), NEW j \in 1 .. (m + n), i < j
                 PROVE  u[i] < u[j]
      BY <1>1 DEF Rising
    <2>1. CASE i \in 1 .. m /\ j \in 1 .. m
      BY <1>1, <1>2, <1>6, <2>1 DEF Rising
    <2>2. CASE i - m \in 1 .. n /\ j - m \in 1 .. n /\ i > m /\ j > m
      <3>1. i - m < j - m
        BY <1>1
      <3>2. u[i] = t[i - m] /\ u[j] = t[j - m]
        BY <1>1, <1>3, <2>2
      <3> QED
        BY <1>1, <1>6, <2>2, <3>1, <3>2 DEF Rising
    <2>3. CASE i \in 1 .. m /\ j > m
      <3>1. u[i] \in ToSet(s) /\ u[j] \in ToSet(t)
        BY <1>1, <1>3, <2>3
      <3> QED
        BY <1>6, <3>1 DEF Before
    <2>4. ~(i > m /\ j \in 1 .. m)
      BY <1>1
    <2> QED
      BY <1>1, <1>3, <2>1, <2>2, <2>3, <2>4
  <1> QED
    BY <1>1, <1>4, <1>5, <1>6

-----------------------------------------------------------------------------
(* The types, and what the phases of the two threads say of their batches. *)

\* The largest number, or 0: what Max chooses.
HasLargest == \E m \in {0} \cup {r.number : r \in table} :
                 \A n \in {0} \cup {r.number : r \in table} : m >= n

BaseInv ==
    /\ TypeOK
    /\ HasLargest
    /\ \A w \in Writer : (step[w] = "none") <=> (batch[w] = << >>)
    /\ phase \in {"store", "flush"} => step["loop"] = "none"
    /\ phase = "store" => sent > 0
    /\ phase = "flush" => hybrid
    /\ ~hybrid => ram = << >> /\ batch["server"] = << >>

RowType == [number : Nat \ {0}, event : Event, consumed : BOOLEAN]

\* There are two writers.
LEMMA TwoWriters ==
    /\ Other("loop") = "server" /\ Other("server") = "loop"
    /\ \A w \in Writer : Other(w) \in Writer /\ Other(w) # w
    /\ \A v, w \in Writer : v = w \/ v = Other(w)
  <1>1. /\ \E v \in Writer : v # "loop"
        /\ \E v \in Writer : v # "server"
    BY DEF Writer
  <1>2. Other("loop") \in Writer /\ Other("loop") # "loop"
    BY <1>1 DEF Other
  <1>3. Other("server") \in Writer /\ Other("server") # "server"
    BY <1>1 DEF Other
  <1> QED
    BY <1>2, <1>3 DEF Writer

\* What a writer reads as the largest number is one.
LEMMA LargestNumber ==
    ASSUME TypeOK, HasLargest
    PROVE  /\ Max({0} \cup {r.number : r \in table}) \in Nat
           /\ \A q \in table : q.number <= Max({0} \cup {r.number : r \in table})
  <1> DEFINE S == {0} \cup {r.number : r \in table}
  <1>1. \A r \in table : r.number \in Nat
    BY DEF TypeOK
  <1>2. S \subseteq Nat
    BY <1>1
  <1>3. Max(S) \in S /\ \A n \in S : Max(S) >= n
    BY DEF HasLargest, Max
  <1>4. \A r \in table : r.number \in S
    OBVIOUS
  <1> HIDE DEF S
  <1>5. Max(S) \in Nat /\ \A r \in table : r.number <= Max(S)
    BY <1>1, <1>2, <1>3, <1>4
  <1> QED
    BY <1>5 DEF S

\* The rows of a batch: one for each event, numbered from the number read.
LEMMA BatchRows ==
    ASSUME TypeOK, NEW w \in Writer
    PROVE  /\ Rows(w) \subseteq RowType
           /\ {r.event : r \in Rows(w)} = ToSet(batch[w])
           /\ \A r \in Rows(w) : \E i \in 1 .. Len(batch[w]) :
                r.number = highest[w] + i /\ r.event = batch[w][i] /\ r.consumed = FALSE
           /\ batch[w] \in Seq(Event) /\ highest[w] \in Nat
           /\ Len(batch[w]) \in Nat /\ DOMAIN batch[w] = 1 .. Len(batch[w])
  <1>1. /\ batch[w] \in Seq(Event) /\ highest[w] \in Nat
    BY DEF TypeOK
  <1>2. /\ Len(batch[w]) \in Nat /\ DOMAIN batch[w] = 1 .. Len(batch[w])
        /\ \A i \in 1 .. Len(batch[w]) : batch[w][i] \in Event
    BY <1>1, LenProperties, ElementOfSeq
  <1>3. \A i \in 1 .. Len(batch[w]) : highest[w] + i \in Nat \ {0}
    BY <1>1, <1>2
  <1>4. \A r \in Rows(w) : \E i \in 1 .. Len(batch[w]) :
          r.number = highest[w] + i /\ r.event = batch[w][i] /\ r.consumed = FALSE
    BY <1>2 DEF Rows
  <1>5. Rows(w) \subseteq RowType
    <2> SUFFICES ASSUME NEW r \in Rows(w)
                 PROVE  r \in RowType
      OBVIOUS
    <2>1. PICK i \in 1 .. Len(batch[w]) :
            r = [number |-> highest[w] + i, event |-> batch[w][i], consumed |-> FALSE]
      BY <1>2 DEF Rows
    <2>2. highest[w] + i \in Nat \ {0} /\ batch[w][i] \in Event
      BY <1>2, <1>3
    <2> QED
      BY <2>1, <2>2 DEF RowType
  <1>6. {r.event : r \in Rows(w)} = ToSet(batch[w])
    <2>1. \A r \in Rows(w) : r.event \in ToSet(batch[w])
      BY <1>2, <1>4 DEF ToSet
    <2>2. ASSUME NEW e \in ToSet(batch[w])
          PROVE  \E r \in Rows(w) : r.event = e
      <3>1. PICK i \in DOMAIN batch[w] : e = batch[w][i]
        BY DEF ToSet
      <3>2. [number |-> highest[w] + i, event |-> batch[w][i], consumed |-> FALSE] \in Rows(w)
        BY DEF Rows
      <3> QED
        BY <3>1, <3>2
    <2> QED
      BY <2>1, <2>2
  <1> QED
    BY <1>1, <1>2, <1>4, <1>5, <1>6

\* The numbers have a largest one after an insertion too.
LEMMA InsertHasLargest ==
    ASSUME TypeOK, HasLargest, NEW w \in Writer, batch[w] # << >>,
           table' = table \cup Rows(w)
    PROVE  HasLargest'
  <1> DEFINE S == {0} \cup {r.number : r \in table}
             T == {0} \cup {r.number : r \in table'}
             k == highest[w] + Len(batch[w])
  <1>1. PICK m \in S : \A n \in S : m >= n
    BY DEF HasLargest
  <1>2. \A r \in table : r.number \in Nat
    BY DEF TypeOK
  <1>3. S \subseteq Nat /\ m \in Nat
    BY <1>1, <1>2
  <1>4. Len(batch[w]) \in Nat \ {0} /\ DOMAIN batch[w] = 1 .. Len(batch[w])
        /\ highest[w] \in Nat /\ k \in Nat
    <2>1. batch[w] \in Seq(Event) /\ highest[w] \in Nat
          /\ Len(batch[w]) \in Nat /\ DOMAIN batch[w] = 1 .. Len(batch[w])
      BY BatchRows
    <2>2. Len(batch[w]) # 0
      BY <2>1, EmptySeq
    <2> QED
      BY <2>1, <2>2
  <1>5. k \in T
    <2>1. Len(batch[w]) \in DOMAIN batch[w]
      BY <1>4
    <2> DEFINE last == [number |-> k, event |-> batch[w][Len(batch[w])], consumed |-> FALSE]
    <2>2. last \in Rows(w) /\ last.number = k
      BY <2>1 DEF Rows
    <2> HIDE DEF last
    <2> QED
      BY <2>2
  <1>6. \A n \in T : n \in S \/ (n \in Nat /\ n <= k)
    <2> SUFFICES ASSUME NEW n \in T
                 PROVE  n \in S \/ (n \in Nat /\ n <= k)
      OBVIOUS
    <2>1. CASE n = 0
      BY <2>1
    <2>2. CASE \E r \in table : n = r.number
      BY <2>2
    <2>3. ASSUME NEW r \in Rows(w), n = r.number
          PROVE  n \in Nat /\ n <= k
      <3>1. PICK i \in 1 .. Len(batch[w]) : r.number = highest[w] + i
        BY BatchRows
      <3> QED
        BY <1>4, <2>3, <3>1
    <2> QED
      BY <2>1, <2>2, <2>3
  <1>7. m \in T
    BY <1>1
  <1> HIDE DEF S, k
  <1>8. CASE m >= k
    <2>1. \A n \in T : m >= n
      BY <1>1, <1>3, <1>4, <1>6, <1>8
    <2> QED
      BY <1>7, <2>1 DEF HasLargest
  <1>9. CASE ~(m >= k)
    <2>1. \A n \in T : k >= n
      BY <1>1, <1>3, <1>4, <1>6, <1>9
    <2> QED
      BY <1>5, <2>1 DEF HasLargest
  <1> QED
    BY <1>8, <1>9

\* It holds before the first event.
LEMMA InitBase == Init => BaseInv
  <1> SUFFICES ASSUME Init
               PROVE  BaseInv
    OBVIOUS
  <1> USE DEF Init
  <1>1. TypeOK
    <2>1. 0 \in 0 .. Final /\ 0 \in 0 .. MaxRetries - 1 /\ 0 \in 0 .. MaxFailures
          /\ 0 \in 0 .. MaxCleanups
      BY SizeAssumption, RetryAssumption, BoundAssumption
    <2>2. << >> \in Seq(Event)
      BY ShortSeq
    <2> QED
      BY <2>1, <2>2 DEF TypeOK
  <1>2. HasLargest
    BY DEF HasLargest
  <1> QED
    BY <1>1, <1>2 DEF BaseInv, Writer

\* Reading the largest number keeps the types.
LEMMA ReadBase == ASSUME BaseInv, NEW w \in Writer, ReadHighest(w) PROVE BaseInv'
  <1> DEFINE top == Max({0} \cup {r.number : r \in table})
  <1>1. top \in Nat
    BY LargestNumber DEF BaseInv
  <1> HIDE DEF top
  <1>2. /\ step' = [step EXCEPT ![w] = "insert"] /\ step[w] = "query"
        /\ highest' = [highest EXCEPT ![w] = top]
        /\ locks' \subseteq locks \cup {w}
    BY DEF ReadHighest, top
  <1>3. UNCHANGED <<hybrid, rowLocks, taskVars, phase, sent, call, selected, ram,
                    batch, attempt, table, failures, cleanups, accepted,
                    discarded, returned, overlapped>>
    BY DEF ReadHighest
  <1>4. TypeOK'
    BY <1>1, <1>2, <1>3 DEF BaseInv, TypeOK, taskVars
  <1>5. step \in [Writer -> {"none", "query", "insert"}]
    BY DEF BaseInv, TypeOK
  <1>6. step[w] # "none" /\ \A v \in Writer : (step'[v] = "none") <=> (step[v] = "none")
    BY <1>2, <1>5
  <1> QED
    BY <1>3, <1>4, <1>6 DEF BaseInv, HasLargest, Writer

\* What the end of a transaction leaves.
LEMMA AfterWrite ==
    ASSUME TypeOK, NEW w \in Writer, EndWrite(w)
    PROVE  /\ step' \in [Writer -> {"none", "query", "insert"}]
           /\ batch' \in [Writer -> Seq(Event)]
           /\ highest' \in [Writer -> Nat]
           /\ attempt' \in [Writer -> 0 .. MaxRetries - 1]
           /\ locks' \subseteq Writer
           /\ step'[w] = "none" /\ batch'[w] = << >>
           /\ \A v \in Writer : v # w => step'[v] = step[v] /\ batch'[v] = batch[v]
                                         /\ highest'[v] = highest[v]
  <1>1. 0 \in 0 .. MaxRetries - 1 /\ << >> \in Seq(Event)
    BY RetryAssumption, ShortSeq
  <1> QED
    BY <1>1 DEF EndWrite, Unlock, TypeOK

\* What taking a batch leaves.
LEMMA AfterTake ==
    ASSUME TypeOK, NEW w \in Writer, TakeBatch(w)
    PROVE  /\ step' \in [Writer -> {"none", "query", "insert"}]
           /\ batch' \in [Writer -> Seq(Event)]
           /\ ram \in Seq(Event) /\ ram' = << >>
           /\ batch'[w] = ram
           /\ step'[w] = IF ram = << >> THEN "none" ELSE "query"
           /\ \A v \in Writer : v # w => step'[v] = step[v] /\ batch'[v] = batch[v]
           /\ overlapped' = (overlapped \/ (ram # << >> /\ batch[Other(w)] # << >>))
           /\ overlapped' \in BOOLEAN
           /\ UNCHANGED <<highest, attempt, locks>>
  <1>1. step \in [Writer -> {"none", "query", "insert"}] /\ batch \in [Writer -> Seq(Event)]
        /\ ram \in Seq(Event)
    BY DEF TypeOK
  <1> QED
    BY <1>1 DEF TakeBatch

\* A batch gets the numbers after the largest one that was read.
LEMMA InsertBase == ASSUME BaseInv, NEW w \in Writer, Insert(w) PROVE BaseInv'
  <1>1. /\ step[w] = "insert" /\ table' = table \cup Rows(w) /\ EndWrite(w)
        /\ accepted' = accepted \cup ToSet(batch[w])
    BY DEF Insert
  <1>2. UNCHANGED <<hybrid, rowLocks, taskVars, phase, sent, call, selected, ram,
                    failures, cleanups, discarded, returned, overlapped>>
    BY DEF Insert
  <1>3. TypeOK /\ HasLargest /\ batch[w] # << >>
    BY <1>1 DEF BaseInv
  <1>4. Rows(w) \subseteq RowType /\ ToSet(batch[w]) \subseteq Event
    BY <1>3, BatchRows, SeqSet
  <1>5. TypeOK'
    <2>1. /\ step' \in [Writer -> {"none", "query", "insert"}]
          /\ batch' \in [Writer -> Seq(Event)]
          /\ highest' \in [Writer -> Nat]
          /\ attempt' \in [Writer -> 0 .. MaxRetries - 1]
          /\ locks' \subseteq Writer
      BY <1>1, <1>3, AfterWrite
    <2>2. table' \subseteq RowType /\ accepted' \subseteq Event
      BY <1>1, <1>3, <1>4 DEF TypeOK, RowType
    <2> QED
      BY <1>2, <1>3, <2>1, <2>2 DEF TypeOK, taskVars, RowType
  <1>6. HasLargest'
    BY <1>1, <1>3, InsertHasLargest
  <1>7. /\ step'[w] = "none" /\ batch'[w] = << >>
        /\ \A v \in Writer : v # w => step'[v] = step[v] /\ batch'[v] = batch[v]
    BY <1>1, <1>3, AfterWrite
  <1> QED
    BY <1>2, <1>5, <1>6, <1>7 DEF BaseInv, Writer

\* A collision of numbers starts the transaction again.
LEMMA RetryBase == ASSUME BaseInv, NEW w \in Writer, Retry(w) PROVE BaseInv'
  <1>1. /\ step[w] = "insert" /\ attempt[w] + 1 < MaxRetries
        /\ step' = [step EXCEPT ![w] = "query"]
        /\ attempt' = [attempt EXCEPT ![w] = attempt[w] + 1]
        /\ highest' = [highest EXCEPT ![w] = 0]
        /\ locks' = locks \ {w}
    BY DEF Retry, MayRetry, Unlock
  <1>2. UNCHANGED <<hybrid, rowLocks, taskVars, phase, sent, call, selected, ram,
                    batch, table, failures, cleanups, accepted, discarded,
                    returned, overlapped>>
    BY DEF Retry
  <1>3. /\ step \in [Writer -> {"none", "query", "insert"}]
        /\ attempt \in [Writer -> 0 .. MaxRetries - 1]
    BY DEF BaseInv, TypeOK
  <1>4. attempt[w] + 1 \in 0 .. MaxRetries - 1
    BY <1>1, <1>3, RetryAssumption
  <1>5. TypeOK'
    BY <1>1, <1>2, <1>4 DEF BaseInv, TypeOK, taskVars
  <1>6. \A v \in Writer : (step'[v] = "none") <=> (step[v] = "none")
    BY <1>1, <1>3
  <1> QED
    BY <1>2, <1>5, <1>6 DEF BaseInv, HasLargest, Writer

\* A transaction that gives up returns its batch to memory.
LEMMA FailBase == ASSUME BaseInv, NEW w \in Writer, FailWrite(w) PROVE BaseInv'
  <1>1. /\ EndWrite(w) /\ step[w] # "none"
        /\ failures' \in {failures, failures + 1}
        /\ failures' # failures => failures < MaxFailures
        /\ ram' = IF hybrid THEN batch[w] \o ram ELSE ram
    BY DEF FailWrite, PutBack
  <1>2. UNCHANGED <<hybrid, rowLocks, taskVars, phase, sent, call, selected,
                    table, cleanups, accepted, discarded, returned, overlapped>>
    BY DEF FailWrite
  <1>3. TypeOK /\ ram \in Seq(Event) /\ batch[w] \in Seq(Event)
    BY DEF BaseInv, TypeOK
  <1>4. ram' \in Seq(Event)
    BY <1>1, <1>3, ConcatSet
  <1>5. failures' \in 0 .. MaxFailures
    BY <1>1, <1>3, BoundAssumption DEF TypeOK
  <1>6. /\ step' \in [Writer -> {"none", "query", "insert"}]
        /\ batch' \in [Writer -> Seq(Event)]
        /\ highest' \in [Writer -> Nat]
        /\ attempt' \in [Writer -> 0 .. MaxRetries - 1]
        /\ locks' \subseteq Writer
        /\ step'[w] = "none" /\ batch'[w] = << >>
        /\ \A v \in Writer : v # w => step'[v] = step[v] /\ batch'[v] = batch[v]
    BY <1>1, <1>3, AfterWrite
  <1>7. TypeOK'
    BY <1>2, <1>3, <1>4, <1>5, <1>6 DEF TypeOK, taskVars
  <1> QED
    BY <1>1, <1>2, <1>6, <1>7 DEF BaseInv, HasLargest, Writer

\* A thread that takes a batch had none.
LEMMA TakeBase ==
    ASSUME BaseInv, NEW w \in Writer, TakeBatch(w), step[w] = "none", hybrid,
           phase' \in {"idle", "closed"} \/ (phase' = phase /\ w = "server"),
           UNCHANGED <<hybrid, rowLocks, taskVars, sent, call, selected, table,
                       failures, cleanups, accepted, discarded, returned>>
    PROVE  BaseInv'
  <1>1. TypeOK
    BY DEF BaseInv
  <1>2. /\ step' \in [Writer -> {"none", "query", "insert"}]
        /\ batch' \in [Writer -> Seq(Event)]
        /\ ram' = << >>
        /\ (step'[w] = "none") <=> (batch'[w] = << >>)
        /\ \A v \in Writer : v # w => step'[v] = step[v] /\ batch'[v] = batch[v]
        /\ overlapped' \in BOOLEAN
        /\ UNCHANGED <<highest, attempt, locks>>
    BY <1>1, AfterTake
  <1>3. TypeOK'
    <2>1. ram' \in Seq(Event)
      BY <1>2, ShortSeq
    <2>2. phase' \in {"idle", "store", "flush", "closed"}
      BY <1>1 DEF TypeOK
    <2> QED
      BY <1>1, <1>2, <2>1, <2>2 DEF TypeOK, taskVars
  <1> QED
    BY <1>2, <1>3 DEF BaseInv, HasLargest, Writer

\* The steps of the message loop outside a transaction.
LEMMA LoopBase ==
    ASSUME BaseInv, TakeEvent \/ RefuseEvent \/ WriteEvent \/ CollectEvent
    PROVE  BaseInv'
  <1>1. TypeOK /\ ram \in Seq(Event) /\ sent \in 0 .. Final /\ Final \in Nat
        /\ step \in [Writer -> {"none", "query", "insert"}]
        /\ batch \in [Writer -> Seq(Event)] /\ "loop" \in Writer /\ "server" \in Writer
    BY SizeAssumption DEF BaseInv, TypeOK, Writer
  <1>2. CASE TakeEvent
    <2>1. sent + 1 \in 0 .. Final /\ sent + 1 > 0
      BY <1>1, <1>2 DEF TakeEvent
    <2>2. TypeOK'
      BY <1>1, <1>2, <2>1 DEF TypeOK, TakeEvent, taskVars, txVars
    <2> QED
      BY <1>2, <2>1, <2>2 DEF BaseInv, HasLargest, TakeEvent, taskVars, txVars
  <1>3. CASE RefuseEvent
    <2>1. TypeOK'
      BY <1>1, <1>3 DEF TypeOK, RefuseEvent, taskVars, txVars
    <2> QED
      BY <1>3, <2>1 DEF BaseInv, HasLargest, RefuseEvent, taskVars, txVars
  <1>4. CASE WriteEvent
    <2>1. sent \in Event
      BY <1>1, <1>4 DEF BaseInv, WriteEvent, Event
    <2>2. <<sent>> \in Seq(Event) /\ <<sent>> # << >>
      BY <2>1, ShortSeq
    <2>3. /\ step' \in [Writer -> {"none", "query", "insert"}]
          /\ batch' \in [Writer -> Seq(Event)]
          /\ \A w \in Writer : (step'[w] = "none") <=> (batch'[w] = << >>)
          /\ batch'["server"] = batch["server"]
      BY <1>1, <1>4, <2>2 DEF WriteEvent, BaseInv
    <2>4. TypeOK'
      BY <1>1, <1>4, <2>3 DEF TypeOK, WriteEvent, taskVars
    <2> QED
      BY <1>4, <2>3, <2>4 DEF BaseInv, HasLargest, WriteEvent
  <1>5. CASE CollectEvent
    <2>1. sent \in Event
      BY <1>1, <1>5 DEF BaseInv, CollectEvent, Event
    <2>2. ram' \in Seq(Event) /\ accepted' \subseteq Event
      BY <1>1, <1>5, <2>1, AppendProperties DEF CollectEvent, TypeOK
    <2>3. TypeOK'
      BY <1>1, <1>5, <2>2 DEF TypeOK, CollectEvent, taskVars, txVars
    <2> QED
      BY <1>5, <2>3 DEF BaseInv, HasLargest, CollectEvent, txVars
  <1> QED
    BY <1>2, <1>3, <1>4, <1>5

\* The steps of a client that fetches or deletes.
LEMMA ServerBase ==
    ASSUME BaseInv, DiscardRam \/ DeleteRows \/ SelectEvents \/ MarkConsumed
    PROVE  BaseInv'
  <1>1. TypeOK /\ ram \in Seq(Event) /\ table \subseteq RowType
    BY DEF BaseInv, TypeOK, RowType
  <1>2. ToSet(ram) \subseteq Event /\ << >> \in Seq(Event) /\ StoredEvents \subseteq Event
    BY <1>1, SeqSet, ShortSeq DEF StoredEvents, RowType
  <1>3. CASE DiscardRam
    <2>1. cleanups' \in 0 .. MaxCleanups
      BY <1>1, <1>3, BoundAssumption DEF DiscardRam, TypeOK
    <2>2. TypeOK'
      BY <1>1, <1>2, <1>3, <2>1 DEF TypeOK, DiscardRam, taskVars, txVars
    <2> QED
      BY <1>3, <2>2 DEF BaseInv, HasLargest, DiscardRam, taskVars, txVars
  <1>4. CASE DeleteRows
    <2>1. failures' \in 0 .. MaxFailures
      BY <1>1, <1>4, BoundAssumption DEF DeleteRows, TypeOK
    <2>2. TypeOK'
      BY <1>1, <1>2, <1>4, <2>1 DEF TypeOK, DeleteRows, txVars
    <2>3. HasLargest'
      <3>1. CASE table' = {}
        BY <3>1 DEF HasLargest
      <3>2. CASE table' = table
        BY <3>2 DEF HasLargest, BaseInv
      <3> QED
        BY <1>4, <3>1, <3>2 DEF DeleteRows
    <2> QED
      BY <1>4, <2>2, <2>3 DEF BaseInv, DeleteRows, txVars
  <1>5. CASE SelectEvents
    <2>1. selected' \subseteq StoredEvents
      BY <1>5 DEF SelectEvents, StoredEvents
    <2>2. TypeOK'
      BY <1>1, <1>2, <1>5, <2>1 DEF TypeOK, SelectEvents, taskVars, txVars
    <2> QED
      BY <1>5, <2>2 DEF BaseInv, HasLargest, SelectEvents, taskVars, txVars
  <1>6. CASE MarkConsumed
    <2>1. failures' \in 0 .. MaxFailures
      BY <1>1, <1>6, BoundAssumption DEF MarkConsumed, TypeOK
    <2>2. /\ table' \subseteq RowType
          /\ {r.number : r \in table'} = {r.number : r \in table}
      <3>1. CASE table' = table
        BY <1>1, <3>1
      <3>2. CASE table' = {[r EXCEPT !.consumed = TRUE] : r \in table}
        <4>1. \A r \in table : /\ [r EXCEPT !.consumed = TRUE] \in RowType
                               /\ [r EXCEPT !.consumed = TRUE].number = r.number
          BY <1>1 DEF RowType
        <4> QED
          BY <3>2, <4>1
      <3> QED
        BY <1>6, <3>1, <3>2 DEF MarkConsumed
    <2>3. TypeOK'
      BY <1>1, <1>2, <1>6, <2>1, <2>2 DEF TypeOK, MarkConsumed, taskVars, txVars, RowType
    <2>4. HasLargest'
      BY <2>2 DEF HasLargest, BaseInv
    <2> QED
      BY <1>6, <2>3, <2>4 DEF BaseInv, MarkConsumed, txVars
  <1> QED
    BY <1>3, <1>4, <1>5, <1>6

\* The registration of the task, its row, and stuttering.
LEMMA TaskBase ==
    ASSUME BaseInv, RegisterTask \/ CreateRow \/ UNCHANGED vars
    PROVE  BaseInv'
  <1>1. TypeOK
    BY DEF BaseInv
  <1>2. /\ row' \in BOOLEAN /\ cached' \in BOOLEAN
        /\ UNCHANGED <<hybrid, rowLocks, phase, sent, call, selected, ram, txVars,
                       table, failures, cleanups, accepted, discarded, returned,
                       overlapped>>
    BY <1>1 DEF RegisterTask, CreateRow, vars, taskVars, TypeOK
  <1>3. TypeOK'
    BY <1>1, <1>2 DEF TypeOK, txVars
  <1> QED
    BY <1>2, <1>3 DEF BaseInv, HasLargest, txVars

\* Every step keeps the base invariant.
LEMMA BaseNext == ASSUME BaseInv, [Next]_vars PROVE BaseInv'
  <1>1. "loop" \in Writer /\ "server" \in Writer
    BY DEF Writer
  <1>2. ASSUME NEW w \in Writer, WriteStep(w)
        PROVE  BaseInv'
    BY <1>2, ReadBase, InsertBase, RetryBase, FailBase DEF WriteStep
  <1>3. CASE LoopFlush
    BY <1>1, <1>3, TakeBase DEF LoopFlush, BaseInv
  <1>4. CASE CloseTask
    <2>1. CASE hybrid
      BY <1>1, <1>4, <2>1, TakeBase DEF CloseTask
    <2>2. CASE ~hybrid
      <3>1. TypeOK'
        BY <1>4, <2>2 DEF CloseTask, BaseInv, TypeOK, taskVars, txVars
      <3> QED
        BY <1>4, <2>2, <3>1 DEF CloseTask, BaseInv, HasLargest, txVars
    <2> QED
      BY <2>1, <2>2
  <1>5. CASE ServerFlush
    BY <1>1, <1>5, TakeBase DEF ServerFlush, Free
  <1> QED
    BY <1>1, <1>2, <1>3, <1>4, <1>5, LoopBase, ServerBase, TaskBase
       DEF Next, LoopStep, ServerStep

\* Every state has the types that TypeOK states, and BaseInv: the counters of
\* attempts and failures stay in their bounds, and a flush that is due finds the
\* writer of the message loop free.
THEOREM TypeCorrect == Spec => []TypeOK
  <1>1. Spec => []BaseInv
    BY InitBase, BaseNext, PTL DEF Spec
  <1>2. BaseInv => TypeOK
    BY DEF BaseInv
  <1> QED
    BY <1>1, <1>2, PTL

-----------------------------------------------------------------------------
(* An event is in one place.                                               *)

Waiting == ToSet(ram) \cup ToSet(batch["loop"]) \cup ToSet(batch["server"])

\* Memory, the two batches and the table have no event in common and none
\* twice.  Together they hold what was accepted and not deleted; in normal mode
\* the batch holds an event that is not accepted yet.
PlaceInv ==
    /\ Once(ram) /\ \A w \in Writer : Once(batch[w])
    /\ \A r, s \in table : r.event = s.event => r = s
    /\ ToSet(batch["loop"]) \cap ToSet(batch["server"]) = {}
    /\ \A w \in Writer : ToSet(batch[w]) \cap (ToSet(ram) \cup StoredEvents) = {}
    /\ ToSet(ram) \cap StoredEvents = {}
    /\ discarded \subseteq accepted
    /\ StoredEvents \subseteq accepted \ discarded
    /\ hybrid => Waiting \subseteq accepted \ discarded
    /\ ~hybrid => Waiting \cap accepted = {}
    /\ accepted \subseteq discarded \cup StoredEvents \cup Waiting
    /\ \A e \in accepted \cup Waiting : e <= sent /\ (phase = "store" => e < sent)

\* At first no event is in any place.
LEMMA PlaceInit == Init => PlaceInv
  <1>1. \A w \in Writer : Init => batch[w] = << >>
    BY DEF Init
  <1> QED
    BY <1>1, ShortSeq DEF Init, PlaceInv, StoredEvents, Waiting, Writer

\* A step that moves no event, and takes up none.
LEMMA PlaceSame ==
    ASSUME PlaceInv,
           UNCHANGED <<hybrid, ram, batch, accepted, discarded, sent>>,
           table' = table \/ table' = {[r EXCEPT !.consumed = TRUE] : r \in table},
           phase' = "store" => phase = "store", BaseInv
    PROVE  PlaceInv'
  <1>1. StoredEvents' = StoredEvents /\ (\A r, s \in table' : r.event = s.event => r = s)
    <2>1. CASE table' = table
      BY <2>1 DEF StoredEvents, PlaceInv
    <2>2. CASE table' = {[r EXCEPT !.consumed = TRUE] : r \in table}
      <3>1. table \subseteq RowType
        BY DEF BaseInv, TypeOK, RowType
      <3>2. \A r \in table : [r EXCEPT !.consumed = TRUE].event = r.event
        BY <3>1 DEF RowType
      <3>3. StoredEvents' = StoredEvents
        BY <2>2, <3>2 DEF StoredEvents
      <3>4. \A r, s \in table : r.event = s.event => r = s
        BY DEF PlaceInv
      <3>5. ASSUME NEW r \in table', NEW s \in table', r.event = s.event
            PROVE  r = s
        <4>1. PICK q \in table : r = [q EXCEPT !.consumed = TRUE]
          BY <2>2
        <4>2. PICK t \in table : s = [t EXCEPT !.consumed = TRUE]
          BY <2>2
        <4>3. q = t
          BY <3>2, <3>4, <3>5, <4>1, <4>2
        <4> QED
          BY <4>1, <4>2, <4>3
      <3> QED
        BY <3>3, <3>5
    <2> QED
      BY <2>1, <2>2
  <1> QED
    BY <1>1 DEF PlaceInv, Waiting

\* An insertion moves a batch into the table.
LEMMA PlaceInsert == ASSUME BaseInv, PlaceInv, NEW w \in Writer, Insert(w) PROVE PlaceInv'
  <1>1. /\ table' = table \cup Rows(w) /\ EndWrite(w)
        /\ accepted' = accepted \cup ToSet(batch[w]) /\ TypeOK
    BY DEF Insert, BaseInv
  <1>2. UNCHANGED <<hybrid, phase, sent, ram, discarded>>
    BY DEF Insert
  <1>3. /\ batch'[w] = << >> /\ ToSet(batch'[w]) = {} /\ Once(batch'[w])
        /\ \A v \in Writer : v # w => batch'[v] = batch[v]
    BY <1>1, AfterWrite, ShortSeq
  <1>4. StoredEvents' = StoredEvents \cup ToSet(batch[w])
    <2>1. {r.event : r \in Rows(w)} = ToSet(batch[w])
      BY <1>1, BatchRows
    <2> QED
      BY <1>1, <2>1 DEF StoredEvents
  <1>5. \A r, s \in table' : r.event = s.event => r = s
    <2>1. ASSUME NEW r \in Rows(w), NEW s \in Rows(w), r.event = s.event
          PROVE  r = s
      <3>1. PICK i \in DOMAIN batch[w] :
              r = [number |-> highest[w] + i, event |-> batch[w][i], consumed |-> FALSE]
        BY DEF Rows
      <3>2. PICK j \in DOMAIN batch[w] :
              s = [number |-> highest[w] + j, event |-> batch[w][j], consumed |-> FALSE]
        BY DEF Rows
      <3>3. batch[w][i] = batch[w][j]
        BY <2>1, <3>1, <3>2
      <3>4. i = j
        BY <3>3 DEF PlaceInv, Once
      <3> QED
        BY <3>1, <3>2, <3>4
    <2>2. \A r \in Rows(w) : r.event \in ToSet(batch[w])
      BY <1>1, BatchRows
    <2>3. \A s \in table : s.event \in StoredEvents
      BY DEF StoredEvents
    <2>4. ToSet(batch[w]) \cap StoredEvents = {}
      BY DEF PlaceInv
    <2>5. \A r, s \in table : r.event = s.event => r = s
      BY DEF PlaceInv
    <2> QED
      BY <1>1, <2>1, <2>2, <2>3, <2>4, <2>5
  <1>6. /\ \A v \in Writer : Once(batch'[v])
        /\ \A v \in Writer : ToSet(batch'[v]) \subseteq ToSet(batch[v])
        /\ \A v \in Writer : ToSet(batch'[v]) \cap ToSet(batch[w]) = {}
        /\ ToSet(batch[w]) \subseteq Waiting
        /\ ToSet(batch'["loop"]) \cap ToSet(batch'["server"]) = {}
    BY <1>3 DEF PlaceInv, Writer, Waiting
  <1>7. Waiting' \subseteq Waiting /\ Waiting' \cap ToSet(batch[w]) = {}
        /\ Waiting \subseteq Waiting' \cup ToSet(batch[w])
    BY <1>2, <1>3, <1>6 DEF Waiting, Writer, PlaceInv
  <1>8. ToSet(batch[w]) \cap discarded = {} /\ ToSet(batch[w]) \cap ToSet(ram) = {}
    BY <1>6 DEF PlaceInv
  <1> QED
    BY <1>1, <1>2, <1>4, <1>5, <1>6, <1>7, <1>8 DEF PlaceInv

\* A batch that could not be written returns to memory; in normal mode its
\* event is given up.
LEMMA PlaceFail == ASSUME BaseInv, PlaceInv, NEW w \in Writer, FailWrite(w) PROVE PlaceInv'
  <1>1. /\ EndWrite(w) /\ ram' = (IF hybrid THEN batch[w] \o ram ELSE ram) /\ TypeOK
    BY DEF FailWrite, PutBack, BaseInv
  <1>2. UNCHANGED <<hybrid, phase, sent, table, accepted, discarded>>
    BY DEF FailWrite
  <1>3. /\ batch'[w] = << >> /\ ToSet(batch'[w]) = {} /\ Once(batch'[w])
        /\ \A v \in Writer : v # w => batch'[v] = batch[v]
    BY <1>1, AfterWrite, ShortSeq
  <1>4. ram \in Seq(Event) /\ batch[w] \in Seq(Event)
    BY <1>1 DEF TypeOK
  <1>5. Once(batch[w]) /\ Once(ram) /\ ToSet(batch[w]) \cap ToSet(ram) = {}
    BY DEF PlaceInv
  <1>6. /\ Once(ram')
        /\ ToSet(ram') = IF hybrid THEN ToSet(batch[w]) \cup ToSet(ram) ELSE ToSet(ram)
    BY <1>1, <1>4, <1>5, ConcatSet
  <1>7. StoredEvents' = StoredEvents
    BY <1>2 DEF StoredEvents
  <1>8. /\ \A v \in Writer : Once(batch'[v])
        /\ \A v \in Writer : ToSet(batch'[v]) \subseteq ToSet(batch[v])
        /\ \A v \in Writer : ToSet(batch'[v]) \cap ToSet(batch[w]) = {}
        /\ ToSet(batch[w]) \subseteq Waiting
        /\ ToSet(batch'["loop"]) \cap ToSet(batch'["server"]) = {}
    BY <1>3 DEF PlaceInv, Writer, Waiting
  <1>9. /\ Waiting' \subseteq Waiting
        /\ hybrid => Waiting' = Waiting
        /\ Waiting \subseteq Waiting' \cup ToSet(batch[w])
    BY <1>3, <1>6, <1>8 DEF Waiting, Writer
  <1>10. \A v \in Writer : ToSet(batch'[v]) \cap (ToSet(ram') \cup StoredEvents') = {}
    BY <1>6, <1>7, <1>8 DEF PlaceInv
  <1>11. ToSet(ram') \cap StoredEvents' = {}
    BY <1>6, <1>7 DEF PlaceInv
  <1>12. accepted' \subseteq discarded' \cup StoredEvents' \cup Waiting'
    <2>1. CASE hybrid
      BY <1>2, <1>7, <1>9, <2>1 DEF PlaceInv
    <2>2. CASE ~hybrid
      BY <1>2, <1>7, <1>8, <1>9, <2>2 DEF PlaceInv
    <2> QED
      BY <2>1, <2>2
  <1> QED
    BY <1>2, <1>6, <1>7, <1>8, <1>9, <1>10, <1>11, <1>12 DEF PlaceInv

\* Taking a batch moves it out of memory.
LEMMA PlaceTake ==
    ASSUME BaseInv, PlaceInv, NEW w \in Writer, TakeBatch(w), step[w] = "none",
           phase' # "store" \/ phase' = phase,
           UNCHANGED <<hybrid, sent, table, accepted, discarded>>
    PROVE  PlaceInv'
  <1>1. TypeOK /\ batch[w] = << >>
    BY DEF BaseInv
  <1>2. /\ ram' = << >> /\ batch'[w] = ram
        /\ \A v \in Writer : v # w => batch'[v] = batch[v]
    BY <1>1, AfterTake
  <1>3. ToSet(ram') = {} /\ Once(ram') /\ ToSet(batch[w]) = {}
    BY <1>1, <1>2, ShortSeq
  <1>4. StoredEvents' = StoredEvents
    BY DEF StoredEvents
  <1>5. /\ \A v \in Writer : Once(batch'[v])
        /\ Waiting' = Waiting
        /\ ToSet(batch'["loop"]) \cap ToSet(batch'["server"]) = {}
        /\ \A v \in Writer : ToSet(batch'[v]) \cap StoredEvents = {}
    BY <1>2, <1>3 DEF PlaceInv, Writer, Waiting
  <1> QED
    BY <1>3, <1>4, <1>5 DEF PlaceInv

\* The steps of the message loop between two events.
LEMMA PlaceLoop ==
    ASSUME BaseInv, PlaceInv, TakeEvent \/ WriteEvent \/ CollectEvent
    PROVE  PlaceInv'
  <1>1. /\ TypeOK /\ ram \in Seq(Event) /\ sent \in 0 .. Final /\ Final \in Nat
        /\ accepted \subseteq Event /\ "loop" \in Writer /\ "server" \in Writer
        /\ batch \in [Writer -> Seq(Event)]
    BY SizeAssumption DEF BaseInv, TypeOK, Writer
  <1>2. Waiting \subseteq Event /\ Event \subseteq Nat
    BY <1>1, SeqSet DEF Waiting, Event
  <1>3. CASE TakeEvent
    <2>1. UNCHANGED <<hybrid, ram, batch, accepted, discarded, table>>
          /\ sent' = sent + 1
      BY <1>3 DEF TakeEvent, txVars
    <2>2. StoredEvents' = StoredEvents /\ Waiting' = Waiting
      BY <2>1 DEF StoredEvents, Waiting
    <2>3. \A e \in accepted \cup Waiting : e \in Nat /\ e <= sent
      BY <1>1, <1>2 DEF PlaceInv, Event
    <2>4. \A e \in accepted \cup Waiting : e <= sent + 1 /\ e < sent + 1
      BY <1>1, <2>3
    <2> QED
      BY <2>1, <2>2, <2>4 DEF PlaceInv
  <1>4. CASE WriteEvent
    <2>1. /\ UNCHANGED <<hybrid, ram, accepted, discarded, table, sent>>
          /\ batch' = [batch EXCEPT !["loop"] = <<sent>>] /\ ~hybrid
          /\ phase = "store" /\ phase' = "idle"
      BY <1>4 DEF WriteEvent
    <2>2. /\ batch'["loop"] = <<sent>> /\ batch'["server"] = batch["server"]
          /\ batch["server"] = << >> /\ ram = << >> /\ sent \in Event
      BY <1>1, <2>1 DEF BaseInv, Event
    <2>3. /\ ToSet(batch'["loop"]) = {sent} /\ Once(batch'["loop"])
          /\ ToSet(batch'["server"]) = {} /\ Once(batch'["server"])
          /\ ToSet(ram') = {} /\ ToSet(ram) = {} /\ Once(ram')
      BY <2>1, <2>2, ShortSeq
    <2>4. batch["loop"] = << >> /\ ToSet(batch["loop"]) = {} /\ ToSet(batch["server"]) = {}
      BY <1>1, <2>1, <2>2, ShortSeq DEF BaseInv
    <2>5. Waiting = {} /\ Waiting' = {sent}
      BY <2>3, <2>4 DEF Waiting
    <2>6. \A e \in accepted : e \in Nat /\ e < sent
      BY <1>1, <1>2, <2>1 DEF PlaceInv
    <2>7. sent \notin accepted
      BY <1>1, <2>6
    <2>8. sent \notin StoredEvents /\ StoredEvents' = StoredEvents
      BY <2>1, <2>7 DEF PlaceInv, StoredEvents
    <2>9. \A e \in accepted' \cup Waiting' : e <= sent' /\ phase' # "store"
      BY <1>1, <2>1, <2>5, <2>6
    <2> QED
      BY <2>1, <2>3, <2>5, <2>7, <2>8, <2>9 DEF PlaceInv, Writer
  <1>5. CASE CollectEvent
    <2>1. /\ UNCHANGED <<hybrid, batch, discarded, table, sent>> /\ hybrid
          /\ ram' = Append(ram, sent) /\ accepted' = accepted \cup {sent}
          /\ phase = "store" /\ phase' # "store"
      BY <1>5 DEF CollectEvent, txVars
    <2>2. sent \in Event
      BY <1>1, <2>1 DEF BaseInv, Event
    <2>3. \A e \in accepted \cup Waiting : e \in Nat /\ e < sent
      BY <1>1, <1>2, <2>1 DEF PlaceInv
    <2>4. sent \notin accepted \cup Waiting
      BY <1>1, <2>3
    <2>5. ram' = ram \o <<sent>>
      BY <1>1, <2>1, <2>2, AppendIsConcat
    <2>6. /\ <<sent>> \in Seq(Event) /\ ToSet(<<sent>>) = {sent} /\ Once(<<sent>>)
      BY <2>2, ShortSeq
    <2>7. ToSet(ram) \cap {sent} = {} /\ Once(ram)
      BY <2>4 DEF Waiting, PlaceInv
    <2>8. ToSet(ram') = ToSet(ram) \cup {sent} /\ Once(ram')
      BY <1>1, <2>5, <2>6, <2>7, ConcatSet
    <2>9. Waiting' = Waiting \cup {sent} /\ StoredEvents' = StoredEvents
      BY <2>1, <2>8 DEF Waiting, StoredEvents
    <2>10. sent \notin StoredEvents /\ sent \notin discarded
      BY <2>4 DEF PlaceInv
    <2>11. \A w \in Writer : sent \notin ToSet(batch[w])
      BY <2>4 DEF Waiting, Writer
    <2>12. \A e \in accepted' \cup Waiting' : e <= sent'
      BY <1>1, <2>1, <2>3, <2>9
    <2> QED
      BY <2>1, <2>8, <2>9, <2>10, <2>11, <2>12 DEF PlaceInv
  <1> QED
    BY <1>3, <1>4, <1>5

\* The deletion of a task's events.
LEMMA PlaceDelete ==
    ASSUME BaseInv, PlaceInv, DiscardRam \/ DeleteRows
    PROVE  PlaceInv'
  <1>1. CASE DiscardRam
    <2>1. /\ UNCHANGED <<hybrid, batch, accepted, table, sent, phase>>
          /\ ram' = << >> /\ discarded' = discarded \cup ToSet(ram)
      BY <1>1 DEF DiscardRam, txVars
    <2>2. ToSet(ram') = {} /\ Once(ram') /\ StoredEvents' = StoredEvents
      BY <2>1, ShortSeq DEF StoredEvents
    <2>3. hybrid => ToSet(ram) \subseteq accepted
      BY DEF PlaceInv, Waiting
    <2>4. ~hybrid => ToSet(ram) = {}
      BY ShortSeq DEF BaseInv
    <2>5. discarded' \subseteq accepted'
      BY <2>1, <2>3, <2>4 DEF PlaceInv
    <2>6. /\ StoredEvents \cap ToSet(ram) = {}
          /\ ToSet(batch["loop"]) \cap ToSet(ram) = {}
          /\ ToSet(batch["server"]) \cap ToSet(ram) = {}
      BY DEF PlaceInv, Writer
    <2>7. /\ Waiting' \subseteq Waiting /\ Waiting' \cap ToSet(ram) = {}
          /\ Waiting \subseteq Waiting' \cup ToSet(ram)
      BY <2>1, <2>2, <2>6 DEF Waiting
    <2> QED
      BY <2>1, <2>2, <2>5, <2>6, <2>7 DEF PlaceInv
  <1>2. CASE DeleteRows
    <2>1. /\ UNCHANGED <<hybrid, ram, batch, accepted, sent, phase>>
          /\ \/ table' = {} /\ discarded' = discarded \cup StoredEvents
             \/ UNCHANGED <<table, discarded>>
      BY <1>2 DEF DeleteRows, txVars
    <2>2. CASE UNCHANGED <<table, discarded>>
      BY <2>1, <2>2, PlaceSame
    <2>3. CASE table' = {} /\ discarded' = discarded \cup StoredEvents
      <3>1. StoredEvents' = {} /\ Waiting' = Waiting
        BY <2>1, <2>3 DEF StoredEvents, Waiting
      <3>2. Waiting \cap StoredEvents = {}
        BY DEF PlaceInv, Waiting, Writer
      <3> QED
        BY <2>1, <2>3, <3>1, <3>2 DEF PlaceInv
    <2> QED
      BY <2>1, <2>2, <2>3
  <1> QED
    BY <1>1, <1>2

\* Every step moves an event from one place to at most one other.
LEMMA PlaceNext == ASSUME BaseInv, PlaceInv, [Next]_vars PROVE PlaceInv'
  <1>1. "loop" \in Writer /\ "server" \in Writer
    BY DEF Writer
  <1>2. ASSUME NEW w \in Writer, WriteStep(w)
        PROVE  PlaceInv'
    <2>1. CASE ReadHighest(w)
      BY <2>1, PlaceSame DEF ReadHighest
    <2>2. CASE Retry(w)
      BY <2>2, PlaceSame DEF Retry
    <2> QED
      BY <1>2, <2>1, <2>2, PlaceInsert, PlaceFail DEF WriteStep
  <1>3. CASE LoopFlush
    BY <1>1, <1>3, PlaceTake DEF LoopFlush, BaseInv
  <1>4. CASE CloseTask
    <2>1. CASE hybrid
      BY <1>1, <1>4, <2>1, PlaceTake DEF CloseTask
    <2>2. CASE ~hybrid
      BY <1>4, <2>2, PlaceSame DEF CloseTask, txVars
    <2> QED
      BY <2>1, <2>2
  <1>5. CASE ServerFlush
    BY <1>1, <1>5, PlaceTake DEF ServerFlush, Free
  <1>6. CASE MarkConsumed
    BY <1>6, PlaceSame DEF MarkConsumed, txVars
  <1>7. CASE RefuseEvent \/ SelectEvents \/ RegisterTask \/ CreateRow \/ UNCHANGED vars
    <2>1. UNCHANGED <<hybrid, ram, batch, accepted, discarded, sent, table>>
      BY <1>7 DEF RefuseEvent, SelectEvents, RegisterTask, CreateRow, vars, txVars
    <2>2. phase' = "store" => phase = "store"
      BY <1>7 DEF RefuseEvent, SelectEvents, RegisterTask, CreateRow, vars
    <2> QED
      BY <2>1, <2>2, PlaceSame
  <1>8. CASE WriteStep("loop") \/ WriteStep("server")
    BY <1>1, <1>2, <1>8
  <1>9. CASE TakeEvent \/ WriteEvent \/ CollectEvent
    BY <1>9, PlaceLoop
  <1>10. CASE DiscardRam \/ DeleteRows
    BY <1>10, PlaceDelete
  <1> QED
    BY <1>3, <1>4, <1>5, <1>6, <1>7, <1>8, <1>9, <1>10 DEF Next, LoopStep, ServerStep

\* A sequence without repetitions has an element in one position.
LEMMA OnePlace ==
    ASSUME NEW s \in Seq(Event), Once(s), NEW e
    PROVE  Cardinality(Places(e, s)) = IF e \in ToSet(s) THEN 1 ELSE 0
  <1>1. CASE e \in ToSet(s)
    <2>1. PICK i \in DOMAIN s : s[i] = e
      BY <1>1 DEF ToSet
    <2>2. Places(e, s) = {i}
      BY <2>1 DEF Places, Once
    <2> QED
      BY <1>1, <2>2, FS_Singleton
  <1>2. CASE e \notin ToSet(s)
    <2>1. Places(e, s) = {}
      BY <1>2 DEF Places, ToSet
    <2> QED
      BY <1>2, <2>1, FS_EmptySet
  <1> QED
    BY <1>1, <1>2

\* One place for each event means that the copies of each are counted once.
LEMMA PlaceCounts == BaseInv /\ PlaceInv => KeptOnce
  <1> SUFFICES ASSUME BaseInv, PlaceInv, NEW e \in accepted
               PROVE  Copies(e) = (IF e \in discarded THEN 0 ELSE 1)
    BY DEF KeptOnce
  <1>1. /\ ram \in Seq(Event) /\ Once(ram)
        /\ \A w \in Writer : batch[w] \in Seq(Event) /\ Once(batch[w])
        /\ "loop" \in Writer /\ "server" \in Writer
    BY DEF BaseInv, TypeOK, PlaceInv, Writer
  <1>2. /\ Cardinality(Places(e, ram)) = (IF e \in ToSet(ram) THEN 1 ELSE 0)
        /\ Cardinality(Places(e, batch["loop"])) = (IF e \in ToSet(batch["loop"]) THEN 1 ELSE 0)
        /\ Cardinality(Places(e, batch["server"]))
             = (IF e \in ToSet(batch["server"]) THEN 1 ELSE 0)
    BY <1>1, OnePlace
  <1>3. Cardinality({r \in table : r.event = e}) = (IF e \in StoredEvents THEN 1 ELSE 0)
    <2>1. CASE e \in StoredEvents
      <3>1. PICK r \in table : r.event = e
        BY <2>1 DEF StoredEvents
      <3>2. {s \in table : s.event = e} = {r}
        BY <3>1 DEF PlaceInv
      <3> QED
        BY <2>1, <3>2, FS_Singleton
    <2>2. CASE e \notin StoredEvents
      <3>1. {s \in table : s.event = e} = {}
        BY <2>2 DEF StoredEvents
      <3> QED
        BY <2>2, <3>1, FS_EmptySet
    <2> QED
      BY <2>1, <2>2
  <1>4. /\ e \in ToSet(ram) => /\ e \notin ToSet(batch["loop"]) /\ e \notin ToSet(batch["server"])
                               /\ e \notin StoredEvents
        /\ e \in ToSet(batch["loop"]) => e \notin ToSet(batch["server"]) /\ e \notin StoredEvents
        /\ e \in ToSet(batch["server"]) => e \notin StoredEvents
    BY <1>1 DEF PlaceInv
  <1>5. e \in discarded => e \notin Waiting /\ e \notin StoredEvents
    BY DEF PlaceInv
  <1>6. e \notin discarded => e \in Waiting \/ e \in StoredEvents
    BY DEF PlaceInv
  <1> QED
    BY <1>2, <1>3, <1>4, <1>5, <1>6 DEF Copies, Waiting

\* Whatever fails, collides, is deleted or is flushed by two threads at once: an
\* event that buffer_event accepted is in memory, in a batch or in the table,
\* and in one of them once, until it is deleted.  For this PlaceInv says of
\* every place what may be in it, and PlaceNext how each step moves events.
THEOREM NeitherLostNorDoubled == Spec => []KeptOnce
  <1>1. Init => BaseInv /\ PlaceInv
    BY InitBase, PlaceInit
  <1>2. BaseInv /\ PlaceInv /\ [Next]_vars => (BaseInv /\ PlaceInv)'
    BY BaseNext, PlaceNext
  <1>3. Spec => [](BaseInv /\ PlaceInv)
    BY <1>1, <1>2, PTL DEF Spec
  <1> QED
    BY <1>3, PlaceCounts, PTL

-----------------------------------------------------------------------------
(* The order of the stored events.                                         *)

\* As long as no batch was taken during another: what is stored comes before
\* what is being written, and this before what is in memory; an insertion uses
\* a number that is still the largest.
OrderInv == ~overlapped =>
    /\ batch["loop"] = << >> \/ batch["server"] = << >>
    /\ \A r, s \in table : r.number < s.number => r.event < s.event
    /\ Before(StoredEvents, ToSet(ram)) /\ Rising(ram)
    /\ \A w \in Writer :
         /\ Rising(batch[w])
         /\ Before(StoredEvents, ToSet(batch[w])) /\ Before(ToSet(batch[w]), ToSet(ram))
         /\ step[w] = "insert" => \A r \in table : r.number <= highest[w]

\* An empty table is in order.
LEMMA OrderInit == Init => OrderInv
  <1>1. Init => StoredEvents = {} /\ ToSet(ram) = {}
    BY ShortSeq DEF Init, StoredEvents
  <1>2. \A w \in Writer : Init => batch[w] = << >> /\ step[w] = "none"
    BY DEF Init
  <1> QED
    BY <1>1, <1>2, ShortSeq DEF Init, OrderInv, Before, Writer

\* A step that changes no sequence; the table keeps its numbers and events, or
\* is emptied.
LEMMA OrderSame ==
    ASSUME BaseInv, OrderInv, UNCHANGED <<ram, batch, overlapped>>,
           \/ table' = table
           \/ table' = {}
           \/ table' = {[r EXCEPT !.consumed = TRUE] : r \in table},
           \A w \in Writer : step'[w] = "insert" =>
             \/ step[w] = "insert" /\ highest'[w] = highest[w]
             \/ \A r \in table : r.number <= highest'[w]
    PROVE  OrderInv'
  <1>1. \A r \in table' : \E q \in table : r.number = q.number /\ r.event = q.event
    <2>1. table \subseteq RowType
      BY DEF BaseInv, TypeOK, RowType
    <2>2. \A q \in table : /\ [q EXCEPT !.consumed = TRUE].number = q.number
                           /\ [q EXCEPT !.consumed = TRUE].event = q.event
      BY <2>1 DEF RowType
    <2>3. CASE table' = {[r EXCEPT !.consumed = TRUE] : r \in table}
      <3> TAKE r \in table'
      <3>1. PICK q \in table : r = [q EXCEPT !.consumed = TRUE]
        BY <2>3
      <3>2. r.number = q.number /\ r.event = q.event
        BY <2>2, <3>1
      <3> QED
        BY <3>2
    <2>4. CASE table' = table \/ table' = {}
      BY <2>4
    <2> QED
      BY <2>3, <2>4
  <1>2. StoredEvents' \subseteq StoredEvents
    BY <1>1 DEF StoredEvents
  <1> SUFFICES ASSUME ~overlapped
               PROVE  OrderInv'
    BY DEF OrderInv
  <1>3. \A r, s \in table' : r.number < s.number => r.event < s.event
    BY <1>1 DEF OrderInv
  <1>4. \A w \in Writer : step'[w] = "insert" => \A r \in table' : r.number <= highest'[w]
    <2> SUFFICES ASSUME NEW w \in Writer, step'[w] = "insert", NEW r \in table'
                 PROVE  r.number <= highest'[w]
      OBVIOUS
    <2>1. PICK q \in table : r.number = q.number
      BY <1>1
    <2>2. q.number <= highest'[w]
      BY DEF OrderInv
    <2> QED
      BY <2>1, <2>2
  <1> QED
    BY <1>2, <1>3, <1>4 DEF OrderInv, Before

\* The number that a transaction reads is at least all those in the table.
LEMMA OrderRead == ASSUME BaseInv, OrderInv, NEW w \in Writer, ReadHighest(w) PROVE OrderInv'
  <1> DEFINE top == Max({0} \cup {r.number : r \in table})
  <1>1. \A r \in table : r.number <= top
    BY LargestNumber DEF BaseInv
  <1> HIDE DEF top
  <1>2. /\ step' = [step EXCEPT ![w] = "insert"]
        /\ highest' = [highest EXCEPT ![w] = top]
        /\ UNCHANGED <<ram, batch, overlapped>> /\ table' = table
    BY DEF ReadHighest, top
  <1>3. /\ step \in [Writer -> {"none", "query", "insert"}]
        /\ highest \in [Writer -> Nat]
    BY DEF BaseInv, TypeOK
  <1>4. \A v \in Writer : step'[v] = "insert" =>
          \/ step[v] = "insert" /\ highest'[v] = highest[v]
          \/ \A r \in table : r.number <= highest'[v]
    <2> TAKE v \in Writer
    <2>1. CASE v = w
      BY <1>1, <1>2, <1>3, <2>1
    <2>2. CASE v # w
      BY <1>2, <1>3, <2>2
    <2> QED
      BY <2>1, <2>2
  <1> QED
    BY <1>2, <1>4, OrderSame

\* The new rows follow the old ones, in the order of the batch.
LEMMA OrderInsert ==
    ASSUME BaseInv, OrderInv, NEW w \in Writer, Insert(w)
    PROVE  OrderInv'
  <1>1. /\ table' = table \cup Rows(w) /\ EndWrite(w) /\ TypeOK
        /\ step[w] = "insert" /\ batch[w] # << >>
        /\ UNCHANGED <<ram, overlapped>>
    BY DEF Insert, BaseInv
  <1> SUFFICES ASSUME ~overlapped
               PROVE  OrderInv'
    BY <1>1 DEF OrderInv
  <1>2. /\ batch'[w] = << >> /\ ToSet(batch'[w]) = {} /\ Rising(batch'[w])
        /\ step'[w] = "none"
        /\ \A v \in Writer : v # w => batch'[v] = batch[v] /\ step'[v] = step[v]
    BY <1>1, AfterWrite, ShortSeq
  <1>3. \A v \in Writer : v # w => batch[v] = << >> /\ step[v] = "none"
    BY <1>1 DEF BaseInv, OrderInv, Writer
  <1>4. \A v \in Writer : batch'[v] = << >> /\ ToSet(batch'[v]) = {} /\ Rising(batch'[v])
                          /\ step'[v] = "none"
    BY <1>2, <1>3, ShortSeq
  <1>5. StoredEvents' = StoredEvents \cup ToSet(batch[w])
    <2>1. {r.event : r \in Rows(w)} = ToSet(batch[w])
      BY <1>1, BatchRows
    <2> QED
      BY <1>1, <2>1 DEF StoredEvents
  <1>6. Before(StoredEvents', ToSet(ram'))
    <2>1. Before(StoredEvents, ToSet(ram)) /\ Before(ToSet(batch[w]), ToSet(ram))
      BY DEF OrderInv
    <2> QED
      BY <1>1, <1>5, <2>1 DEF Before
  <1>7. ASSUME NEW r \in table', NEW s \in table', r.number < s.number
        PROVE  r.event < s.event
    <2>1. /\ highest[w] \in Nat /\ Len(batch[w]) \in Nat
          /\ DOMAIN batch[w] = 1 .. Len(batch[w])
      BY <1>1, BatchRows
    <2>2. CASE r \in table /\ s \in table
      BY <1>7, <2>2 DEF OrderInv
    <2>3. CASE r \in table /\ s \in Rows(w)
      <3>1. r.event \in StoredEvents /\ s.event \in ToSet(batch[w])
        BY <1>1, <2>3, BatchRows DEF StoredEvents
      <3>2. Before(StoredEvents, ToSet(batch[w]))
        BY DEF OrderInv
      <3> QED
        BY <3>1, <3>2 DEF Before
    <2>4. CASE r \in Rows(w) /\ s \in table
      <3>1. PICK i \in 1 .. Len(batch[w]) : r.number = highest[w] + i
        BY <1>1, <2>4, BatchRows
      <3>2. s.number <= highest[w] /\ s.number \in Nat
        BY <1>1, <2>4 DEF OrderInv, TypeOK
      <3> QED
        BY <1>7, <2>1, <3>1, <3>2
    <2>5. CASE r \in Rows(w) /\ s \in Rows(w)
      <3>1. PICK i \in 1 .. Len(batch[w]) : r.number = highest[w] + i /\ r.event = batch[w][i]
        BY <1>1, <2>5, BatchRows
      <3>2. PICK j \in 1 .. Len(batch[w]) : s.number = highest[w] + j /\ s.event = batch[w][j]
        BY <1>1, <2>5, BatchRows
      <3>3. i < j
        BY <1>7, <2>1, <3>1, <3>2
      <3>4. Rising(batch[w])
        BY DEF OrderInv
      <3> QED
        BY <2>1, <3>1, <3>2, <3>3, <3>4 DEF Rising
    <2> QED
      BY <1>1, <2>2, <2>3, <2>4, <2>5
  <1>8. Rising(ram')
    BY <1>1 DEF OrderInv
  <1> QED
    BY <1>4, <1>6, <1>7, <1>8 DEF OrderInv, Before, Writer

\* A batch that is put back comes before the rest of memory.
LEMMA OrderFail ==
    ASSUME BaseInv, OrderInv, NEW w \in Writer, FailWrite(w)
    PROVE  OrderInv'
  <1>1. /\ EndWrite(w) /\ ram' = (IF hybrid THEN batch[w] \o ram ELSE ram) /\ TypeOK
        /\ UNCHANGED <<table, overlapped>> /\ step[w] # "none" /\ batch[w] # << >>
        /\ ram \in Seq(Event) /\ batch[w] \in Seq(Event)
    BY DEF FailWrite, PutBack, BaseInv, TypeOK
  <1> SUFFICES ASSUME ~overlapped
               PROVE  OrderInv'
    BY <1>1 DEF OrderInv
  <1>2. /\ batch'[w] = << >> /\ step'[w] = "none"
        /\ \A v \in Writer : v # w => batch'[v] = batch[v] /\ step'[v] = step[v]
    BY <1>1, AfterWrite
  <1>3. \A v \in Writer : v # w => batch[v] = << >> /\ step[v] = "none"
    BY <1>1 DEF BaseInv, OrderInv, Writer
  <1>4. \A v \in Writer : batch'[v] = << >> /\ ToSet(batch'[v]) = {} /\ Rising(batch'[v])
                          /\ step'[v] = "none"
    BY <1>2, <1>3, ShortSeq
  <1>5. /\ Rising(batch[w]) /\ Rising(ram) /\ Before(ToSet(batch[w]), ToSet(ram))
        /\ Before(StoredEvents, ToSet(batch[w])) /\ Before(StoredEvents, ToSet(ram))
        /\ \A r, s \in table : r.number < s.number => r.event < s.event
    BY DEF OrderInv
  <1>6. Rising(ram') /\ ToSet(ram') \subseteq ToSet(batch[w]) \cup ToSet(ram)
    BY <1>1, <1>5, ConcatSet
  <1>7. StoredEvents' = StoredEvents
    BY <1>1 DEF StoredEvents
  <1>8. Before(StoredEvents', ToSet(ram'))
    BY <1>5, <1>6, <1>7 DEF Before
  <1> QED
    BY <1>1, <1>4, <1>5, <1>6, <1>8 DEF OrderInv, Before, Writer

\* Taking a batch during another one sets overlapped.
LEMMA OrderTake ==
    ASSUME BaseInv, OrderInv, NEW w \in Writer, TakeBatch(w), step[w] = "none",
           table' = table
    PROVE  OrderInv'
  <1>1. TypeOK
    BY DEF BaseInv
  <1>2. /\ ram' = << >> /\ batch'[w] = ram
        /\ step'[w] = IF ram = << >> THEN "none" ELSE "query"
        /\ \A v \in Writer : v # w => batch'[v] = batch[v] /\ step'[v] = step[v]
        /\ overlapped' = (overlapped \/ (ram # << >> /\ batch[Other(w)] # << >>))
        /\ highest' = highest
    BY <1>1, AfterTake
  <1> SUFFICES ASSUME ~overlapped, ram = << >> \/ batch[Other(w)] = << >>
               PROVE  OrderInv'
    BY <1>2 DEF OrderInv
  <1>3. ToSet(ram') = {} /\ Rising(ram') /\ StoredEvents' = StoredEvents
    BY <1>2, ShortSeq DEF StoredEvents
  <1>4. batch'["loop"] = << >> \/ batch'["server"] = << >>
    BY <1>2, TwoWriters DEF Writer
  <1>5. \A v \in Writer : /\ Rising(batch'[v])
                          /\ Before(StoredEvents', ToSet(batch'[v]))
                          /\ Before(ToSet(batch'[v]), ToSet(ram'))
                          /\ step'[v] = "insert" => \A r \in table' : r.number <= highest'[v]
    <2> TAKE v \in Writer
    <2>1. Before(ToSet(batch'[v]), ToSet(ram'))
      BY <1>3 DEF Before
    <2>2. CASE v = w
      BY <1>2, <1>3, <2>1, <2>2 DEF OrderInv
    <2>3. CASE v # w
      BY <1>2, <1>3, <2>1, <2>3 DEF OrderInv
    <2> QED
      BY <2>2, <2>3
  <1>6. \A r, s \in table' : r.number < s.number => r.event < s.event
    BY DEF OrderInv
  <1>7. Before(StoredEvents', ToSet(ram'))
    BY <1>3 DEF Before
  <1> QED
    BY <1>3, <1>4, <1>5, <1>6, <1>7 DEF OrderInv

\* A new event is later than all the others.
LEMMA OrderNew ==
    ASSUME BaseInv, PlaceInv, OrderInv, WriteEvent \/ CollectEvent
    PROVE  OrderInv'
  <1>1. /\ TypeOK /\ ram \in Seq(Event) /\ sent \in 0 .. Final /\ Final \in Nat
        /\ accepted \subseteq Event /\ "loop" \in Writer /\ "server" \in Writer
        /\ batch \in [Writer -> Seq(Event)]
        /\ step \in [Writer -> {"none", "query", "insert"}]
    BY SizeAssumption DEF BaseInv, TypeOK, Writer
  <1>2. /\ UNCHANGED <<table, overlapped, highest, sent>> /\ phase = "store"
        /\ sent \in Event /\ StoredEvents' = StoredEvents
    BY <1>1 DEF WriteEvent, CollectEvent, BaseInv, txVars, StoredEvents, Event
  <1>3. \A e \in accepted \cup Waiting : e < sent
    BY <1>2 DEF PlaceInv
  <1>4. \A e \in StoredEvents : e < sent
    BY <1>3 DEF PlaceInv
  <1>5. <<sent>> \in Seq(Event) /\ ToSet(<<sent>>) = {sent} /\ Rising(<<sent>>)
    BY <1>2, ShortSeq
  <1> SUFFICES ASSUME ~overlapped
               PROVE  OrderInv'
    BY <1>2 DEF OrderInv
  <1>6. CASE WriteEvent
    <2>1. /\ batch' = [batch EXCEPT !["loop"] = <<sent>>] /\ ram' = ram /\ ~hybrid
          /\ step' = [step EXCEPT !["loop"] = "query"]
      BY <1>6 DEF WriteEvent
    <2>2. ram = << >> /\ batch["server"] = << >> /\ ToSet(ram') = {} /\ Rising(ram')
      BY <2>1, ShortSeq DEF BaseInv
    <2>3. /\ batch'["loop"] = <<sent>> /\ batch'["server"] = << >>
          /\ ToSet(batch'["server"]) = {} /\ Rising(batch'["server"])
          /\ step'["loop"] = "query" /\ step'["server"] = step["server"]
      BY <1>1, <2>1, <2>2, ShortSeq
    <2>4. Before(StoredEvents, {sent})
      BY <1>4 DEF Before
    <2>5. \A E : Before(E, {})
      BY DEF Before
    <2>6. \A w \in Writer :
            /\ Rising(batch'[w])
            /\ Before(StoredEvents', ToSet(batch'[w])) /\ Before(ToSet(batch'[w]), ToSet(ram'))
            /\ step'[w] = "insert" => \A r \in table' : r.number <= highest'[w]
      BY <1>2, <1>5, <2>2, <2>3, <2>4, <2>5 DEF Writer, OrderInv
    <2> QED
      BY <1>2, <2>2, <2>3, <2>5, <2>6 DEF OrderInv
  <1>7. CASE CollectEvent
    <2>1. ram' = Append(ram, sent) /\ UNCHANGED <<batch, step>>
      BY <1>7 DEF CollectEvent, txVars
    <2>2. ram' = ram \o <<sent>>
      BY <1>1, <1>2, <2>1, AppendIsConcat
    <2>3. Before(ToSet(ram), ToSet(<<sent>>)) /\ Rising(ram)
      BY <1>3, <1>5 DEF Before, Waiting, OrderInv
    <2>4. Rising(ram') /\ ToSet(ram') = ToSet(ram) \cup {sent}
      BY <1>1, <1>5, <2>2, <2>3, ConcatSet
    <2>5. Before(StoredEvents', ToSet(ram'))
      BY <1>2, <1>4, <2>4 DEF Before, OrderInv
    <2>6. \A w \in Writer : Before(ToSet(batch'[w]), ToSet(ram'))
      <3> TAKE w \in Writer
      <3>1. \A e \in ToSet(batch[w]) : e < sent
        BY <1>3 DEF Waiting, Writer
      <3>2. Before(ToSet(batch[w]), ToSet(ram))
        BY DEF OrderInv
      <3> QED
        BY <2>1, <2>4, <3>1, <3>2 DEF Before
    <2> QED
      BY <1>2, <2>1, <2>4, <2>5, <2>6 DEF OrderInv
  <1> QED
    BY <1>6, <1>7

\* A deletion takes events away.
LEMMA OrderDiscard == ASSUME OrderInv, DiscardRam PROVE OrderInv'
  <1>1. /\ UNCHANGED <<batch, step, highest, table, overlapped>> /\ ram' = << >>
        /\ StoredEvents' = StoredEvents
    BY DEF DiscardRam, txVars, StoredEvents
  <1>2. ToSet(ram') = {} /\ Rising(ram')
    BY <1>1, ShortSeq
  <1>3. \A E : Before(E, {})
    BY DEF Before
  <1> QED
    BY <1>1, <1>2, <1>3 DEF OrderInv

\* Every step keeps the order, or two batches are under way at once.
LEMMA OrderNext == ASSUME BaseInv, PlaceInv, OrderInv, [Next]_vars PROVE OrderInv'
  <1>1. "loop" \in Writer /\ "server" \in Writer
    BY DEF Writer
  <1>2. ASSUME NEW w \in Writer, Retry(w)
        PROVE  OrderInv'
    <2>1. step \in [Writer -> {"none", "query", "insert"}] /\ highest \in [Writer -> Nat]
      BY DEF BaseInv, TypeOK
    <2>2. /\ step' = [step EXCEPT ![w] = "query"] /\ highest' = [highest EXCEPT ![w] = 0]
          /\ UNCHANGED <<ram, batch, overlapped>> /\ table' = table
      BY <1>2 DEF Retry
    <2>3. \A v \in Writer : step'[v] = "insert" => step[v] = "insert" /\ highest'[v] = highest[v]
      BY <2>1, <2>2
    <2> QED
      BY <2>2, <2>3, OrderSame
  <1>3. CASE WriteStep("loop") \/ WriteStep("server")
    BY <1>1, <1>2, <1>3, OrderRead, OrderInsert, OrderFail DEF WriteStep
  <1>4. CASE LoopFlush
    BY <1>1, <1>4, OrderTake DEF LoopFlush, BaseInv
  <1>5. CASE CloseTask
    <2>1. CASE hybrid
      BY <1>1, <1>5, <2>1, OrderTake DEF CloseTask
    <2>2. CASE ~hybrid
      BY <1>5, <2>2, OrderSame DEF CloseTask, txVars
    <2> QED
      BY <2>1, <2>2
  <1>6. CASE ServerFlush
    BY <1>1, <1>6, OrderTake DEF ServerFlush, Free
  <1>7. CASE DeleteRows \/ MarkConsumed
    <2>1. UNCHANGED <<ram, batch, overlapped, step, highest>>
      BY <1>7 DEF DeleteRows, MarkConsumed, txVars
    <2>2. \/ table' = table \/ table' = {}
          \/ table' = {[r EXCEPT !.consumed = TRUE] : r \in table}
      BY <1>7 DEF DeleteRows, MarkConsumed
    <2> QED
      BY <2>1, <2>2, OrderSame
  <1>8. CASE TakeEvent \/ RefuseEvent \/ SelectEvents \/ RegisterTask \/ CreateRow \/ UNCHANGED vars
    <2>1. UNCHANGED <<ram, batch, overlapped, step, highest>> /\ table' = table
      BY <1>8 DEF TakeEvent, RefuseEvent, SelectEvents, RegisterTask, CreateRow, vars, txVars
    <2> QED
      BY <2>1, OrderSame
  <1>9. CASE WriteEvent \/ CollectEvent
    BY <1>9, OrderNew
  <1>10. CASE DiscardRam
    BY <1>10, OrderDiscard
  <1> QED
    BY <1>3, <1>4, <1>5, <1>6, <1>7, <1>8, <1>9, <1>10 DEF Next, LoopStep, ServerStep

\* The numbers of the table are the order of emission, and what is stored comes
\* before what is in memory, unless two batches were under way at once: the
\* queries and insertions of one batch find a number that nobody uses, and a
\* batch that failed returns to the front.
THEOREM OrderIsKept == Spec => []StoredInOrder
  <1>1. Init => BaseInv /\ PlaceInv /\ OrderInv
    BY InitBase, PlaceInit, OrderInit
  <1>2. BaseInv /\ PlaceInv /\ OrderInv /\ [Next]_vars => (BaseInv /\ PlaceInv /\ OrderInv)'
    BY BaseNext, PlaceNext, OrderNext
  <1>3. BaseInv /\ OrderInv => StoredInOrder
    <2> SUFFICES ASSUME BaseInv, OrderInv, ~overlapped
                 PROVE  StoredInOrder
      BY DEF StoredInOrder
    <2>1. \A i \in DOMAIN ram : ram[i] \in ToSet(ram)
      BY DEF ToSet
    <2> QED
      BY <2>1 DEF StoredInOrder, OrderInv, Before, Rising
  <1>4. Spec => [](BaseInv /\ PlaceInv /\ OrderInv)
    BY <1>1, <1>2, PTL DEF Spec
  <1> QED
    BY <1>3, <1>4, PTL
=============================================================================
