---------------------------- MODULE DnsActivityProofs ----------------------------
(***************************************************************************)
(* Theorems about DnsActivity for any DNS servers, look-back, window and   *)
(* bounds.                                                                 *)
(*                                                                         *)
(* The argument: the lines a cursor passes are those the fetch returned,   *)
(* and new lines are later than the cursor; so what lies between where     *)
(* this process began to read and the cursor was fetched, and fetched once *)
(* only.                                                                   *)
(***************************************************************************)
EXTENDS DnsActivity, MaxTheorems, FiniteSetTheorems, TLAPS

(* Max of times, Unknown among them. *)
LEMMA LatestTime ==
  ASSUME NEW T, NEW b \in Nat, T \subseteq -1..b, T # {}
  PROVE  Max(T) \in T /\ \A y \in T : Max(T) >= y
<1> DEFINE N == T \cap 0..b
<1>1. PICK m \in T : \A y \in T : m >= y
  <2>1. CASE N # {}
    <3>1. Max(N) \in N /\ \A y \in N : Max(N) >= y
      BY <2>1, MaxIsGreatest
    <3> HIDE DEF N
    <3>2. PICK x \in N : \A y \in N : x >= y
      BY <3>1
    <3>3. \A y \in T : y \in N \/ y = -1
      BY DEF N
    <3>4. x \in Nat /\ x \in T
      BY DEF N
    <3>5. \A y \in T : x >= y
      BY <3>2, <3>3, <3>4
    <3> QED BY <3>4, <3>5
  <2>2. CASE N = {}
    <3>1. \A y \in T : y = -1
      BY <2>2
    <3>2. -1 \in T
      BY <3>1
    <3>3. \A y \in T : -1 >= y
      BY <3>1
    <3> QED BY <3>2, <3>3
  <2> QED BY <2>1, <2>2
<1> QED BY <1>1 DEF Max

LEMMA SourcesCounted ==
  /\ Len(Sources) \in Nat /\ S = 1..Len(Sources) /\ Done = Len(Sources) + 1
  /\ IsFiniteSet(S)
BY SourcesAssumption, FS_Interval DEF S, Done

(* Lines are found in the logs. *)
Logged(p) == \E s \in S : \E i \in LinesOf(s) : p = <<s, i>>

TypeInv ==
  /\ TypeOK
  /\ lives >= 1
  /\ \A s \in S : Len(log[s]) <= MaxLines
  /\ \A p \in got \cup lost : Logged(p)

LEMMA LogFacts ==
  ASSUME TypeOK, NEW s \in S
  PROVE  /\ log[s] \in Seq(Line) /\ rows[s] \in Seq(Nat) /\ Len(log[s]) \in Nat
         /\ LinesOf(s) = 1..Len(log[s]) /\ DOMAIN rows[s] = 1..Len(log[s])
         /\ \A i \in LinesOf(s) : log[s][i].at \in 0..MaxNow /\ log[s][i].query \in BOOLEAN
         /\ since[s] \in -1..MaxNow /\ from[s] \in Int
<1>1. log[s] \in Seq(Line) /\ rows[s] \in Seq(Nat) /\ Len(rows[s]) = Len(log[s])
        /\ since[s] \in -1..MaxNow /\ from[s] \in Int
  BY DEF TypeOK
<1>2. Len(log[s]) \in Nat /\ LinesOf(s) = 1..Len(log[s]) /\ DOMAIN rows[s] = 1..Len(log[s])
  BY <1>1 DEF LinesOf
<1>3. \A i \in LinesOf(s) : log[s][i] \in Line
  BY <1>1, <1>2
<1> QED BY <1>1, <1>2, <1>3 DEF Line

(* Where another line may be written, every container has room for it. *)
LEMMA RoomForOne ==
  ASSUME TypeInv, NEW s \in S,
         Cardinality(UNION {{<<c, i>> : i \in LinesOf(c)} : c \in S}) < MaxLines
  PROVE  Len(log[s]) + 1 <= MaxLines
<1> DEFINE All == UNION {{<<c, i>> : i \in LinesOf(c)} : c \in S}
           Mine == {<<s, i>> : i \in LinesOf(s)}
           n == Len(log[s])
<1>1. n \in Nat /\ LinesOf(s) = 1..n /\ MaxLines \in Nat
  BY LogFacts, BoundsAssumption DEF TypeInv
<1>2. IsFiniteSet(S \X (1..MaxLines))
  <2>1. IsFiniteSet(1..MaxLines)
    BY <1>1, FS_Interval
  <2> QED BY <2>1, SourcesCounted, FS_Product
<1>3. All \in SUBSET (S \X (1..MaxLines))
  <2> SUFFICES ASSUME NEW c \in S, NEW i \in LinesOf(c) PROVE <<c, i>> \in S \X (1..MaxLines)
    OBVIOUS
  <2>1. LinesOf(c) = 1..Len(log[c]) /\ Len(log[c]) \in Nat /\ Len(log[c]) <= MaxLines
    BY LogFacts DEF TypeInv
  <2> QED BY <1>1, <2>1
<1>4. IsFiniteSet(All) /\ Cardinality(All) \in Nat
  BY <1>2, <1>3, FS_Subset, FS_CardinalityType
<1>5. Mine \in SUBSET All
  OBVIOUS
<1>6. IsFiniteSet(Mine) /\ Cardinality(Mine) <= Cardinality(All)
  BY <1>4, <1>5, FS_Subset
<1>7. IsFiniteSet(1..n) /\ Cardinality(1..n) = n
  BY <1>1, FS_Interval
<1>8. Cardinality(1..n) <= Cardinality(Mine)
  <2> DEFINE f == [i \in 1..n |-> <<s, i>>]
  <2>1. f \in [1..n -> Mine]
    BY <1>1
  <2>2. \A i, j \in 1..n : f[i] = f[j] => i = j
    OBVIOUS
  <2> HIDE DEF f, Mine
  <2>3. f \in Injection(1..n, Mine)
    BY <2>1, <2>2 DEF Injection, IsInjective
  <2> QED BY <1>6, <2>3, FS_Injection
<1>9. Cardinality(All) < MaxLines /\ Cardinality(Mine) \in Nat
  BY <1>6, FS_CardinalityType
<1> HIDE DEF All, Mine
<1> QED BY <1>1, <1>4, <1>6, <1>7, <1>8, <1>9

(* What a fetch does to the cursor. *)
LEMMA FetchMoves ==
  ASSUME TypeOK, NEW s \in S, Fetch(s)
  PROVE  /\ since'[s] \in -1..MaxNow /\ since'[s] >= since[s]
         /\ \A i \in Queries(s) : log[s][i].at <= since'[s]
         /\ \A c \in S : c # s => since'[c] = since[c] /\ from'[c] = from[c]
         /\ from'[s] = IF since[s] = Unknown THEN now - LookBack ELSE from[s]
         /\ from' \in [S -> Int] /\ since' \in [S -> -1..MaxNow]
<1> DEFINE T == {since[s]} \cup {log[s][i].at : i \in Queries(s)}
<1>1. since \in [S -> -1..MaxNow] /\ from \in [S -> Int] /\ MaxNow \in Nat /\ now - LookBack \in Int
  BY BoundsAssumption, TimesAssumption DEF TypeOK
<1>2. T \subseteq -1..MaxNow /\ T # {}
  <2>1. since[s] \in -1..MaxNow /\ \A i \in LinesOf(s) : log[s][i].at \in 0..MaxNow
    BY LogFacts
  <2>2. \A i \in Queries(s) : i \in LinesOf(s)
    BY DEF Queries, Behind
  <2> QED BY <1>1, <2>1, <2>2
<1>3. Max(T) \in T /\ \A y \in T : Max(T) >= y
  BY <1>1, <1>2, LatestTime
<1>4. since'[s] = Max(T) /\ \A c \in S : c # s => since'[c] = since[c]
  BY <1>1 DEF Fetch
<1>5. Max(T) \in -1..MaxNow /\ Max(T) >= since[s] /\ \A i \in Queries(s) : log[s][i].at <= Max(T)
  <2>1. Max(T) >= since[s] /\ \A i \in Queries(s) : Max(T) >= log[s][i].at
    BY <1>3
  <2>2. \A i \in Queries(s) : log[s][i].at \in Int
    BY LogFacts DEF Queries, Behind
  <2>3. Max(T) \in -1..MaxNow
    BY <1>2, <1>3
  <2> HIDE DEF T
  <2> QED BY <2>1, <2>2, <2>3
<1> HIDE DEF T
<1>6. since' \in [S -> -1..MaxNow]
  <2>1. since' = [since EXCEPT ![s] = Max(T)]
    BY DEF Fetch, T
  <2> QED BY <1>1, <1>5, <2>1
<1>7. from' \in [S -> Int] /\ \A c \in S : c # s => from'[c] = from[c]
  BY <1>1 DEF Fetch
<1>8. from'[s] = IF since[s] = Unknown THEN now - LookBack ELSE from[s]
  BY <1>1 DEF Fetch
<1> QED BY <1>4, <1>5, <1>6, <1>7, <1>8
-----------------------------------------------------------------------------
(* What a written line changes. *)
LEMMA WriteAppends ==
  ASSUME TypeInv, NEW s \in S, NEW query \in BOOLEAN, Write(s, query)
  PROVE  /\ log' \in [S -> Seq(Line)] /\ rows' \in [S -> Seq(Nat)]
         /\ \A c \in S : Len(rows'[c]) = Len(log'[c]) /\ Len(log'[c]) <= MaxLines
         /\ \A c \in S : \A i \in LinesOf(c) :
              i \in LinesOf(c)' /\ log'[c][i] = log[c][i] /\ rows'[c][i] = rows[c][i]
         /\ \A c \in S : \A i \in LinesOf(c)' \ LinesOf(c) :
              log'[c][i].at > since[c] /\ rows'[c][i] = 0 /\ ~Logged(<<c, i>>)
<1> DEFINE line == [at |-> now, query |-> query]
           n == Len(log[s])
<1>1. line \in Line /\ now > since[s]
  BY DEF TypeInv, TypeOK, Line, Write
<1>2. /\ log' = [log EXCEPT ![s] = Append(log[s], line)]
      /\ rows' = [rows EXCEPT ![s] = Append(rows[s], 0)]
  BY DEF Write
<1>3. log \in [S -> Seq(Line)] /\ rows \in [S -> Seq(Nat)] /\ Len(rows[s]) = n /\ n \in Nat
  BY LogFacts DEF TypeInv, TypeOK
<1>4. n + 1 <= MaxLines
  BY RoomForOne DEF Write
<1>5. /\ Append(log[s], line) \in Seq(Line) /\ Len(Append(log[s], line)) = n + 1
      /\ \A i \in 1..n : Append(log[s], line)[i] = log[s][i]
      /\ Append(log[s], line)[n + 1] = line
  BY <1>1, <1>3
<1>6. /\ Append(rows[s], 0) \in Seq(Nat) /\ Len(Append(rows[s], 0)) = n + 1
      /\ \A i \in 1..n : Append(rows[s], 0)[i] = rows[s][i]
      /\ Append(rows[s], 0)[n + 1] = 0
  BY <1>3
<1> HIDE DEF line
<1>7. /\ log' \in [S -> Seq(Line)] /\ rows' \in [S -> Seq(Nat)]
      /\ log'[s] = Append(log[s], line) /\ rows'[s] = Append(rows[s], 0)
      /\ \A c \in S : c # s => log'[c] = log[c] /\ rows'[c] = rows[c]
  BY <1>2, <1>3, <1>5, <1>6
<1>8. LinesOf(s) = 1..n /\ LinesOf(s)' = 1..(n + 1) /\ \A c \in S : c # s => LinesOf(c)' = LinesOf(c)
  <2>1. LinesOf(s)' = 1..(n + 1)
    BY <1>3, <1>5, <1>7 DEF LinesOf
  <2>2. LinesOf(s) = 1..n
    BY LogFacts DEF TypeInv
  <2> QED BY <2>1, <2>2, <1>7 DEF LinesOf
<1>9. \A c \in S : Len(rows'[c]) = Len(log'[c]) /\ Len(log'[c]) <= MaxLines
  <2> SUFFICES ASSUME NEW c \in S
               PROVE  Len(rows'[c]) = Len(log'[c]) /\ Len(log'[c]) <= MaxLines
    OBVIOUS
  <2>1. CASE c = s
    BY <2>1, <1>4, <1>5, <1>6, <1>7
  <2>2. CASE c # s
    BY <2>2, <1>7 DEF TypeInv, TypeOK
  <2> QED BY <2>1, <2>2
<1>10. \A c \in S : \A i \in LinesOf(c) :
         i \in LinesOf(c)' /\ log'[c][i] = log[c][i] /\ rows'[c][i] = rows[c][i]
  <2> SUFFICES ASSUME NEW c \in S, NEW i \in LinesOf(c)
               PROVE  i \in LinesOf(c)' /\ log'[c][i] = log[c][i] /\ rows'[c][i] = rows[c][i]
    OBVIOUS
  <2>1. CASE c = s
    <3>1. i \in 1..n /\ i \in 1..(n + 1)
      BY <2>1, <1>3, <1>8
    <3> QED BY <2>1, <3>1, <1>5, <1>6, <1>7, <1>8
  <2>2. CASE c # s
    BY <2>2, <1>7, <1>8
  <2> QED BY <2>1, <2>2
<1>11. \A c \in S : \A i \in LinesOf(c)' \ LinesOf(c) : c = s /\ i = n + 1
  BY <1>3, <1>8
<1>12. ~Logged(<<s, n + 1>>)
  BY <1>3, <1>8 DEF Logged
<1>13. log'[s][n + 1].at > since[s] /\ rows'[s][n + 1] = 0
  BY <1>1, <1>5, <1>6, <1>7 DEF line
<1> QED BY <1>7, <1>9, <1>10, <1>11, <1>12, <1>13

LEMMA CommitAdds ==
  ASSUME TypeInv, Commit
  PROVE  /\ rows' \in [S -> Seq(Nat)]
         /\ \A c \in S : Len(rows'[c]) = Len(log[c])
         /\ \A c \in S : \A i \in LinesOf(c) :
              rows'[c][i] = IF <<c, i>> \in got THEN rows[c][i] + 1 ELSE rows[c][i]
<1> DEFINE new(c) == [i \in LinesOf(c) |-> IF <<c, i>> \in got THEN rows[c][i] + 1 ELSE rows[c][i]]
<1>1. \A c \in S : rows'[c] = new(c)
  BY DEF Commit
<1>2. ASSUME NEW c \in S PROVE new(c) \in Seq(Nat) /\ Len(new(c)) = Len(log[c])
  <2>1. LinesOf(c) = 1..Len(log[c]) /\ Len(log[c]) \in Nat
          /\ rows[c] \in Seq(Nat) /\ DOMAIN rows[c] = 1..Len(log[c])
    BY LogFacts DEF TypeInv
  <2>2. \A i \in LinesOf(c) : rows[c][i] \in Nat
    BY <2>1
  <2>3. new(c) \in [1..Len(log[c]) -> Nat]
    BY <2>1, <2>2
  <2> HIDE DEF new
  <2> QED BY <2>1, <2>3
<1>3. rows' = [c \in S |-> rows'[c]]
  BY DEF Commit
<1>4. rows' \in [S -> Seq(Nat)] /\ \A c \in S : Len(rows'[c]) = Len(log[c])
  <2> HIDE DEF new
  <2> QED BY <1>1, <1>2, <1>3
<1> QED BY <1>1, <1>4

LEMMA TypeInvInit == Init => TypeInv
<1> SUFFICES ASSUME Init PROVE TypeInv
  OBVIOUS
<1>1. now \in 0..MaxNow /\ pc \in 0..Done /\ lives = 1 /\ got = {} /\ lost = {}
  BY BoundsAssumption, SourcesCounted DEF Init
<1>2. log \in [S -> Seq(Line)] /\ rows \in [S -> Seq(Nat)]
        /\ \A s \in S : Len(rows[s]) = Len(log[s]) /\ Len(log[s]) <= MaxLines
  BY BoundsAssumption DEF Init
<1>3. since \in [S -> -1..MaxNow] /\ from \in [S -> Int]
  BY BoundsAssumption DEF Init, Unknown
<1> QED BY <1>1, <1>2, <1>3 DEF TypeInv, TypeOK

(* Of the steps only the four below change a log, a cursor or the rows. *)
Quiet == UNCHANGED <<log, since, from, rows, lives>> /\ got' \cup lost' \subseteq got \cup lost

LEMMA Steps ==
  ASSUME [Next]_vars
  PROVE  \/ \E s \in S, query \in BOOLEAN : Write(s, query)
         \/ \E s \in S : Fetch(s)
         \/ Commit \/ Restart
         \/ /\ Quiet
            /\ (got' = got /\ lost' = lost) \/ (got' = {} /\ lost' = lost \cup got)
            /\ now' = now \/ (now < MaxNow /\ now' = now + 1)
            /\ pc' \in {pc, 0, 1} \/ (pc \in S /\ pc' = pc + 1)
BY DEF Next, Quiet, Tick, Miss, Wake, CommitFails, vars

LEMMA LoggedStays ==
  ASSUME TypeInv, NEW s \in S, NEW query \in BOOLEAN, Write(s, query), NEW p, Logged(p)
  PROVE  Logged(p)'
BY WriteAppends DEF Logged

LEMMA LoggedTyped ==
  ASSUME TypeInv, NEW p, Logged(p)
  PROVE  p \in {<<s, i>> : s \in S, i \in 1..MaxLines}
<1>1. PICK s \in S : \E i \in LinesOf(s) : p = <<s, i>>
  BY DEF Logged
<1>2. PICK i \in LinesOf(s) : p = <<s, i>>
  BY <1>1
<1>3. i \in 1..MaxLines
  <2>1. LinesOf(s) = 1..Len(log[s]) /\ Len(log[s]) \in Nat /\ Len(log[s]) <= MaxLines
          /\ MaxLines \in Nat
    BY LogFacts, BoundsAssumption DEF TypeInv
  <2> QED BY <1>2, <2>1
<1> QED BY <1>2, <1>3

LEMMA TypeInvStep == TypeInv /\ [Next]_vars => TypeInv'
<1> SUFFICES ASSUME TypeInv, [Next]_vars PROVE TypeInv'
  OBVIOUS
<1> DEFINE Pairs == {<<s, i>> : s \in S, i \in 1..MaxLines}
<1>0. now \in 0..MaxNow /\ MaxNow \in Nat /\ pc \in 0..Done /\ lives \in Nat /\ lives >= 1
  BY BoundsAssumption DEF TypeInv, TypeOK
<1>c. TypeOK
  BY DEF TypeInv
<1>l. (got \cup lost) \subseteq Pairs /\ \A p \in got \cup lost : Logged(p)
  BY LoggedTyped DEF TypeInv
<1>1. ASSUME NEW s \in S, NEW query \in BOOLEAN, Write(s, query) PROVE TypeInv'
  <2>1. UNCHANGED <<now, since, from, got, lost, pc, lives>>
    BY <1>1 DEF Write
  <2>2. \A p \in got' \cup lost' : Logged(p)'
    BY <1>1, <1>l, <2>1, LoggedStays
  <2> QED BY <1>1, <1>c, <1>l, <2>1, <2>2, WriteAppends DEF TypeInv, TypeOK
<1>2. ASSUME NEW s \in S, Fetch(s) PROVE TypeInv'
  <2>1. UNCHANGED <<now, log, rows, lost, lives>>
    BY <1>2 DEF Fetch
  <2>2. since' \in [S -> -1..MaxNow] /\ from' \in [S -> Int]
    BY <1>2, <1>c, FetchMoves
  <2>3. pc' \in 0..Done
    BY <1>2, <1>0, SourcesCounted DEF Fetch
  <2>4. \A p \in got' : Logged(p)
    BY <1>2, <1>l DEF Fetch, Queries, Behind, Logged
  <2>5. \A p \in got' \cup lost' : Logged(p)'
    BY <1>l, <2>1, <2>4 DEF Logged, LinesOf
  <2>6. (got' \cup lost') \subseteq Pairs
    BY <1>l, <2>1, <2>4, LoggedTyped
  <2> QED BY <1>c, <2>1, <2>2, <2>3, <2>5, <2>6 DEF TypeInv, TypeOK
<1>3. CASE Commit
  <2>1. UNCHANGED <<now, log, since, from, lost, lives>> /\ got' = {} /\ pc' = 0
    BY <1>3 DEF Commit
  <2>2. \A p \in got' \cup lost' : Logged(p)'
    BY <1>l, <2>1 DEF Logged, LinesOf
  <2>3. pc' \in 0..Done
    BY <1>0, <2>1, SourcesCounted
  <2> QED BY <1>3, <1>c, <1>l, <2>1, <2>2, <2>3, CommitAdds DEF TypeInv, TypeOK
<1>4. CASE Restart
  <2>1. UNCHANGED <<now, log, from, rows, lost>> /\ got' = {} /\ pc' = 0 /\ lives' = lives + 1
    BY <1>4 DEF Restart
  <2>2. since' \in [S -> -1..MaxNow]
    BY <1>0, <1>4 DEF Restart, Unknown
  <2>3. \A p \in got' \cup lost' : Logged(p)'
    BY <1>l, <2>1 DEF Logged, LinesOf
  <2>4. pc' \in 0..Done
    BY <1>0, <2>1, SourcesCounted
  <2>5. lives' \in Nat /\ lives' >= 1
    BY <1>0, <2>1
  <2> QED BY <1>c, <1>l, <2>1, <2>2, <2>3, <2>4, <2>5 DEF TypeInv, TypeOK
<1>5. ASSUME Quiet, now' = now \/ (now < MaxNow /\ now' = now + 1),
             pc' \in {pc, 0, 1} \/ (pc \in S /\ pc' = pc + 1)
      PROVE  TypeInv'
  <2>1. UNCHANGED <<log, since, from, rows, lives>> /\ got' \cup lost' \subseteq got \cup lost
    BY <1>5 DEF Quiet
  <2>2. \A p \in got' \cup lost' : Logged(p)'
    BY <1>l, <2>1 DEF Logged, LinesOf
  <2>3. now' \in 0..MaxNow
    BY <1>0, <1>5
  <2>4. pc' \in 0..Done
    BY <1>0, <1>5, SourcesCounted
  <2>5. got' \subseteq Pairs /\ lost' \subseteq Pairs
    BY <1>l, <2>1
  <2>6. TypeOK'
    BY <1>c, <2>1, <2>3, <2>4, <2>5 DEF TypeOK
  <2>7. lives' >= 1 /\ \A s \in S : Len(log'[s]) <= MaxLines
    BY <2>1 DEF TypeInv
  <2> QED BY <2>2, <2>6, <2>7 DEF TypeInv
<1> QED BY <1>1, <1>2, <1>3, <1>4, <1>5, Steps

LEMMA TypeInvariant == Spec => []TypeInv
BY TypeInvInit, TypeInvStep, PTL DEF Spec

(* Logs, cursors and table are well formed in every reachable state. *)
THEOREM TypeCorrect == Spec => []TypeOK
<1>1. TypeInv => TypeOK
  BY DEF TypeInv
<1> QED BY <1>1, TypeInvariant, PTL
-----------------------------------------------------------------------------
(* A step that fetches nothing, with what it does to one line. *)
LEMMA SkippedStep == TypeInv /\ NothingSkipped /\ [Next]_vars => NothingSkipped'
<1> SUFFICES ASSUME TypeInv, NothingSkipped, [Next]_vars,
                    NEW s \in S, NEW i \in LinesOf(s)', log'[s][i].query,
                    from'[s] <= log'[s][i].at, log'[s][i].at <= since'[s]
             PROVE  rows'[s][i] > 0 \/ <<s, i>> \in got' \cup lost'
  BY DEF NothingSkipped
<1> DEFINE Safe == rows[s][i] > 0 \/ <<s, i>> \in got \cup lost
<1>0. TypeOK
  BY DEF TypeInv
<1>1. ASSUME NEW c \in S, NEW query \in BOOLEAN, Write(c, query)
      PROVE  rows'[s][i] > 0 \/ <<s, i>> \in got' \cup lost'
  <2>1. UNCHANGED <<since, from, got, lost>>
    BY <1>1 DEF Write
  <2>2. i \in LinesOf(s)
    <3> SUFFICES ASSUME i \notin LinesOf(s) PROVE FALSE
      OBVIOUS
    <3>1. log'[s][i].at > since[s]
      BY <1>1, WriteAppends
    <3>2. log' \in [S -> Seq(Line)] /\ since[s] \in Int
      <4>1. log' \in [S -> Seq(Line)]
        BY <1>1, WriteAppends
      <4> QED BY <4>1, <1>0, LogFacts
    <3>3. log'[s][i] \in Line
      BY <3>2 DEF LinesOf
    <3> QED BY <2>1, <3>1, <3>2, <3>3 DEF Line
  <2>3. log'[s][i] = log[s][i] /\ rows'[s][i] = rows[s][i]
    BY <1>1, <2>2, WriteAppends
  <2> QED BY <2>1, <2>2, <2>3 DEF NothingSkipped
<1>2. ASSUME NEW c \in S, Fetch(c) PROVE rows'[s][i] > 0 \/ <<s, i>> \in got' \cup lost'
  <2>1. UNCHANGED <<log, rows, lost>> /\ got' = got \cup {<<c, j>> : j \in Queries(c)}
    BY <1>2 DEF Fetch
  <2>2. i \in LinesOf(s) /\ log[s][i].query /\ log[s][i].at \in 0..MaxNow /\ since[s] \in Int
          /\ from[s] \in Int
    BY <2>1, <1>0, LogFacts DEF LinesOf
  <2>3. CASE c # s
    BY <1>0, <1>2, <2>1, <2>2, <2>3, FetchMoves DEF NothingSkipped
  <2>4. CASE c = s
    <3>1. from'[s] = IF since[s] = Unknown THEN now - LookBack ELSE from[s]
      BY <1>0, <1>2, <2>4, FetchMoves
    <3>2. CASE i \in Behind(s)
      BY <2>1, <2>2, <2>4, <3>2 DEF Queries
    <3>3. CASE i \notin Behind(s)
      <4>1. since[s] # Unknown /\ log[s][i].at <= since[s]
        BY <2>1, <2>2, <3>1, <3>3, TimesAssumption DEF Behind, TypeInv, TypeOK
      <4> QED BY <2>1, <2>2, <3>1, <4>1 DEF NothingSkipped
    <3> QED BY <3>2, <3>3
  <2> QED BY <2>3, <2>4
<1>3. CASE Commit
  <2>1. UNCHANGED <<log, since, from, lost>>
    BY <1>3 DEF Commit
  <2>2. i \in LinesOf(s) /\ rows[s][i] \in Nat
    BY <2>1, <1>0, LogFacts DEF LinesOf
  <2>3. Safe
    BY <2>1, <2>2 DEF NothingSkipped
  <2> QED BY <1>3, <2>1, <2>2, <2>3, CommitAdds
<1>4. CASE Restart
  <2>1. since'[s] = -1 /\ log' = log
    BY <1>4 DEF Restart, Unknown
  <2>2. log[s][i].at \in 0..MaxNow
    BY <2>1, <1>0, LogFacts DEF LinesOf
  <2> QED BY <2>1, <2>2, BoundsAssumption
<1>5. ASSUME Quiet, (got' = got /\ lost' = lost) \/ (got' = {} /\ lost' = lost \cup got)
      PROVE  rows'[s][i] > 0 \/ <<s, i>> \in got' \cup lost'
  BY <1>5 DEF Quiet, NothingSkipped, LinesOf
<1> QED BY <1>1, <1>2, <1>3, <1>4, <1>5, Steps

(* The cursor passes no query that is neither stored nor about to be, except those whose *)
(* commit failed and those older than what the process looked back to.                   *)
THEOREM CursorSkipsNothing == Spec => []NothingSkipped
<1>1. Init => NothingSkipped
  BY DEF Init, NothingSkipped, LinesOf
<1> QED BY <1>1, SkippedStep, TypeInvariant, PTL DEF Spec

(* A peer that moves data is suspected of a leak only when the poller has stored none of *)
(* its queries of the window, which then means that there was none it dealt with.        *)
THEOREM AlarmsAreTrue == Spec => []NoFalseAlarm
<1>1. NothingSkipped => NoFalseAlarm
  BY DEF NothingSkipped, NoFalseAlarm, Suspected, Recent
<1> QED BY <1>1, CursorSkipsNothing, PTL

-----------------------------------------------------------------------------
(* A line this life of the process has not stored yet has at most one row for every *)
(* earlier life: that is any line ahead of the cursor, and any line of this poll.   *)
Fresh(s, i) == since[s] = Unknown \/ log[s][i].at > since[s] \/ <<s, i>> \in got

OneRowPerLife ==
  \A s \in S : \A i \in LinesOf(s) :
    /\ rows[s][i] <= lives
    /\ Fresh(s, i) => rows[s][i] <= lives - 1
    /\ <<s, i>> \in got => since[s] # Unknown /\ log[s][i].at <= since[s]

LEMMA OneRowStep == TypeInv /\ OneRowPerLife /\ [Next]_vars => OneRowPerLife'
<1> SUFFICES ASSUME TypeInv, OneRowPerLife, [Next]_vars, NEW s \in S, NEW i \in LinesOf(s)'
             PROVE  /\ rows'[s][i] <= lives'
                    /\ Fresh(s, i)' => rows'[s][i] <= lives' - 1
                    /\ <<s, i>> \in got' => since'[s] # Unknown /\ log'[s][i].at <= since'[s]
  BY DEF OneRowPerLife
<1> DEFINE Goal == /\ rows'[s][i] <= lives'
                   /\ Fresh(s, i)' => rows'[s][i] <= lives' - 1
                   /\ <<s, i>> \in got' => since'[s] # Unknown /\ log'[s][i].at <= since'[s]
<1>0. TypeOK /\ lives \in Nat /\ lives >= 1
  BY DEF TypeInv, TypeOK
<1>i. ASSUME i \in LinesOf(s)
      PROVE  /\ rows[s][i] \in Nat /\ log[s][i].at \in 0..MaxNow /\ since[s] \in Int
             /\ rows[s][i] <= lives
             /\ Fresh(s, i) => rows[s][i] <= lives - 1
             /\ <<s, i>> \in got => since[s] # Unknown /\ log[s][i].at <= since[s]
  BY <1>0, <1>i, LogFacts DEF OneRowPerLife
<1>1. ASSUME NEW c \in S, NEW query \in BOOLEAN, Write(c, query) PROVE Goal
  <2>1. UNCHANGED <<since, got, lives>>
    BY <1>1 DEF Write
  <2>2. CASE i \in LinesOf(s)
    <3>1. log'[s][i] = log[s][i] /\ rows'[s][i] = rows[s][i]
      BY <1>1, <2>2, WriteAppends
    <3> QED BY <1>i, <2>1, <2>2, <3>1 DEF Fresh
  <2>3. CASE i \notin LinesOf(s)
    <3>1. rows'[s][i] = 0 /\ ~Logged(<<s, i>>)
      BY <1>1, <2>3, WriteAppends
    <3>2. <<s, i>> \notin got'
      BY <2>1, <3>1 DEF TypeInv
    <3> QED BY <1>0, <2>1, <3>1, <3>2
  <2> QED BY <2>2, <2>3
<1>2. ASSUME NEW c \in S, Fetch(c) PROVE Goal
  <2>1. UNCHANGED <<log, rows, lives>> /\ got' = got \cup {<<c, j>> : j \in Queries(c)}
    BY <1>2 DEF Fetch
  <2>2. i \in LinesOf(s)
    BY <2>1 DEF LinesOf
  <2>3. CASE c # s
    BY <1>0, <1>2, <1>i, <2>1, <2>2, <2>3, FetchMoves DEF Fresh
  <2>4. CASE c = s
    <3>1. since'[s] >= since[s] /\ since'[s] \in Int /\ \A j \in Queries(s) : log[s][j].at <= since'[s]
      BY <1>0, <1>2, <2>4, FetchMoves
    <3>2. CASE i \in Queries(s)
      <4>1. Fresh(s, i)
        BY <3>2 DEF Queries, Behind, Fresh
      <4>2. since'[s] # Unknown
        BY <1>i, <2>2, <3>1, <3>2 DEF Unknown
      <4> QED BY <1>0, <1>i, <2>1, <2>2, <3>1, <3>2, <4>1, <4>2
    <3>3. CASE i \notin Queries(s)
      <4>1. <<s, i>> \in got' => <<s, i>> \in got
        BY <2>1, <2>4, <3>3
      <4>2. since'[s] = Unknown => since[s] = Unknown
        BY <1>0, <3>1, LogFacts DEF Unknown
      <4> QED BY <1>i, <2>1, <2>2, <3>1, <4>1, <4>2 DEF Fresh, Unknown
    <3> QED BY <3>2, <3>3
  <2> QED BY <2>3, <2>4
<1>3. CASE Commit
  <2>1. UNCHANGED <<log, since, lives>> /\ got' = {}
    BY <1>3 DEF Commit
  <2>2. i \in LinesOf(s)
    BY <2>1 DEF LinesOf
  <2>3. rows'[s][i] = IF <<s, i>> \in got THEN rows[s][i] + 1 ELSE rows[s][i]
    BY <1>3, <2>2, CommitAdds
  <2> QED BY <1>0, <1>i, <2>1, <2>2, <2>3 DEF Fresh
<1>4. CASE Restart
  <2>1. UNCHANGED <<log, rows>> /\ got' = {} /\ lives' = lives + 1
    BY <1>4 DEF Restart
  <2>2. i \in LinesOf(s)
    BY <2>1 DEF LinesOf
  <2> QED BY <1>0, <1>i, <2>1, <2>2
<1>5. ASSUME Quiet, (got' = got) \/ (got' = {}) PROVE Goal
  <2>1. UNCHANGED <<log, since, rows, lives>>
    BY <1>5 DEF Quiet
  <2>2. i \in LinesOf(s)
    BY <2>1 DEF LinesOf
  <2> QED BY <1>5, <1>i, <2>1, <2>2 DEF Fresh
<1> QED BY <1>1, <1>2, <1>3, <1>4, <1>5, Steps

(* No line is stored twice by one life of the process, whichever fetches failed between. *)
THEOREM NoLineTwice == Spec => []NoDuplicates
<1>1. Init => OneRowPerLife
  BY DEF Init, OneRowPerLife, LinesOf
<1>2. OneRowPerLife => NoDuplicates
  BY DEF OneRowPerLife, NoDuplicates
<1> QED BY <1>1, <1>2, OneRowStep, TypeInvariant, PTL DEF Spec
-----------------------------------------------------------------------------
(* Pages are a matter of division. *)
LEMMA PageOf ==
  ASSUME NEW k \in Int, NEW size \in Nat \ {0}
  PROVE  /\ k \div size \in Int
         /\ (k \div size) * size <= k
         /\ k < (k \div size) * size + size
OBVIOUS

LEMMA Scaled ==
  ASSUME NEW p \in Int, NEW q \in Int, NEW size \in Nat \ {0}
  PROVE  /\ p * size \in Int
         /\ (p + 1) * size = p * size + size
         /\ (p - 1) * size = p * size - size
         /\ (-p) * size = -(p * size)
         /\ p * size < q * size => p < q
         /\ p <= q => p * size <= q * size
OBVIOUS

(* The rows are finitely many. *)
LEMMA TotalIsNat == Total \in Nat
<1> DEFINE Triples == (S \X (1..MaxLines)) \X (1..MaxLives)
           Flat == [x \in Triples |-> <<x[1][1], x[1][2], x[2]>>]
<1>1. IsFiniteSet(Triples)
  <2>1. IsFiniteSet(1..MaxLines) /\ IsFiniteSet(1..MaxLives)
    BY BoundsAssumption, FS_Interval
  <2>2. IsFiniteSet(S \X (1..MaxLines))
    BY <2>1, SourcesCounted, FS_Product
  <2> QED BY <2>1, <2>2, FS_Product
<1>2. Flat \in Surjection(Triples, RowIds)
  <2>1. \A x \in Triples : Flat[x] \in RowIds
    BY DEF RowIds
  <2>2. \A r \in RowIds : \E x \in Triples : Flat[x] = r
    <3> SUFFICES ASSUME NEW r \in RowIds PROVE \E x \in Triples : Flat[x] = r
      OBVIOUS
    <3>1. PICK s \in S, i \in 1..MaxLines, n \in 1..MaxLives : r = <<s, i, n>>
      BY DEF RowIds
    <3>2. <<<<s, i>>, n>> \in Triples /\ Flat[<<<<s, i>>, n>>] = r
      BY <3>1
    <3> QED BY <3>2
  <2> QED BY <2>1, <2>2 DEF Surjection
<1>3. IsFiniteSet(RowIds)
  BY <1>1, <1>2, FS_Surjection
<1> QED BY <1>3, FS_Subset, FS_CardinalityType DEF Total

(* How many pages there are: enough for every row that is shown, none to spare. *)
LEMMA PagesCounted ==
  /\ Capped \in Nat /\ Capped <= Total
  /\ TotalPages \in 1..MaxPages
  /\ Capped <= TotalPages * PageSize
  /\ Capped > 0 => (TotalPages - 1) * PageSize < Capped
<1> DEFINE q == (-Capped) \div PageSize
           all == MaxPages * PageSize
<1>0. PageSize \in Nat \ {0} /\ MaxPages \in Nat \ {0}
  BY PagesAssumption
<1>1. all \in Int /\ all > 0
  BY <1>0
<1>2. Capped \in Nat /\ Capped <= Total /\ Capped <= all
  BY <1>1, TotalIsNat DEF Capped
<1>3. q \in Int /\ q * PageSize <= -Capped /\ -Capped < q * PageSize + PageSize
  BY <1>0, <1>2, PageOf
<1>4. /\ (-q) * PageSize = -(q * PageSize) /\ q * PageSize \in Int
      /\ (-q - 1) * PageSize = (-q) * PageSize - PageSize
  BY <1>0, <1>3, Scaled
<1>5. TotalPages = IF -q >= 1 THEN -q ELSE 1
  <2>1. Max({1, -q}) \in {1, -q} /\ \A y \in {1, -q} : Max({1, -q}) >= y
    <3>1. \E m \in {1, -q} : \A y \in {1, -q} : m >= y
      BY <1>3
    <3> HIDE DEF q
    <3> QED BY <3>1 DEF Max
  <2>2. TotalPages = Max({1, -q})
    BY DEF TotalPages
  <2> HIDE DEF q
  <2> QED BY <1>3, <2>1, <2>2
<1> HIDE DEF q
<1>6. Capped <= (-q) * PageSize /\ (-q - 1) * PageSize < Capped
  BY <1>0, <1>2, <1>3, <1>4
<1>7. -q <= MaxPages
  <2>1. (-q - 1) * PageSize < MaxPages * PageSize
    <3>1. (-q - 1) * PageSize \in Int
      BY <1>0, <1>3, Scaled
    <3> HIDE DEF all
    <3>2. (-q - 1) * PageSize < all
      BY <1>1, <1>2, <1>6, <3>1
    <3> QED BY <3>2 DEF all
  <2>2. -q - 1 < MaxPages
    BY <1>0, <1>3, <2>1, Scaled
  <2> QED BY <1>0, <1>3, <2>2
<1>8. CASE -q >= 1
  BY <1>0, <1>2, <1>3, <1>5, <1>6, <1>7, <1>8
<1>9. CASE ~(-q >= 1)
  <2>1. TotalPages = 1
    BY <1>5, <1>9
  <2>2. Capped <= 0
    <3>1. (-q) * PageSize <= 0 * PageSize
      BY <1>0, <1>3, <1>9, Scaled
    <3> QED BY <1>0, <1>2, <1>3, <1>4, <1>6, <3>1
  <2> QED BY <1>0, <1>2, <2>1, <2>2
<1> QED BY <1>8, <1>9

(* What page p shows. *)
LEMMA PageShows ==
  ASSUME NEW p \in 1..MaxPages
  PROVE  \A k : k \in Page(p) <=>
           k \in Int /\ (p - 1) * PageSize <= k /\ k < p * PageSize /\ k < Total
<1> DEFINE page == IF p > MaxPages THEN MaxPages ELSE Max({p, 1})
           offset == (p - 1) * PageSize
<1>0. PageSize \in Nat \ {0} /\ MaxPages \in Nat \ {0}
  BY PagesAssumption
<1>1. page = p
  <2>1. Max({p, 1}) \in {p, 1} /\ \A y \in {p, 1} : Max({p, 1}) >= y
    BY MaxIsGreatest
  <2> QED BY <1>0, <2>1
<1>2. offset \in Int /\ offset = p * PageSize - PageSize /\ p * PageSize \in Int
  BY <1>0, Scaled
<1>3. Page(p) = {k \in offset..(offset + PageSize - 1) : k < Total}
  BY <1>1 DEF Page
<1> HIDE DEF offset
<1>4. \A k : k \in Page(p) <=> k \in Int /\ offset <= k /\ k < p * PageSize /\ k < Total
  BY <1>0, <1>2, <1>3
<1> QED BY <1>4 DEF offset

(* The pages of the Activity tab show each of the newest rows once, and the last page is *)
(* not empty, for every page size, page limit and number of rows.                        *)
THEOREM PagesAlwaysCover == Spec => []PagesCover
<1>0. PageSize \in Nat \ {0} /\ MaxPages \in Nat \ {0}
  BY PagesAssumption
<1>1. TotalPages \in 1..MaxPages /\ 1..TotalPages \subseteq 1..MaxPages
  BY <1>0, PagesCounted
<1>2. ASSUME NEW k \in 0..(Capped - 1)
      PROVE  Cardinality({p \in 1..TotalPages : k \in Page(p)}) = 1
  <2> DEFINE d == k \div PageSize
             mine == {p \in 1..TotalPages : k \in Page(p)}
  <2>0. k \in Nat /\ k < Capped /\ k < Total
    BY TotalIsNat, PagesCounted
  <2>1. d \in Int /\ d * PageSize <= k /\ k < d * PageSize + PageSize
    BY <1>0, <2>0, PageOf
  <2> HIDE DEF d
  <2>2. d >= 0
    <3>1. (-1) * PageSize < d * PageSize
      <4>1. (-1) * PageSize = -PageSize /\ d * PageSize \in Int
        BY <1>0, <2>1, Scaled
      <4> QED BY <1>0, <2>0, <2>1, <4>1
    <3> QED BY <1>0, <2>1, <3>1, Scaled
  <2>3. d < TotalPages
    <3>1. d * PageSize < TotalPages * PageSize
      <4>1. d * PageSize \in Int /\ TotalPages * PageSize \in Int
        BY <1>0, <1>1, <2>1, Scaled
      <4> QED BY <2>0, <2>1, <4>1, PagesCounted
    <3> QED BY <1>0, <1>1, <2>1, <3>1, Scaled
  <2>4. d + 1 \in 1..TotalPages
    BY <1>1, <2>1, <2>2, <2>3
  <2>5. k \in Page(d + 1)
    <3>1. (d + 1) * PageSize = d * PageSize + PageSize /\ (d + 1) - 1 = d
      BY <1>0, <2>1, Scaled
    <3> QED BY <1>1, <2>0, <2>1, <2>4, <3>1, PageShows
  <2>6. ASSUME NEW p \in 1..TotalPages, k \in Page(p) PROVE p = d + 1
    <3>1. (p - 1) * PageSize <= k /\ k < p * PageSize /\ p \in Int
      BY <1>1, <2>6, PageShows
    <3>2. (p - 1) * PageSize \in Int /\ p * PageSize \in Int /\ d * PageSize \in Int
          /\ (d + 1) * PageSize = d * PageSize + PageSize
      BY <1>0, <2>1, <3>1, Scaled
    <3>3. d * PageSize < p * PageSize /\ (p - 1) * PageSize < (d + 1) * PageSize
      BY <1>0, <2>0, <2>1, <3>1, <3>2
    <3>4. d < p /\ p - 1 < d + 1
      BY <1>0, <2>1, <3>1, <3>3, Scaled
    <3> QED BY <2>1, <3>1, <3>4
  <2>7. mine = {d + 1}
    BY <2>4, <2>5, <2>6
  <2> QED BY <2>7, FS_Singleton
<1>3. ASSUME Total > 0 PROVE Page(TotalPages) # {}
  <2> DEFINE k == (TotalPages - 1) * PageSize
  <2>1. Capped > 0
    <3>1. MaxPages * PageSize > 0
      BY <1>0
    <3> QED BY <1>3, <3>1 DEF Capped
  <2>2. k \in Int /\ k < Capped /\ k < TotalPages * PageSize
    <3>1. k \in Int /\ k = TotalPages * PageSize - PageSize /\ TotalPages * PageSize \in Int
      BY <1>0, <1>1, Scaled
    <3> QED BY <1>0, <2>1, <3>1, PagesCounted
  <2>3. k < Total
    BY <2>2, TotalIsNat, PagesCounted
  <2> QED BY <1>1, <2>2, <2>3, PageShows
<1>4. PagesCover
  BY <1>2, <1>3 DEF PagesCover
<1> QED BY <1>4, PTL
-----------------------------------------------------------------------------
(* The safety half of EventuallyStored: a query ahead of the cursor, or in the poll under *)
(* way, leaves this state only into the table, into a failed commit, or by a restart; no  *)
(* missed fetch, other container or later line drops it.                                  *)
InHand(s, i) == Ahead(s, i) \/ <<s, i>> \in got
NeverDropped ==
  [][\A s \in S, i \in 1..MaxLines : InHand(s, i) => InHand(s, i)' \/ Settled(s, i)']_vars

LEMMA DroppedStep ==
  ASSUME TypeInv, [Next]_vars, NEW s \in S, NEW i \in 1..MaxLines, InHand(s, i)
  PROVE  InHand(s, i)' \/ Settled(s, i)'
<1>0. TypeOK /\ (since \in [S -> -1..MaxNow])
  BY DEF TypeInv, TypeOK
<1>1. i \in LinesOf(s)
  BY DEF InHand, Ahead, TypeInv, Logged
<1>2. log[s][i].at \in 0..MaxNow /\ rows[s][i] \in Nat
  BY <1>0, <1>1, LogFacts
<1>3. ASSUME NEW c \in S, NEW query \in BOOLEAN, Write(c, query)
      PROVE  InHand(s, i)'
  <2>1. UNCHANGED <<since, got>>
    BY <1>3 DEF Write
  <2> QED BY <1>1, <1>3, <2>1, WriteAppends DEF InHand, Ahead
<1>4. ASSUME NEW c \in S, Fetch(c)
      PROVE  InHand(s, i)'
  <2>1. log' = log /\ got' = got \cup {<<c, j>> : j \in Queries(c)}
    BY <1>4 DEF Fetch
  <2>2. CASE <<s, i>> \in got
    BY <2>1, <2>2 DEF InHand
  <2>3. CASE Ahead(s, i) /\ c = s
    BY <2>1, <2>3 DEF InHand, Ahead, Queries, Behind
  <2>4. CASE Ahead(s, i) /\ c # s
    <3>1. since'[s] = since[s]
      BY <1>0, <1>4, <2>4, FetchMoves
    <3> QED BY <2>1, <2>4, <3>1 DEF InHand, Ahead, LinesOf
  <2> QED BY <2>2, <2>3, <2>4 DEF InHand
<1>5. ASSUME Commit
      PROVE  InHand(s, i)' \/ Settled(s, i)'
  <2>1. UNCHANGED <<log, since>>
    BY <1>5 DEF Commit
  <2>2. CASE <<s, i>> \in got
    <3>1. rows'[s][i] = rows[s][i] + 1
      BY <1>1, <1>5, <2>2, CommitAdds
    <3> QED BY <1>1, <1>2, <2>1, <3>1 DEF Settled, LinesOf
  <2>3. CASE Ahead(s, i)
    BY <2>1, <2>3 DEF InHand, Ahead, LinesOf
  <2> QED BY <2>2, <2>3 DEF InHand
<1>6. ASSUME Restart
      PROVE  Settled(s, i)'
  BY <1>1, <1>6 DEF Restart, Settled, LinesOf
<1>7. ASSUME Quiet, (got' = got /\ lost' = lost) \/ (got' = {} /\ lost' = lost \cup got)
      PROVE  InHand(s, i)' \/ Settled(s, i)'
  BY <1>1, <1>7 DEF Quiet, InHand, Ahead, Settled, LinesOf
<1> QED BY <1>3, <1>4, <1>5, <1>6, <1>7, Steps

THEOREM QueriesAreNeverDropped == Spec => NeverDropped
<1>1. TypeInv /\ [Next]_vars
        => [\A s \in S, i \in 1..MaxLines : InHand(s, i) => InHand(s, i)' \/ Settled(s, i)']_vars
  BY DroppedStep
<1> QED BY <1>1, TypeInvariant, PTL DEF Spec, NeverDropped
==================================================================================
